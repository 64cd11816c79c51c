# agentcompute: a verification project

agentcompute is a Go MCP server that gives agents disposable *sandboxes*: groups of
instances and networks that expire. Linux and Windows guests live in an Incus project, macOS
guests on one Mac driven through Lume. A second program, the dev proxy in `tools/proxy`,
keeps an MCP server under development available while it rebuilds and restarts it.

This directory holds TLA+ modules of the parts whose correctness depends on the order
of events, the TLC runs that check them on small instances, and proofs, checked by TLAPS,
of what holds for every instance. All paths below are relative to the repository.

- [Inventory](#inventory) – the components, their state, and what makes each correct
- [Modules](#modules) – which module models what, and how it corresponds to the code
- [Runs](#runs) – what each TLC run asks, its bounds and why they are enough
- [Fairness](#fairness)
- [Proofs](#proofs)
- [Where code and text disagree](#where-code-and-text-disagree)
- [Not modelled](#not-modelled)
- [Plan](#plan)

## Inventory

### The server

| component | state it keeps | operations | hard behaviour | correct when |
|---|---|---|---|---|
| gate (`internal/compute/gate.go`) | map of reference-counted locks, each a one-slot channel | `Lock`, the unlock it returns | two separate sections, `ctx` ending while the token is offered | a mutex per sandbox name; every `Lock` returns; entries neither leak nor vanish early |
| service (`compute/service.go`, `lifecycle.go`, `network.go`, `exec.go`, `file.go`) | none of its own: the backend's sandboxes | create, extend, pin, delete; instances; networks; snapshots | check-then-write around backend calls that fail or outlive their answer; the reaper beside the handlers; restart of the process | a mutation acts on the sandbox it checked; only expired, unpinned sandboxes disappear; deletes finish |
| reaper (`compute/reaper.go`, `cli/runtime.go:305`) | a list taken without any gate | `Reap` at startup and on a ticker | stale list | re-checks under the gate; nothing is retained for ever |
| backend router (`compute/router.go`) | none | picks Incus or Lume by looking the sandbox up | one of two backends unreachable | the same name never exists in both |
| Incus backend (`internal/incus`) | a project per sandbox, reserved bridges shared by all, forward addresses, snapshots, imported images | create/delete of all of them, restore, catalog reconciliation | ETag retries, 409s, creation and teardown in dependency order, partial failure | no network or project is leaked; one owner per bridge and address |
| Lume backend (`internal/lume`) | a sidecar file per sandbox with the *mapping* from instances to guests, recovery records of restores; in memory a mutex around starts | create, clone, start, stop, snapshot, restore, delete | mapping written before the guest exists, a host limit of two running guests, unreliable host API, crash between steps | no guest without a mapping, none deleted for another's sake, at most two running |
| desktop (`internal/desktop`) | screenshots by URL token, cached Windows driver sessions | publish, serve, sweep, purge; dial, call, drop | a capture or a dial that ends after its sandbox was deleted | nothing of a deleted sandbox stays reachable |
| MCP tools, CLI, HTTP, auth (`internal/mcpserver`, `internal/cli`) | configuration | conversions between tool calls and the service | – | – |

Requests run as goroutines. Every mutation except guest execution and file transfer takes the
gate of its sandbox, reads the sandbox through the backend, refuses unless it is live
(`withLiveSandbox`), and calls the backend while it holds the gate; `DeleteSandbox`,
`DeleteInstance`, `createNamedSandbox` and `reapSandbox` take the gate themselves. The gate
lives in the process: after a restart only what the backends store is left. When a sandbox
is removed the service calls back into the desktop (`OnSandboxExpired`).

### The dev proxy (`tools/proxy`)

| component | state it keeps | operations | hard behaviour | correct when |
|---|---|---|---|---|
| call router (`reloader/router.go`) | current child and generation, quiesced, in-flight count, swap buffer | `CallTool`, `Quiesce`, `Swap`, `SetFingerprints`, `Drain`, `Close` | a parked call's timeout against its release; completions of superseded children | each parked call resolved once; count exact; never an old call on new code |
| reload loop (`reloader/run.go`) | cycle in flight, timers, backoff, the serving child, the last reconciled set | handlers of one `select`; `performSwap` | edits, deaths, tool changes and shutdown at any moment, also inside a swap | serves the newest source; frontend and router agree; no orphan processes; stops |
| child (`upstream/child.go`) | tools, a one-slot channel of changes, `Done` | start, close | death racing an intentional close | closing is never reported as a crash |
| frontend (`downstream/downstream.go`) | per-tool and per-session generations | `Reconcile`, the stale-call gate | list and call racing a reconcile | a call carries a definition its session has seen |
| watcher, builder (`watch`, `build`) | fsnotify registrations | events, a build | I/O | every edit leads to an event |

The loop is the only writer of the router's child; callers meet it only through `router.mu`. The
loop tells the frontend what to advertise (`Reconcile`) and the frontend calls the router.

## Modules

```
  the server                                      the dev proxy
  KeyedMutex <-implements- Gate --+               Router
      ^ INSTANCE                  |                  ^ EXTENDS
  SandboxService                  |               ReloadLoop --+
  (MCSandboxService)              |               Frontend ----+-- MCDevProxy
                                  |               Watcher -----+
  BackendRouter ------------------+
  IncusGuests --------------------+-- MCServer    IncusNetworks --+-- MCIncusNetworks
  IncusCatalog -------------------+               OVNFabric ------+
  GuestExec ----------------------+
                                                  LumeHost -------+-- MCLumeDesktop
                                                  Desktop --------+

  proofs          of
  ComputeProofs   Gate, BackendRouter
  SandboxProofs   SandboxService
  IncusProofs     IncusCatalog, IncusGuests, GuestExec
  NetworksProofs  OVNFabric, IncusNetworks
  LumeProofs      LumeHost
  DesktopProofs   Desktop
  ProxyProofs     Router, Frontend, Watcher
  ReloadProofs    ReloadLoop, over ProxyProofs
```

MCServer, MCDevProxy, MCIncusNetworks and MCLumeDesktop put components that share no state side
by side: the part that moves is chosen in the initial state and the others rest. Each part is
explored as if it were alone; one run asks the questions of all of them.

### The server

**KeyedMutex** is the contract of `gate.Lock`: a mutex per key whose waiters may give up when
their context ends. It is the abstract specification that Gate is proved to implement and
the one SandboxService is built on, so the service's steps need not interleave with the gate's
own.

**Gate** is `gate.go`. `entry` is the map, `refs` and `token` the fields of a lock object, and
objects are allocated afresh, so a lookup by key can find another object than the one a caller
captured. Every section under `g.mu` is an action (`Enter`, `Release`), and so is every
channel operation (`Take`, `Abandon`, `Unlock`); with the context ended and a token
available both `Take` and `Abandon` are enabled, as in a `select`.

**SandboxService** is `service.go` and `reaper.go` for sandboxes: `Call … Return` of create,
extend, pin, delete, the gated half of `CreateInstance` (`begin`), and the reaper (`Scan`,
`Visit`, `EndScan`). A handler is `lock` (wait for the gate), `Get` (read under the gate and the
early returns), then one action per backend call: `Write` for the operations with one,
`Expire`, `Unpin`, `Notify`, `Remove` for the delete. `Fail` makes any of these calls fail, for
the delete's also after the backend has done it, and for the teardown with any part of
the guests left. `Crash` restarts the process between any two steps: `box` and `guests`, what the
backend stores, survive and nothing else does. Abstractions: an expiry is computed from the
time read at the check, while its write lands later; a failed list is no scan at all; a
generated name is some free name; a sandbox's backend is one store; a backend call of
the delete returns. IncusGuests and BackendRouter below look at the last two: the store is two
backends found by lookup, and a delete in Incus is many calls, one of which may never return.

**BackendRouter** is `router.go` under the service's handlers and the reaper: `Lookup` is one
of the up to two `GetSandbox` calls by which every call of a handler finds its backend again,
`Act` the call itself, `ListIncus` and `ListMac` the halves of `ListSandboxes`. Either backend may
be away at any time (`Outage`, `Recovery`) and its calls fail then. A handler is what matters
to the router: the reads and the calls it makes under the gate of its name, here an owner.
Left out: pins and crashes, which SandboxService has; that `Reap` also skips what its list says is
live, since only the check under the gate decides; and calls outside the gate, such as
`Exec`, which look the name up twice and may reach the sandbox created again in between.

**IncusGuests** is one Incus sandbox's guests: creation, start, stop, restart, deletion,
snapshots, restore, publication, and the teardown of all of it. A change holds the gate (`op`) and
walks through places, one call to Incus each: `update` → `await` for a change of state;
`copy` → `read` → `snapshots` → `halt` → `remove` → `rename` → `update` for a restore; `detach` and
`contents` are the two loops of `DeleteSandbox`, which go on past a guest that failed. A creation
holds the gate until Incus accepts; its wait (`waits`: Incus's operation, the start, the poll) goes
by the guest's name and without the gate, so it may act on a later guest of that name. Calls
of an agent may be `Cut` anywhere (the call's `MaxExecutionTime`, 15 minutes by
`docs/docs/configuration.md`); the reaper's have no deadline, so its polls
really poll, and its calls fail at most `MaxFailures` times. A disk is a number that
running guests change and snapshots copy; `owed` is the snapshot content a restore in progress was
asked for. Abstractions: Incus refuses to delete a guest that runs or is being made; a
guest being made is listed as stopped; networks, images and the project go in one step; an upstream
image copied into the project is the catalog's. Left out: the error state.

**IncusCatalog** is `reconcile.go`, what a start does before it serves: `Resolve` → `Import` →
`CreateImage` → `SmokeLaunch` → `Checks` → `Clean` → `RecordDigest` → `PromoteAlias` for every entry of the
catalog, over the image-build project that outlives starts and that image builds change beside
them (`BuildImports`). A call that fails, before or after its effect, ends the start, as does a
crash, and the next one may be of another catalog. An image's content decides its fingerprint and
whether it can pass its checks (`Broken`); two digests may make one image.

**GuestExec** is a command in a guest, by Incus's operation and websockets or by ssh: `Exec`
(`StartExec` → `Waited` → `Drained` → `DetachStreams` → `ReturnExec`) and an open stream (`Close` →
`KillGroup` → `AwaitData` → `Reap`) with the goroutines beside them, the copier (`Deliver`,
`CopierEnds`) and the one that kills (`Control`). The context may end, a connection break, the
reader pause and the command ignore everything, at any moment. Output is chunks, `Limit` of which
fit. Bounded waits may end at any time. A broken output connection may lose output silently, and a
broken control connection kills nothing: both are excepted in the properties since the code has no
way to know. An `OpenExec` over ssh whose context has ended waits for the process without a bound;
it has just killed it, so the bounded wait of `Close` stands for it. An ssh kill ends the ssh
process; whether the guest's command dies with it is the guest's matter.

**LumeHost** is the Lume backend below that service: the guests on the Mac, the sidecar record
of every sandbox, the operation in progress for each (one, because the service holds the
sandbox's gate), and `c.mu`. An operation walks through *places* (`at`): `mu`, `list`, then `map`
→ `clone` → `pin` for a copy with `undo` → `unmap` behind it, `prepare`, `stop`, `run`, `poll` for
starts and stops, `look` → `switch` → `purge` → `clear` for a restore, `sweep` → `forget` for
deletes; create, snapshot and restore share the copying, as they share `cloneAndPin`. Each place
ends in one call to the host or one atomic replacement of the sidecar (`writeJSON`
moves a file into place), which may fail before or after its effect; the server may
crash between any two places. What Lume itself does is modelled from its use: a run is
accepted at once and the guest boots later, still listed as stopped (`booting`), until it comes
up, falls back, or comes up after its start was given up (`late`). Abstractions: seeds are always
present and stopped; a random suffix is never drawn twice; a clone whose call failed has
landed or never will; an operation may be asked for in any state of the sandbox
in which its own checks let it through, also after a failed `DeleteSandbox`. Left out: the VNC
re-check after a start, the catalog.

**IncusNetworks** is the bridge networks of the Incus backend below the service: what the cluster
keeps of every sandbox (`boxes`, `reserved`, `nics`), the bridges of the default project that all
sandboxes share, and the operation in progress for each. Again an operation walks through places,
each ending in one call to Incus: `project`; `existing` → `claim` or `reserve` → `define` (once per
member) → `configure` for a creation; `attach` for a NIC, between `Attach`, which resolves the
bridge, and `AddNIC`, which writes it by name in a later call; `unbridge` for a deletion; `verify`
→ `contents` → `bridges` → `unproject` for the sandbox's. Random bridge names are any name not in
use at the draw, so two sandboxes may draw the same. `Fail` and `Crash` end an operation at any
place; the loops of a deletion may also leave any part of what they go through. Abstractions: a
call that failed has taken effect or never will; a name read at `verify` is used at `bridges`, as
in the code; a sandbox's instances are the set of bridges they have NICs on; the NIC of a creation
is there once Incus has accepted it; that Incus compares a NIC's bridge with
`restricted.networks.access`, which could only refuse more, is not relied on. A conflict of
`CreateProject` is left out as the service's gate excludes it.

Isolation has an exception here. Once two projects have reserved one name (`contested`), a
deletion that found the bridge absent at `verify` may at `bridges` delete the one the other sandbox has
made meanwhile; if the deleted sandbox is created again and draws the name again, the
other's NIC, resolved before, lands on its bridge. A failed creation, a deletion and a creation beside
an attach, and two equal draws of a random name, are enough, and nothing in the code excludes it.
`OnOwnNetwork` without the exception is false in this model; with it the property says that
there is no other way.

**OVNFabric** is the OVN networks, with their ACL rules, peerings and forwarded ports. What a
project has is a set of *things*, tuples such as `<<"rule", network, id, action, destination>>`; a
call asks for a thing, walks through one request per place and ends with an answer. `promised` is
what was answered for and not taken back, `asked` what may be there at all; the properties relate
both to what is. Listen addresses come from one range for all sandboxes. The update of a forward
carries no ETag and relies on the gate, as in the code. Abstractions: a random rule ID is never
drawn twice; the far network of a deleted peering keeps its entry; network settings are whether it
has an uplink; `ForwardAllocationRace` reads the network's forwards and all addresses in use in one
step, since only this call, under the gate, makes forwards on that network. A loop that fails
(`UnforwardAll`, `EmptyProject`, `DropNetworks`) leaves part of what it goes through. Left out:
addressing, link impairment, the late effects of requests that timed out.

**Desktop** is the screenshot store, the driver's cached Windows sessions and its cleanup queue.
A call is `Begin` → `CheckExpiry` → `Lookup` → (`Dial` → `Open` → `Keep`) → `CallTool` →
`ReadExpiry` → `Pull` → `Publish` → `Cleanup`, each a section under `d.mu` or `Store.mu`, a
read of the sandbox, or an exchange with the guest. Desktop calls take no gate, so all of it
interleaves with the sandbox's life, which is here only its deadline, its pin and the
stages of its removal (`Remove`, `PurgeSandbox`, `CloseSandbox`, `Teardown`); SandboxService has
its details. A stream is open until its session is closed and reaches a guest until that guest is
torn down. Every image has the largest size, so the store's limit is a number of images.
The guest's files, image decoding, and guests without a session (Linux, macOS: the same
publication after an exec) are left out.

### The dev proxy

**Router** is the call path: `Dispatch`/`Park` are `CallTool`, `Claim` the timeout or the
cancelled context, `Receive` the decision taken from the call's channel, `Complete` the return
of the dispatch; `Quiesce`, `Swap`, `SetFingerprints`, `Drain`, `Close` are the methods the loop
calls. Fingerprints are elements of `Defs`. `RouterSpec` composes it with the least disciplined
loop under which it is correct (swaps while quiesced, drains after a swap, nothing after
`Close`), which is what the theorems assume and what the run `reload` shows of the real loop
(`UsesRouter`).

**ReloadLoop** extends Router with `run.go`: one action per `case` of the `select` (`OnChange`,
`OnDebounce`, `OnSuperseded`/`OnCycleFailure`/`BeginSwap` for a cycle's result, `OnChildDied`,
`OnRetry`, `OnToolsChanged`, `BeginShutdown`), the steps of `performSwap` apart, because the
world goes on between them (`BeginSwap`, `AbortSwap`, `SwapChild`, `SwapReconcile`, `EndSwap`),
the cycle goroutine (`Build`, `Start`, `CycleFails`), and the world: `Edit`, `Crash`,
`ChangeTools`, `Signal`. An artifact is the version of the source it was built from; a build may
pick up any version from its start to its end. Timers fire at any time while armed, so every
order of debounce, retry and grace is covered. The watcher's and the tool channel's closing
are left out: both end in the same shutdown, or in nothing.

**Frontend** is `downstream.go`: the diff baseline (`served`), the clock (`gen`), when each tool changed
(`toolGen`) or went (`tombstones`), and what each session has seen (`sessionGen`); every section
under `f.mu` is an action. `Reconcile` publishes a tool set in steps (`BeginReconcile`, `AddTool`
per tool, `EndReconcile` with the removal of what is gone), because the SDK's server has its own
lock and a `tools/list` may be answered from a half-published set. A list is `Observe`, `List`,
`Record`; a call is `PassGate` and, later, `Forward` to the router. `view`, the answer a session
learnt most from, is history. Nothing re-checks the definition between the gate and the router: what
happens to a call that is overtaken there is the router's matter (its fingerprints).

**Watcher** is `watch.go` over a tree of folders that changes all the time (`EditFile`, `Appear`
with folders already in it, `Vanish`). `addRecursive` is a walk: `Register` adds one folder to
fsnotify, `ListFolder` reads what is in it, `Abandon` is its first error, which ends the proxy's start or
is logged. `HandleEvent`, `HandleError` and `ForwardEvent` are the loop. fsnotify is modelled from its
use: events of registered folders in order, a bounded queue, an error when it dropped one, a
registration that goes with its folder. Siblings are visited in any order, not the lexical one.
`changed` and `givenUp` are history: what the core has not heard of, and which folders no walk
will come to. Left out: the configured folder itself vanishing, and the end of the context.
ReloadLoop's `Edit` takes it that every edit becomes an event; this is where that is checked.

Operators whose comment starts with *Fault:* are not part of any specification. Each is
a definition the way a plausible bug would have it; `PROJECT.json` says which property rejects
which of them.

## Runs

| run | instance | asks | states |
|---|---|---|---|
| `server` | five parts side by side: *gate* 3 callers, 2 keys, 3 lock objects; *router* 1 name, 2 clients, the reaper; *catalog* 3 catalog files, 2 images (one broken), 2 faults, 2 imported images; *guests* 1 guest, 1 staged copy, 1 snapshot, 1 image, 1 creation, 2 disk contents, 1 failure; *exec* output of 2 chunks, room for 1 | refinement of KeyedMutex and every `Lock` returns; one home per name; only checked images, no stray guests; restored content survives and expired sandboxes go; results are final, cancelled commands end | 0.12 M |
| `reaper_stalls` | the same | an expired sandbox is always removed: **violated** | |
| `reaper_waits` | BackendRouter alone, the same | expired sandboxes of a backend that answers are removed: **violated** | |
| `sandbox` | 1 request and the reaper, 1 sandbox, 1 guest, 2 operators and an agent, clock to 2, 1 failing call, 1 crash | stale decisions, removal of live sandboxes, revival of deleted ones; expired and half-deleted sandboxes go away, calls return | 0.17 M |
| `delete_retry` | the same | the documented retry of partial deletes: **violated** | |
| `incus` | three parts: *bridges* 2 sandboxes, 2 networks each, 2 bridge names, 2 members; *network* 1 OVN sandbox with every call, 2 networks, up to 5 things asked for; *range* 2 OVN sandboxes that forward 2 ports to 2 targets from 2 addresses; 1 failure or crash each | leaked or shared bridges, NICs on foreign networks, doubled forwards, unscreened networks, lost or inherited settings | 0.80 M |
| `lume_desktop` | two parts: *lume* 2 sandboxes (one asked for everything, one for creates), 1 instance and 1 snapshot each, a host for 1 guest, 1 failing call, 1 crash; *desktop* 2 calls on 1 sandbox name, 3 sessions, a store for 1 image, a queue of 1, clock to 2 | strays, the limit, first boots, cold copies, surviving snapshots; forgotten streams | 1.0 M |
| `lume_restore` | 1 sandbox that is not deleted, otherwise the same | a restore recreates the instance: **violated** | |
| `desktop_purge` | *desktop* alone, 2 images | the documented purge of a deleted sandbox's screenshots: **violated** | |
| `reload` | two parts: *loop* 2 callers of 2 tools, 3 child sessions, 2 source versions, 3 swaps, 1 each of failure, crash, tool change, refusal; *frontend* 1 session with 2 requests, 2 tools of 2 definitions, 3 tool sets, 4 publications; *watcher* 4 folders, 3 of which can be watched, a queue of 2 | accounting, definitions, orphans, recovery, and that the loop obeys `RouterSpec`; no call with a definition its session was not shown, a fresh list reopens the gate; no change in the tree goes unnoticed | 1.3 M |
| `watch_misses` | the same, 4 folders that can be watched, a queue of 5 | folders are registered as they appear: **violated** | |
| `reload_live` | 1 caller, 2 sessions, buffer of 1, otherwise as *loop* | newest source served, parked calls resolved, shutdown ends | 0.2 M |

Why the bounds are enough.

*gate*: a third caller is what can arrive between another's token send and its release; a second
key shows that keys do not interfere, and three objects let each call in progress refer to a
different one. *router*: names never meet, so one name with two clients and the reaper gives every
pair of handlers with a third behind the gate. *catalog*: the three files make every hand-over
there is: another image under the same name, the same image under another digest, an alias that
only the image builds keep, and a broken image; the second fault is the interrupted repair of the
first. *guests*: guests of one sandbox meet only in its gate and in the teardown's loops, so one
with its staged copy is every one; two contents tell the restored one from what was written since.
*exec*: output beyond the room by one chunk shows truncation; the second chunk is what arrives late.

*sandbox*: the service's only shared state is one sandbox and its gate, names never meet
except in the reaper's list; a request beside the reaper is checked here, for more the theorems of
SandboxProofs hold. Time to 2 covers a sandbox that expires, is renewed and expires again
with a lifetime of 1; requested lifetimes are one refused, the default, and one above the maximum.
*incus*: sandboxes meet only on bridge names and addresses, of which there are two each, so that
two sandboxes can draw the same one or different ones; a failure between two members'
definitions needs two members, and a network beside the default one shows that they are told
apart. On one OVN sandbox five things are two networks with a rule, a peering or a port on
them. A second failure is what another start of the interrupted operation would meet. *lume*:
sandboxes share only the host and `c.mu`, so one with every operation and one that starts guests meet
in every way; a limit of one guest is reached by the second, as the limit of two would be by the
third; one snapshot is enough for a restore to run beside its source, and for the names of
copies to be reused. *desktop*: sandboxes share only the store's room and the queue; two dialling
calls are two that overtake each other in `Keep`, and a third session is the cached one both may
have missed; lifetime and retention are 1 and 2 ticks, so an image may end by either. That the store
holds no more than its capacity is proved, so one image is enough here.

*loop*: three sessions are the serving child, the candidate, and the next one started before
the first is reused; one version changes a tool's definition and a running child may change it too
or drop a tool, so a parked call can meet an equal, a changed and a missing definition.
*frontend*: sessions share only what `Reconcile` writes, so one is every one; two requests let an
older list end after a newer one, and four publications let a definition change, vanish and return.
*watcher*: a folder with two siblings in it is what a walk can break off in, two events fill the
queue with one that is forwarded and one that is not, and the fourth folder is one too many.

Each fault bound of 1 is combined with every other. Bounded counters (`MaxSwaps`, `MaxVersions`,
`MaxTime`, `MaxFailures`, `MaxCrashes`, `MaxFaults`, `MaxAsked`, `MaxOutput`, …) only stop the model
from going on; `CHECK_DEADLOCK FALSE` is set in the reload runs, where the stopped loop
really has nothing left to do.

Symmetry is used over child sessions and requests in `reload`, sandboxes, bridge names, rules,
ports and targets in `incus`, calls and sessions in `lume_desktop`: no property distinguishes them;
the runs with liveness properties use none.

## Fairness

*Gate.* Goroutines that hold a lock return (`WF` of `Unlock`, `Release`), and a waiter that is
again and again offered a token gets it (`SF` of `Take`): a Go channel queues its receivers in
order. *SandboxService.* A handler that runs goes on (`WF` of `Section`: backend calls
answer or fail), the gate serves its waiters (`SF` of `Lock`, which is `LockReturns` of Gate),
and the reaper's ticker fires (`WF` of `Reap`). Nobody has to call, time need not pass,
nothing has to fail. *IncusGuests.* Calls to Incus answer, a creation that Incus accepted ends, the
timeouts of agents' calls and of creations fire, the server is restarted, and the reaper gets
its turn at the gate again and again (`SF` of `Empty(FALSE)`: its ticker, and `LockReturns`). A poll
that never sees its state is a step that is never enabled, which is how the stall shows.
*BackendRouter.* Calls end and the reaper's scan goes on; nothing is assumed of clients and
outages. *GuestExec.* Only goroutines that can go on and timers: nothing of the command, of
Incus, or of who reads the stream. *ReloadLoop.* The loop and the cycle goroutine keep running
and a ready case of the `select` is taken in time (Go picks at random among the ready ones, one `WF`
per case), timers fire, a caller reads a decision that waits for it. Nothing is assumed of edits,
crashes or children: a call may run for ever, which is why `Stops` and `ParkedResolved` say
something.

## Proofs

Every safety invariant that a passing run checks is also a theorem, for every value of the
constants, and so is every action property; what stays with TLC is listed at the end. None of the
invariants is inductive as it stands. This is what each proof adds.

**Gate** (`ComputeProofs`): the type invariant, `OnCurrentLock`, `RefsExact`, `TokenOrHolder`, mutual
exclusion, and that Gate implements KeyedMutex, for any number of callers, keys and lock objects.
Exclusion needs that callers of one key are on one lock object; that needs that a release never
drops an entry somebody still uses; that needs the exact count. `IInv` joins them: a
caller inside is on the object the map names, objects of different keys differ, each count is the
cardinality of the callers inside, a token is in the channel or with the one holder.
`Release`, where the count decides whether the entry goes, is the long case.

**BackendRouter** (`ComputeProofs`): a name is in one backend at most and a handler changes the
backend it read from, for any names and clients and whatever is away when. `Knows` says what the holder
of the gate has seen at each stage of a lookup (past Incus, the name is not there), which
stays true as nobody else writes under a name whose gate is held.

**SandboxService** (`SandboxProofs`): all five safety properties, for any requests, sandboxes, guests,
operators and lifetimes and any number of failures and crashes. `IInv` says, on top of the types
and of `Mutex!Exclusive`, what a goroutine inside its section knows about the stored sandbox at
each place (`SectionOK`: at `write` it is the one read, and pinned or expiring after the time read;
at `remove` it is expired and unpinned), that this agrees with the gate (`GateOK`), and
that a condemned sandbox had expired before anyone now at its write read it (`CondemnedOK`). The
last is what makes a delete final: a handler that would renew the sandbox read it as live, so at a time
before its expiry. `StepOK` collects what a step may do to a sandbox, and the three action
properties are its conjuncts.

**IncusCatalog** (`IncusProofs`): nothing promoted or served escaped its smoke checks, and a smoke
guest stays only where a start failed, for any catalogs, digests and images. `CatalogInv` needs that
the digest written on an image is evidence (`Recorded`: it is written after the checks, and only
images that can pass carry one) and what the start in progress knows of its image (`InHand`).

**IncusGuests** (`IncusProofs`): `ContentKept`, for any guests, snapshots, disks and creations. The
content that a restore was asked for is looked for in three places; `ContentInv` says
that it has one name at a time which *keeps* it, and what the restore may rely on at each of its
places (`OpStands`: the snapshot holds the content until the staged copy is made, and from then on
that copy does). It also needs that a guest being made has no snapshots (`NewHasNoSnaps`) and that a
creation which waits without the gate goes by the name of a guest and never by that of a staged copy
(`WaitsNamed`), so that it cannot touch the only one left.

**GuestExec** (`IncusProofs`): a result is final and, when the command ended in time over a connection
that held, complete or marked truncated. `ExecInv` counts chunks: what was produced is in
flight, kept or beyond the limit (`Counted`), nothing is in flight once the copier is done (`CopyWhole`),
and a result without failure was returned with the copier done (`Whole`).

**OVNFabric** (`NetworksProofs`): `Screened`, `OneForward`, `AnsweredForKept` and `NothingInherited`, for
any projects, networks, addresses and ports. `FabricInv` is about one project at a time, since no call
reaches another. It says where the call in progress is within its handler and what it has
established (`CallFits`, `Served`: a network that is being deleted has lost its forwards before its
peerings and these before itself, and while it is `gone` nothing of it is left), and for what the
backend stores (`Kept`): a network's ACL outlives it on both sides (`ScreenedOf`), a forwarded port has
its forward and this its network (`ForwardedOf`), what was promised is there or about to be taken
back by the very call that was asked to (`PromisedOf`, `AskedOf`).

**IncusNetworks** (`NetworksProofs`): `OwnedIsReserved`, `PendingClaimed` and `OnOwnNetwork`, for any
sandboxes, bridge names and members of the cluster. `BridgesInv` adds that two reservations of one
name make it contested (`ClaimsSeen`), and for each operation what it has made and not yet recorded, or
unmade and not yet forgotten (`OpInv`): a reservation is written before the bridge is and
deleted after it, so a crash between any two calls leaves a bridge that is named. For the NIC, which
is written after its bridge was resolved, `Named` says that the name in hand is still
the sandbox's own or contested: only a sandbox that reserves a name deletes the bridge, and
the one that resolved it reserves it too (`OwnedReserved`).

**LumeHost** (`LumeProofs`): the type invariant and all five properties. `NothingStray` and
`TwoAtMost` hold for any sandboxes, instances and snapshots, also if two guests could come to share
a name. `NothingStray` looks harmless but a record is about to *forget* guests at several
places. `AllKept` says that every guest is named in what some sandbox's record will be after the write
its operation is about to make (`Left`), or is in the sweep that comes before it; `Stands`
gives, for each place of each operation, what the record says of the copy under way and of both ends
of a restore. `TwoAtMost` rests on `StartsInv`: a start holds `c.mu` from its listing on, what is on
and not given up is among what it listed, and the only guest that is booting is its own.

`FirstBootPinned`, `CopiedCold` and `SnapshotsSurvive` need more: that a guest's name tells whose
it is. Their theorems therefore have `DistinctNames` as a hypothesis. Names are put together with dashes
(`instance.go:67`) and their parts may have dashes in them (`names.go:25`), so the code does not
guarantee it: instance `b-c` of sandbox `a` and `c` of `a-b` are one name. A creation refuses
a name that the host already has, but two of these that begin together are not told apart. It is
satisfied where no sandbox's name is another's with a dash behind it, which generated names never
are, and instances and snapshots have none; TLC evaluates it in both Lume runs.
`NamesInv` then says that each record names under each heading what was made for it (`Labelled`),
that what an operation copies to or sweeps is its own (`CopyNames`, `Sweeps`), that a prepared
guest and one about to be started have the seed's identifier (`Pinned`, `StartsPinned`), that the
guest of a snapshot under way is off (`CopiesCold`), and that no snapshot's guest is ever on
(`SnapsOff`). Other sandboxes come in everywhere: a start turns a guest on, a clone adds one
without the identifier, and neither may be the one another sandbox relies on.

**Desktop** (`DesktopProofs`): the type invariant, hence that the store never holds more than its
capacity, and that no exec stream is forgotten (`SessionsHeld`): a stream that is open is in the
cache under one sandbox or with the one call that dialled it, whichever call wins the race.

**Router** (`ProxyProofs`): under `RouterSpec`, that is with any loop above it: the in-flight count
is exact, each parked call is resolved exactly once, no call goes to the nil session, and
a quiesced router charges nothing. `RouterInv` adds that every grant is of a past or
the current generation (so a swap, which zeroes the counter, leaves no charged call behind) and that a
caller at rest has nothing waiting.

**ReloadLoop** (`ReloadProofs`): that the loop implements `RouterSpec` (`LoopRefinesRouter`), so that what
is proved of the router holds of the two together (`RouterUnderLoop`), and `ReleasedOnItsDefinition`,
`InSync`, `NoOrphans` and `RecoveryPending`. The refinement maps the router's variables to themselves: each
step of the loop must be one of the router's steps or leave it alone, and the router's have guards
(a swap needs a quiesced router and a child, `SetFingerprints` the definitions of a child that
serves). That the loop meets them is what `LoopInv` says: which child the cycle holds and in what state
at each of its stages (`CycleOK`), what has been quiesced, gated and drained at each place
of a swap (`SwapOK`), that between handlers client, router and loop agree (`SyncOK`), and that a call
released on the current generation matches the definitions that its child was gated with
(`GrantsOK`).

**Frontend** (`ProxyProofs`): a call which passed the gate was shown the definition then published or
one that has not changed since (`GateSound`), and a list taken after the last publication lets its
session call again (`GateClears`). The argument is an order of clocks: a changed tool carries a generation
above that of every list under way that may lack it, and above every view taken before
(`Clocks`, `Answers`); `Owned` says that a request under way belongs to a session.

**Watcher** (`ProxyProofs`): `NothingMissed`, for any tree, any queue and any limit of watches. `WatchInv`
says that each folder is registered, or awaits a walk or the handling of an event at itself or at a
folder around it from which the walk goes on, or one around it was given up (`Covered`), and that
what changed is forsaken or an event, an overflow or a walk is pending that will tell
(`Told`). That a walk never leaves the tree needs only that `Around` is closed upwards.

Assumptions: those named in the modules, each as weak as the argument allows and each evaluated by
TLC in the runs. Sets over which something is counted are finite (`CallersFinite`, `CallsFinite`); sentinels
are not values (`NoKeyIsNoKey`, `Absences`, `EventsApart` and the like); bounds are numbers
(`FabricBounds`, `LoopBounds`, `GuestLimit` and the like); a cluster has a member (`ClusterSize`), the
first network exists (`MainExists`, `DefaultExists`), the router's buffer has room (`Limits`); the image
builds' names are not those the server promotes (`NamesApart`); every folder is somewhere below the root
(`Rooted`); the guests' names are names (`NamesOfGuests`).

Some facts that are proved are in no run, because TLC could only repeat them on a small instance:
the gate's counting, who pinned a sandbox (`PinnerKept`), the type invariants of the modules above. The
inductive invariants were themselves checked by TLC on small instances before they were proved.

Only model-checked:

* liveness: `LockReturns`, `EmptiedUnlessStalled`, `CutShort`, `ExpiredIsReaped`, `CallsReturn`,
  `ServesLatest`, `ParkedResolved`, `Stops`. Reasoning with fairness and `ENABLED` is beyond the prover.

## Where code and text disagree

* `delete_retry`: `DeleteSandbox` writes the expiry and then clears the pin. When the second
  write fails the sandbox is expired but pinned, and the reaper skips pinned sandboxes for ever;
  `service.go` and `docs/docs/configuration.md` promise that a partial failure is retried.
* `lume_restore`: a restore names its copy after the instance and the snapshot and takes a random
  suffix only if the host already has a guest of that name. After a `DeleteInstance` that deleted
  the guest of an earlier restore and then failed on another guest, the mapping still names the
  deleted guest as the instance's own. The next restore finds that name free: copy and previous
  guest are one name, and the last step of the restore deletes the copy it just made, with
  success reported. `mcpserver/instance_snapshot.go:51` says it recreates the instance.
* `desktop_purge`: deletion purges the sandbox's screenshots once, after it has expired it. A call
  that read the sandbox's deadline and the guest's file before publishes afterwards, and `Publish`
  compares only the old deadline: the image of a sandbox that is gone is served until that
  deadline or for five minutes, unlike `docs/docs/configuration.md:77` says.
* `reaper_stalls`: a creation waits for its guest without the gate. It may start the guest again
  between the stop that the reaper asked Incus for and the poll that waits for it; `waitStopped` has
  no deadline of its own and the reaper's context is the process's. The scan waits there,
  and no sandbox expires any more, where the README says that the reaper retries them. For
  SandboxService this means: its assumption that a backend's delete returns is Incus's to keep, and
  the code does not enforce it. `EmptiedUnlessStalled` shows that this is the only way.
* `watch_misses`: a walk ends at the first folder it cannot register or list, as one that vanished
  after its parent was listed. What it had still to visit stays unwatched, though `watch.go:41`
  says that new subdirectories are registered as they appear; the error is only logged.
  `NothingMissed` shows that folders are lost in this way and by a dropped event alone, and that
  no other change is.
* `reaper_waits`: `ListSandboxes` is of both backends or of none. While the Mac host is away
  no expired Incus sandbox is removed, though Incus answers all along; the README says that
  the reaper retries expired sandboxes when *their* backend becomes available.

## Not modelled

Formatting, schemas, wire protocols, TLS and authentication, image building and the guest-side
software: no interleaving of their own, or outside the server. The files of a guest
(`incus/file.go`, `lume/file.go`) are transfers that hold no gate and change no state of the
server. Names and the catalog file are validated by pure functions, and the tools
of `internal/mcpserver` convert arguments. `PROJECT.json` lists each with the reason.

## Plan

1. *Core* (done): Gate, SandboxService, Router, ReloadLoop; proofs for Gate and Router.
2. *LumeHost* (done): guests, mappings, recovery records and the two-guest limit, for several
   sandboxes under crashes and failing host calls.
3. *Frontend* (done): the per-session gate of stale calls, with its proofs.
4. *Incus* (done): reserved bridges, OVN networks with rules, peerings and forwards,
   teardown order; guests beside creations that wait without the gate; the catalog's
   reconciliation; commands and streams.
5. *Desktop* (done): publish and dial against purge and shutdown.
6. *BackendRouter* (done): two backends, either away. *Watcher* (done): walks over a changing tree.
7. *Proofs* (done: every module that has actions; see above for what stays with TLC).
