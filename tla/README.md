# Tallylamp in TLA+

Tallylamp is one Node.js server that manages headed Chromes for AI agents: agents drive
them over MCP and a REST API, people watch and take over from a dashboard or a guest
link. This directory models the server's own logic, and as much of its clients as takes part
in it, in TLA+, checks it with TLC on small instances and proves the central properties with
TLAPS for every instance.

- [Inventory](#inventory): the parts, their state, how they interact, what is hard.
- [Modules](#modules): which module models what, and how it corresponds to the code.
- [Runs](#runs): what each TLC run checks, its bounds, and what it shows.
- [Findings](#findings): where the code does not do what its docs or comments say.
- [Proofs](#proofs): the theorems, their invariants and assumptions.
- [Observations](#observations): what the code does in the models that no property forbids.
- [Limits](#limits): what is only model-checked and what is not modelled.
- [Plan](#plan): what comes next.

To check everything: `tlc -config <run>.cfg <module>` for each run below, and
`tlapm <module>_proofs.tla` for each proof module.

## Inventory

The server's code is in `src/src/`; a dashboard (`src/dashboard/`), an extension for linked
browsers (`src/extension/`) and a command-line client (`src/bin/`) talk to it. One process, one thread: code between two `await`s is
atomic, and at an `await` any other request may run. State lives in SQLite rows (which
survive a crash) and in maps of the classes below (which do not).

| Part | Source | State | Operations | Hard behaviour |
|---|---|---|---|---|
| Browser lifecycle | `browsers.ts`, `chrome.ts` | rows `browsers` (status, host); maps `runtimes`, `proxies`, `starting`, `stopping`, `deleting`, `profileSaves`, `resumeReservations`, `moving`, `exporting`, `unhealthy` | start, stop, restart, delete, reap, save profile, move, export, shutdown, boot | every operation awaits several times and all of them may overlap on one browser |
| Capacity | `capacity.ts`, `host-limits.ts` | thread counts, the queue of waiting starts, `launching`, `holds`, restart window | admit a start, shed an idle browser, hold room, release | a start measures, then waits, then measures again; what is shed must still be idle when it is stopped |
| Control lease | `browsers.ts` | rows `control_leases` | acquire, take over, heartbeat, release, expire | a human and agents contend for one browser; expiry is noticed lazily, by whoever looks |
| Guest links | `guests.ts`, `guest-api.ts` | rows `browser_guests`, `guest_sessions` | create, redeem once, ask for control, end, sweep | control of a guest is a lease with its own limits: end of link, maximum hold, cooldown |
| Agent desktop | `agent-desktop.ts` | `busy`, the child process | click, type or screenshot on the X display | the lease may change while the child runs; keys must come up before the next operation |
| Lending | `lending.ts` | rows `browser_requests`, `browser_grants` | ask, withdraw, answer, auto-grant, revoke, return, sweep | grants expire without anybody acting, an answer may race expiry or another answer |
| OAuth | `oauth.ts` | rows of clients, codes, refresh and access tokens | authorize, exchange, refresh, revoke, sweep | an answer that was lost looks like a replay; a real replay revokes the family |
| Sessions, agents | `auth.ts` | rows `agents`, `credentials`, `sessions` | sign in, rotate, disable | an agent disabled while it holds sessions, leases and tokens |
| Tunnels | `tunnels.ts`, `relay.ts` | rows `browser_tunnels`, live sockets, streams | create, attach, dial, revoke, drop, sweep | one live socket per tunnel; frames of streams cross; a reconnect overlaps the old socket's close |
| Gateways | `gateways.ts` | rows `gateways`, live links | as tunnels, for all traffic of a browser | as tunnels |
| Workers | `workers.ts`, `worker.ts` | rows `workers`, remote runtimes, copy state | join, start, stop, delete and move a browser on another host, poll | lost answers: what the worker did is not what the main instance knows |
| MCP sessions | `mcp.ts`, `mcp-bridge.ts` | bindings of sessions to browsers, bridge children | use, call a tool, release, reap | a call is checked before an await and acts after it |
| Saved profiles | `browsers.ts`, `page-cache.ts` | rows `seeds`, `savingSeeds`, `cloningSeeds`, `snapshotCleanup` | save, update, clone, delete | readers of the old snapshot while a new one is published |
| Linked browsers | `linked*.ts`, `extension/background.js` | rows `browser_links`, the socket of each extension, the tabs it shares, one CDP endpoint, bridges on workers | pair, connect, share a tab, drop, serve CDP clients | a laptop that sleeps is not a crash; a credential is answered once; clients share one attachment |
| Viewer | `viewer.ts`, `screencast.ts`, `desktop-viewer.ts` | viewers, frames unacknowledged, tabs, queued input, recordings | attach, stream, forward input, switch tab, record | everything awaits Chrome while sockets, tabs and the lease change |
| Egress | `egress-proxy.ts`, `ssrf.ts`, `browser-proxy.ts` | one listener per browser | CONNECT, resolve, dial | the address checked is the address dialled |
| Dashboard | `dashboard/app.js` | the page, its socket and lease, its lists | render, connect, beat, refresh | reads answered after the operator went elsewhere, or out of order |
| Transfer | `transfer.ts`, `archive.ts` | an export or import under way | export, import | profiles must not change while they are read (`withExport`) |

How they interact. `BrowserManager` calls `Capacity.admit` before a start on this host and
tells it what launched and stopped; `Capacity` calls back `stop()` to shed. `lending`,
`guests` and the control lease are read on every call of an agent or a person (`mcp.ts`,
`api.ts`, `viewer.ts`). `Workers` provides the runtime of a browser on another host and
performs the copy of a move. Deleting a browser drops its tunnels, links and guests. A
stop calls the `onGone` hook, which ends viewers and MCP bridges. Every part has a sweep
on a timer in `index.ts`, which catches what nobody acted on.

What makes each part correct:

- *Lifecycle*: one Chrome per profile; the cap; no listener without its Chrome; nothing
  writes a profile that is being copied; every operation ends; a deletion leaves nothing.
- *Capacity*: room reserved never exceeds the ceiling; a browser someone uses is not shed;
  the queue is served in order and every wait ends.
- *Control lease and guests*: one controller; a human is never displaced by an agent; a
  guest never controls past its limits, whoever asks first.
- *Lending*: no access without a live grant; the grant is never wider than what was
  asked or answered; an expired request is not granted.
- *OAuth*: what was revoked stays so; a lost answer is not taken for a theft.
- *MCP sessions*: a bridge belongs to its session's binding; a tool acts within the level of
  that moment; every call is answered.
- *Tunnels, gateways, egress*: a stream runs while it is bound and not longer; both ends of it
  are released; a gateway comes back; a request leaves by its browser's route or not at all.
- *Workers*: an answer that was lost is not mistaken for one that was negative: the newest
  profile is never lost, and both sides come to agree on what runs.
- *Linked browsers*: both sides agree on the shared tabs once they have heard each other out; a
  revoked link ends; a kept credential works; what clients turned on is turned off.
- *Saved profiles*: a snapshot somebody may still read stands, whole and as it was published.
- *Viewers*: a socket counts as a watcher exactly while it is one; the newest picture is sent;
  the last tab stays; no key stays down; a recording ends.
- *Dashboard*: one live view, of the page on screen; a false claim to control ends; lists keep up.

## Modules

### BrowserLifecycle

One action is the code of `browsers.ts` from one `await` to the next. Each asynchronous
operation is a *stage* variable indexed by browser; a class map such as `starting` or
`profileSaves` has an entry for a browser exactly when its stage is not `"idle"`.

| Variable | Code | Stages |
|---|---|---|
| `row`, `host` | `browsers.status` (or no row), `browsers.worker_id` | |
| `runtime` | `runtimes`, with whether its Chrome has exited | none, live, exited |
| `proxies` | `proxies`: the browser has an egress listener | |
| `starting`, `before` | the promise of `ensureRunningInternal` | admit, queued (waits for room), open (listener), launch (Chrome), version (`chromeVersion`), fail |
| `stopping` | the promise of `performStop` | kill, listener, hook (`onGone`) |
| `unhealthy`, `healing` | `unhealthy`, a restart in `markUnhealthy` | stop, restart, start |
| `deleting` | `performDestroy`; "reap" when the reaper deletes a temporary browser | stop, rows, files |
| `saving`, `reserved` | `snapshotSeed`, `resumeReservations` | scan, stop, copy, back, resume |
| `moving` | `moveTo` | stop, copy(Up), landed(Up), restart; "Up" if it was running |
| `reaping`, `sweep` | `performReapIdle` | close, stop, files |
| `exporting`, `exportPhase` | `withExport` | todo, stop, stopped |
| `shutting`, `shutPhase` | `shutdown` | saves, removals, stops, down |

`Outcome(b)` is the decision at the top of `ensureRunningInternal`: refuse, return the live
runtime, join the start in flight, or start. `EndStart` and `EndStop` settle a start's and a
stop's promise: everyone who awaits it goes on in the same step, as in the code, where the
continuations run before the event loop takes another event. The two continuations that
decide again (`HealRestart`, `SaveBack`) are actions of their own; `Settling` gives them
priority over everything but the end of the process for that reason.

Three judgements about time are in the model, each named where it is made. `TailsDone`: a
launch on this host (an X server and a Chrome) does not finish before the tail of a stop or a
reap that was past its kill when the launch began, which is one 50 ms poll and the closing of a
listener; a stop on a worker is a network call and has no such bound. The `hook` stage has
no bound either (closing MCP bridges takes seconds). The reaper's idle limit may have passed
at any sweep.

Also abstract: why a start waits for room (`Capacity` models it), what is
copied, and the administrator's checks. A
worker is a host whose calls may succeed or fail; its own state is not here.

`Slots` is the abstract specification of the cap: a semaphore. `LifecycleClaims` states
what docs and comments say and the code does not keep. `MCLifecycleOne` and
`MCLifecycleTwo` are the instances TLC checks; the second has a sub-relation of `Next` (`SlotNext`) that leaves
out the actions unrelated to the cap, because two browsers with every operation are out of reach.

### Capacity

The host has one ceiling on processes and threads, and a start reserves its estimated share
of it. One action is the code of `capacity.ts` between two awaits; a count is in units of
threads.

| Variable | Code |
|---|---|
| `start` | a call of `ensureRunningInternal` and `admit`: sleeping in the queue, waiting for a shed, about to look again, launching |
| `earlier`, `late` | `since` compared between starts (equal ones are in neither order); past `config.admissionWaitMs` |
| `waiting`, `launching` | the maps of those names |
| `phase`, `threads`, `usage`, `size` | a browser's track; what its tree holds now, what the last scan counted, what its recorded peaks say it takes |
| `shed`, `cooling`, `pressed` | the shed in progress and for whom, `lastActiveShed`, `pressureTicks` |
| `stopping`, `pinned`, `idle`, `human`, `closed` | what `BrowserManager` tells it: stops under way, the pin, unused for `shedIdleMs`, a person's lease, a save or export |

`PassAfter` is one turn of `admit`'s loop (`Admitted`, `MakesRoom` or `Queues`), `HoldsAgainst`
is `holds()`, `Picks` is what `shed()` may choose, `Sample` is the sampler with `relieve`. As in
`BrowserLifecycle`, `Settling` gives the continuation of a settled promise priority over the
next event.

Abstract: `launchEstimate` and `growthTarget` are one `size` per browser, from a small set;
`Ceiling` is what is left after everything that is not a browser's. A browser in its launch
window grows to its estimate and not beyond, since past it the code promises nothing. A reset
is for a browser that needs no more than the flat figure, as `docs/railway.md` says; `PromisesKept` and
`PinnedRoomKept` except one that was reset while it launched and then passed that figure
(`Outgrown`: `resetThreads` in `browsers.ts`, `forget` in `capacity.ts`). Deadlines
and cooldowns pass at any moment. Not modelled: the zygote check, the restart window, the text
of refusals.

### Control

One browser's control lease, the guest links that may take it, the control viewers bound to
it, and the agent's operation on its X display. SQLite is synchronous and an event is
delivered inside `emitEvent`, so a whole handler is one step; it is written as a composition
of operators on a record of what the lease's events reach (`Present`, `Become`), in the order
of the calls in the code.

| Operator or action | Code |
|---|---|
| `Observed` | `controlState`: whoever reads the lease removes one that is over and announces it |
| `Acquired`, `Renewed`, `Released` | `acquireControl`, `heartbeatControl`, `releaseControl` |
| `Announced` | what a `control.*` event does: a guest's viewer that lost the lease ends, a desktop operation aborts |
| `Begun`, `Noted`, `Spent`, `Cooled` | `beginGuestHold`, `noteGuestControlEnded`, `guestLeaseEnd`, `startGuestCooldown` |
| `AdminTakes`, `AdminReturns`, `AdminRenews` | the three routes of `api.ts` |
| `GuestTakes`, `GuestReturns`, `GuestRenews` | the three routes of `guest-api.ts` |
| `CreateGuest`, `Exchange`, `EndGuest`, `Expire`, `SweepSession`, `SweepLink` | the life of a link in `guests.ts` |
| `AgentTakes` | the acquire in `getBinding` and `startBinding` (`mcp.ts`) |
| `DesktopStarts`, `DesktopExits`, `DesktopReleased` | `agentDesktop`: up to the spawn, the child's end or timeout, its `finally` |
| `Opens`, `Binds`, `Checks`, `Closes` | a control viewer's upgrade, heartbeat, ten-second check and teardown |
| `Look`, `Destroyed`, `Restarts`, `Tick` | any reader; `performDestroy`; a new process; time |

A past moment is kept as its age and a future one as the time left, capped where the code stops
telling them apart. A token is random and new at every acquire, so all the model keeps of it is
whether a socket is bound to the present one. `stretch` is a history variable: how long each
guest has really been in control, shorter breaks included, which no code looks at.

Abstract: an administrator's viewer may open at any time (its ticket is not modelled); every
link allows control, and a watch-only one can do none of this; how many links and viewers there
may be and rate limits only refuse more, and audit budgets (`GuestBudget`) too. A link that ended is kept for any time
before the sweep removes it. The code falls back to `acquired_at` for a guest's hold without a
beginning; `Measured` in `Control_proofs` shows that there is none. `endGuest` calls
`releaseControl` for a guest who holds the lease, but its own `controlState` call has removed
that lease before, since the link is no longer live. A crash between two statements of one
handler is not modelled.

`Lease` is the abstract specification: one side or nobody holds the browser, the administrator takes
it from anyone and a guest from agents only, only the holder's sockets drive it, and whoever takes it
finds no socket that drives and no operation under way. `AbstractLease` maps `Control` to it: the
holder is who the row says while it is in force (`InControl`; a row that is over and not yet
read is nobody's), the drivers are the owners of the sockets bound to it (`Drivers`), and the operation
is that of the agent whose child has not been told to end (`Operation`).
### What a browser reaches: Lending, Tunnels, Streams, Gateways, Egress, LinkedBridge

`Tunnels` has the rows of `browser_tunnels` (`tunnel`), the socket registered for each
(`conn`, `socket`) and the streams the egress opens over it (`dial`). `Lending` extends it with
`request` and `grant`, because the two exclude each other: `lendingBlocker` refuses a control
grant for a browser with a tunnel, `createTunnel` a tunnel for a browser that is lent.

| Action | Code |
|---|---|
| `Ask`, `Withdraw`, `Grant`, `Deny` | `requestBrowser`, `withdrawRequest`, `answerRequest` |
| `IdleGrants` | when the idle rule answers for an owner, in `requestBrowser` and `sweepLending` |
| `Revoke`, `Sweep`, `RequestLapses`, `GrantLapses` | `revokeGrant`, `sweepLending`, the two expiries |
| `CreateTunnel`, `RevokeTunnel`, `Attach`, `Dial`, `SweepTunnels` | `createTunnel`, `revokeTunnel`, the upgrade, `dialTunnel`, `sweepTunnels` |
| `DeleteBrowser` | what a deletion drops, `dropTunnelsFor` with it |
| `Settles`, `PersonTakesOrLeaves`, `SetLendable` | what the blocker and the idle rule read |

A grant is kept per browser and borrower by its level; its term is not kept, since any grant
may lapse at any time. Every handler is synchronous and so one step.

`Streams` is one WebSocket with its two ends: `TunnelMux` opens streams, `serveDials` (or the
loop of `bin/tallylamp.mjs`, chosen in `Init`) dials for it. Frames (OPEN, ACK, NONE, ERROR,
CLOSE) keep their order in `toServer` and `toOpener` until the socket closes; bytes are left
out. `Gateways` has the registered socket (`online`), each socket with both ends and whether it
is still alive (`link`), and each client's loop (`client`), with the close codes that make one
give up. `Egress` is one request of Chrome from its target (chosen in `Init`) through the awaits
of `dial`, with the client's close and the handshake's timer between any two. `LinkedBridge` is
the search of `linkedBridge` for a worker (`seek`), both ends of each bridge (`mainEnd`,
`farEnd`) and the files a worker keeps for it.

### How agents get in and act: Credentials, McpSessions

`Credentials` keeps the chain of refresh tokens of an approval by number: of grant `g`, token
`n + 1` is what rotating token `n` issues (`successorRefreshToken` derives it). `held` is what
each process of the connector has in memory; an answer may be lost on its way (`Receives` or
not). `Refresh` is the whole handler, `CatchesUp` the tolerance for a client one refresh behind;
`AskConsent`, `PostConsent` and `Approve` are the consent page between the awaits that fetch the
client's document. The agent that is no connector has numbered tokens (`live`, `issued`).

`McpSessions` has a session's bindings (`bindings[s][b]`), each binding's stage in
`startBinding` (browser, bridge, page, ready) and each call's stage in `callTool`. Level, lease
and Chrome may change between any two steps. `Disposed` is `disposeBinding`, which a close, a
failed start, a stopped browser and a dead bridge all go through.

### Where a browser runs: Workers, Linked, Launching, Snapshots, Joining

`Workers` is one browser between the main instance and its workers. A request is a record in
`asks` (sent, working, done, answered), so that it may be lost, be given up while the worker goes
on, or be answered after the main instance moved on; `poll` is `pollOne` with its two awaits.
`chrome`, `launching`, `closing` are the worker's `running`, `starting`, `stopping`; `copies` says
which hosts have a profile and `newest` (a history variable) which of them have all of the last
Chrome's. Either side may restart.

`Linked` is one extension and the server it dials: a socket has an end on each side (`end`,
`far`) and messages on their way (`up`, `down`); `phase`, `shared`, `release` are the
extension's, `current`, `mirror`, `revoked` the server's. `unpair()` is two steps, since it waits for
Chrome to detach every tab in between (`unpairing`, `detaching`), and a `share()` under way may end
there. The extension's worker may be put to sleep and wake (`Sleeps`), but not while a call of Chrome is
pending; a socket the network broke is noticed by each side on its own.

`Launching` takes one launch and one stop of `chrome.ts` apart into the processes behind them
(`process`, `display`), which crash, hang, flush and exit late. `Snapshots` has the rows and
directories of saved profiles with what each holds (the claims of a site), and the operations
between whose awaits they are read: save, update, clone, delete, clean up, export. `Joining`
has the two ways a credential is handed out once, in the answer to a call that may be lost:
pairing an extension (`pairing`, `ext`, `polls`) and enrolling a worker (`joinToken`, `host`).

### What a viewer is and sees: ViewerSocket, ViewerStream, ViewerTabs, DesktopViewer, Recording

All but the last two are one `runViewer`, split by the state they touch. `ViewerSocket`:
ticket, upgrade, the messages queued before it is set up (`inbox`, beyond whose limit they are dropped) and drained afterwards, who
counts as watching, a guest's check, the end. `ViewerStream`: Chrome's window of unacknowledged
frames (`unacked`), the frame held back (`pending`), the one being written, the acks owed for
those dropped, and the queue in which a cast is stopped and started (`castQueue`), where a start may
be refused. A picture is the number of the paint it shows; a cast emits what is painted while it runs, and
what was painted before is its shot's to bring (`primeFrame`). `ViewerTabs`: several control sockets, each with its
`targets` and `closing`, of one of which (`Mine`) `attach()` is followed with its awaits, several at once,
each with its epoch; closing, opening, selecting and dressing tabs. `DesktopViewer`: the queue of
inputs, the one xdotool that runs, the keysyms down on the X display, and of those the ones the code
gave up (`lost`). `Recording`: the frames of
an agent's recording and the timers that end it.

### Guests: GuestBudget, GuestPlaces

`GuestBudget` keeps the two columns of a link that bound its audit rows and how many rows name it
(`book`), and of the lease what decides a row (`seat`); a takeover reserves for the row that will
say how it ends. `GuestPlaces` is the history of each tab with its entries as numbers, the commands
of the guest's connection in order (`asked`), and the snapshot each tab's first attach takes
(`prior`): attach and historyGo with their awaits, the agent in between.

### The server's clients: DashboardPage, DashboardData, LinkedCdp

`DashboardPage` names a live view by the render that opened it (`pane[r]`), as the closures of
`browserView` and `connectViewer` do; each render awaits two reads, each view a ticket and a
socket, either of which may be refused for good. `DashboardData` is the shared refresh of a list, with a
number for what the server would answer; `due` (history) is what the last event told of, until it is
fetched or given up. `LinkedCdp` is the CDP endpoint of a linked browser: the sessions it invents for each
client, the tabs and child frames it was told of, the domains it believes on, and what the
extension and Chrome make of the commands (`shared`, `on`, `auto`, `kid`), with the link between
them in order (`ask`, `tell`). A call whose minute is up is answered to nobody (`CallTimesOut`): its
command is performed all the same. Timers of calls fire in the order of the calls.

### How the modules are composed

`Lending` extends `Tunnels`; `BrowserLifecycle` has `Slots` as its abstract specification, and
`Control` has `Lease`. The
modules of a group are put together in one MC module (`MCControl`, `MCNetwork`, `MCAgents`,
`MCHosting`, `MCViewer`, `MCClients`). Components of a group that share no state are composed with
a *focus*: a behaviour moves one of them and the others rest in an initial state, since their interleavings
would multiply states and show nothing. Where two components do share state in the code, the
part one needs of the other is in its module, as small as it can be: the lease in `ViewerSocket`
and `DashboardPage`, the level and the person in `McpSessions`, stops and saves in `Capacity`.

## Runs

Each takes about three minutes at most with two workers.

| Run | Module | Instance | What it shows |
|---|---|---|---|
| `LifecycleOne` | `MCLifecycleOne` | one temporary browser, one worker, cap 1; all actions | one Chrome per profile; exports copy frozen profiles; shutdown and every operation end |
| `LifecycleSlots` | `MCLifecycleTwo` | two browsers, cap 1; starts, stops, crashes, saves (`SlotNext`) | the lifecycle refines the semaphore `Slots` |
| `CapacityTwo` | `MCCapacity` | two browsers, sizes 1 and 2, ceiling 2; everything but pins and people | promises are kept, waits end |
| `CapacityThree` | `MCCapacity` | three browsers of size 1, ceiling 2, one pinned and controlled at will (`CrowdNext`) | the room of a stopped pinned browser is not started into |
| `Control` | `MCControl` | an administrator, two guests, two agents, two sockets; time to live 1, maximum 3, cooldown 2; a budget of nine rows, two starts; two tabs, three old entries and a new one, two attaches, two commands at once | a guest's hold is bounded, only the holder's socket drives, a revoked guest is out; the lease implements the abstract `Lease`; no row of a guest goes unpaid for, and its back and forward stay out of what was open before it came |
| `Network` | `MCNetwork` | a browser, two agents, two requests, two tunnels and sockets; two streams each way; two gateway clients and sockets; one request of Chrome to every kind of target; one binding, two workers, two bridges | a borrower inherits no tunnel, grants are answers, peers are released, a gateway comes back, one route out, neither end of a bridge outlives the other |
| `Agents` | `MCAgents` | one approval, two processes, three rotations, an agent with two tokens, one changed secret; one session, two calls, two bindings | what is revoked stays so, a lost answer is forgiven; no orphan bridge, tools act within their level, every call is answered |
| `Hosting` | `MCHosting` | one worker, two faults, two moves; one tab, two sockets; two browsers, one saved profile saved twice; three launches; two pairings, one join token, two processes | the newest profile is kept, beliefs meet, mirrors agree, links end, snapshots stand, Chrome flushes in its display, a kept credential works |
| `Viewer` | `MCViewer` | two sockets, one a guest's, one message queued; two paints and two casts with a window of two; three tabs and two control sockets; a letter and Shift, one xdotool that hangs; two recordings | who watches is counted, the newest picture is sent, the last tab stays, keys are let go of, recordings end |
| `Clients` | `MCClients` | three renders of one page; a list that changes twice, two reads of it, one that fails; a client with two sessions and a frame, or two clients that turn a domain on and off, two commands at once | one view, a false claim ends, lists keep up, what is on is known and frames are heard of once (`EndpointAgrees`) |
| `ClaimDeletedHasNoChrome` | `LifecycleClaims` | one browser | a finding |
| `ClaimOnlyLeavingHandsBack` | `DashboardPage` | one page | a finding |

Every listed property has a mutant in `PROJECT.json`: a change of one definition, such as a
plausible bug would make, under which TLC finds the property violated in the same instance.
Type invariants are one per module; they hold in these instances and, where the modules below
say so, are proved.

Why the bounds are enough. Lifecycle: the operations on one browser interfere through its maps
alone, so one browser with every operation covers them; browsers interfere through the cap
and through the turn of an export or a shutdown, and both need only two, one that holds the slot
and one that takes it. `SlotNext` leaves out what touches no slot; the theorems
about the cap and exports are proved for the whole relation. Capacity: two sizes tell apart a
browser that fits from one that needs a shed, and a third browser gives a queue of two behind
one that runs, which is what pins and ties are about. Control: two guests and two agents
give holders of every kind to displace, and another of the same kind; two sockets give one
of an old holder and one of the new; a maximum of three with a cooldown of two and a time to
live of one lets a lease lapse within a hold and a break be shorter than, or as long as, the
cooldown.

Network: two requests let one lapse or be withdrawn while another is answered; a second tunnel and
socket let one be replaced or revoked while the other runs; two stream ids let one be opened while
the other closes; two clients with one token are what displaces, two cuts let a socket die under
each; two bridges let a failed attempt still occupy its worker while the next is dialled. Agents:
three rotations tell the head, the one before it, and what is older apart; two calls share a
startup, and a second binding starts while the first is being disposed of. Hosting: two faults
are a lost call and the restart that hides it; two moves are there and back (an instance with two workers, checked
once, finds nothing either, in more than four minutes); two sockets are the old and the
new; two saves are a snapshot and its update; three launches are one that failed, one that is
stopped and the next. Viewer: a window of two frames is the smallest in which one may be owed an
ack while another is written (Chrome's has three); three tabs let two be closed at once with one
left, of which two may be empty; two sockets cross their closes; a queue of one message drops the next;
Shift and a letter are what makes a release name another keysym than its press, and one hang is what
leaves a key down.
Guests: nine rows let a guest sign in, take control twice and be refused the third time; two tabs
and two attaches are the one being left and the one being entered while a step of the history is
under way. Clients: three renders are one on screen, one under way and the next; two commands on the link let
their answers cross, and a call time out while another waits; what concerns frames and what concerns the
tab's domain is checked apart (`Only`), since the two share nothing but the link. The theorems have no
such bounds.

Deadlock: a process that was shut down, an approval that was revoked, a request that was
answered or a bound that was used up may really be the end, so the runs of those modules allow
it (`CHECK_DEADLOCK FALSE`); in the capacity runs a state without a successor would be an error.

Fairness is assumed only of what goes on by itself:

- Lifecycle: every await settles, because the code bounds each (a kill deadline, a launch
  timeout, a call timeout, a copy); a sweep is one pass over a map and ends, though it may wait
  at each browser, hence the strong form.
- Capacity: timers fire, and a stop ends or fails; strong, because a timer is put off for the
  instant in which a settled promise goes on.
- Streams: what was sent is read, an end learns of the other's close, an open times out
  (`openTimeoutMs`), a dial settles, and a peer that was ended closes. Gateways: a client whose loop
  goes on reconnects, and each end's watchdog fires. Bridges: the search goes on, a deadline or
  heartbeat ends an end whose other is gone, a child starts or fails.
- MCP: a startup's and a call's awaits settle (each has a deadline), a disposal ends.
- Workers: polls are sent and answered (or fail and are sent again), requests that reached the
  worker go on, the reaper sweeps. Linked: messages are read, sockets that are dead are noticed
  (heartbeat), timers fire, and the extension dials again. `LinkEnds` further supposes that not
  every dial fails for ever. Snapshots: the clean-up's timer fires; strong, since an export puts it off.
- Viewer: Chrome goes on emitting, acknowledging and answering while it may; xdotool ends (its
  watchdog), the lease check and the timers of a recording fire.
- Clients: the page beats while it is visible, requests are answered or fail (within ten seconds, `api`),
  timers fire.

No request, crash, mishap or choice of a person is ever assumed to happen.

## Findings

Each is a run that TLC ends with an interleaving of the code that breaks what a doc or a
comment says; the property quotes the line. `PROJECT.json` has them in full.

- `ClaimDeletedHasNoChrome`: a deletion during a launch ends with no row and a Chrome that runs,
  and the reaper's sweep throws from then on.
- `ClaimOnlyLeavingHandsBack`: the dashboard closes its viewer's socket with 1000, which the
  server takes for leaving, whenever it renders the page the operator stays on (after a restart,
  an edited site, a moved browser): their control of the browser ends though they are still there.

## Proofs

`tlapm` checks eight proof modules. A theorem holds for every value of the constants that
satisfies the assumptions of the module it extends, and for the complete next-state relation
of that module. Every invariant, every action property and every refinement that a run checks is
a theorem; what is left to the runs is liveness. Where a run checks only liveness of a module
(`Streams`, `Gateways`, `ViewerStream`, `DesktopViewer`, `Recording`), what that liveness rests on
is an invariant of the module and a theorem; TLC agreed on the run's instance, but no run lists it,
since the run asks for the liveness itself. Each strengthening named below was
first checked by TLC as an invariant of the run.

*BrowserLifecycle_proofs.* `TypeCorrect`; `OneChrome` (inductive as it stands with the types: a
start leaves its first stage only when there is no live entry); `NoListenerLeaks`. `CapHolds` and
`RefinesSlots` assume `Workers = {}`: with workers the cap can be exceeded by a browser whose
Chrome died on its worker and that is moved here before the reaper sees it. They follow from one
lemma: a step either leaves `LocalChromes` within itself or adds one browser and finds the cap not
reached. `SaveKeepsSlot` needs `SaveInv` (a save that is not yet copying, or goes back, has a
reservation), since what it says of the last stage holds because of what the first one did.
`ExportCopiesFrozen` needs `FrozenInv`, which says of every moment after a browser was frozen what
the property says of the copy, and that the walk has visited all selected browsers when it copies.

*Capacity_proofs.* `TypeCorrect`; `HoldsRelease` with `HoldInv`: whoever a shed is for is waiting
for it, so that a failing stop ends the start that depends on it and no other. `PromisesStand`
and `PinnedRoomStands` are about sums over browsers. They need `CountsInv` (of a browser that does not
run nothing counts but a launch under way, which reserves at least its size; nothing is
reserved for one that runs), lemmas about sums proved by induction over finite subsets, and one
lemma per step: it admits a start whose room covers what the others were promised, or it
promises no browser more (`Milder`), unless a browser grew in its launch window or was
outgrown by a reset, which the properties except.

*Control_proofs.* One inductive invariant of the lease, `IInv`. Its heart is `Measured`: the code's
clock of a guest's hold is never behind the guest's real stretch. If the guest holds the lease, the
hold has a beginning at least as long ago as the stretch; if it does not and its break is shorter
than the cooldown, the end on record is no longer ago than the break, so a retake continues the hold.
Because handlers are compositions, `Fit` states the invariant of a state in the middle of a
handler, and each operator has a lemma that it keeps `Fit`; a step of `Next` is then a few
citations. From `IInv` follow `TypeCorrect`, `HoldsEnd`, `InputIsHolders`, `DesktopAlwaysStops`,
`RevokedStaysOut`, and with `PersonKept` the action property of `PersonStays`. `RefinesLease` maps
the lease, its sockets and the operation to the abstract `Lease`; `Bears` and `Works` say what a
state in the middle of a handler amounts to there, so that a step is shown to take (`HandlerTakes`),
or to leave whoever is in control there and add nothing (`HandlerLeaves`), by what its operators do.
`RecordsFit` is by `BudgetInv`: every audit row so far, and every row still to come (the end of a
hold under way, the starts that wait), is reserved, but for the two that need no reserve.
`OnlyItsOwnPast` is by `PlacesInv`: which attach every queued command belongs to, that answers
come in the order of the questions, and what the snapshots and answers on their way hold.

*Lending_proofs.* One inductive invariant for the grants and the tunnels: `Wired` (a registered
socket is open and of its tunnel, whose row is unrevoked or has only lapsed; a running stream
runs over the socket registered for its tunnel), `Named` (a request that is open or was granted
names a browser and an agent), and `Dry` (a browser lent for control has no unrevoked row and
nothing registered). A step of the tunnels either only takes away (`Recedes`, which keeps all
of it) or registers a socket or opens a row, which the guards allow for no lent browser; a step of
the grants gives control only where there is nothing (`GrantStep`). The sweep grants several
requests in one step: `LastExists` finds the last of those for a browser and borrower, by the
well-foundedness of the numbers, since a theorem with an operator parameter cannot be used.
`StreamsEnd` is the safety half of `PeersReleased`: while both ends see the socket, a peer is told of a
stream that is gone (`PeersAreTold`), an open is being dialled or answered (`OpenersAreAnswered`), and
over an instance a half-closed stream has its close to come (`HalvesEnd`; the client's loop does
not, see the observations). Its invariant `StreamsInv` relates both ends of a stream
with the frames between them (`StreamAgrees`), and needs that no frame of a stream is ahead of its
open (`OpensFirst`). `SocketIsOne` and `LatestIsKept`, of gateways, need that a client and its
socket name each other (`EndsAgree`) and that a client which has yet to hear that it was displaced is
connected, while another joined since (`Displaced`).

*Network_proofs.* `NoOtherRoute` needs `Underway`: nothing is open before the work is done, and each
stage was let through by the one before. `BridgesAlwaysFit` needs `Kept` (a directory is a bridge's
from admission until its child is gone) and `Undialled` (an id is used again only when neither end
holds it), so that a next attempt takes no room from what a worker counts. `EndpointAlwaysAgrees`
is about two ends and a link in order, so its invariant `CdpInv` says what the messages on the
link, read in turn, will make the server know: of each domain what the extension will have
answered last (`AllNoted`), but for domains that a call turned on after its minute (`overdue`), and that a frame it was told of stands or a message that drops it is on its way
(`Link`). `ServerInv` adds under which session a client hears of a frame, and that a name is never
another session's while a command of its bearer is about. `Without`
is a recursive function because tlapm cannot expand `SelectSeq`.

*Agents_proofs.* `NothingComesBack` and `LostAnswersForgiven` are about single steps, and need of the
states before them that a chain is a function on numbers of which those below `lapsed` expired:
the types, `CredTypeOK`. `NoOrphans` needs `Held`: a startup under way, or a binding that is ready, is
its session's binding until it is closed, and only such a one that is not closed has a bridge or is
counted; and `Counted`, that a browser's count of bridges is how many of them it has. `ActingWithinLevel` says of the step that acts what the step before it read.

*Viewer_proofs.* `OneTabStays` by `TabsInv`: until windows of one person asked for each other's last
tabs (`crossed`), some tab is open that nobody asked Chrome to close; only a tab that was asked to
close ends, and a socket that asks for another leaves one nobody asked for.
`OneViewOnly` by `PageInv`: while the last render waits for an answer no view is on screen
(`Awaited`), and the view the page knows of is of the route (`OnScreen`). `SocketsCounted` by `SocketInv`: whatever hides a view in what is queued is followed by what
shows it again (`SetUp`), unless that was dropped (`missed`), and the same of what is left while the queue is drained (`Settling`),
in whose turn other sockets can only end (`Ends`); counts are folds over the open sockets.
`ListsNeverGoBack`: one read is under way at most, and its answer is no older than what is listed.
`CastNeverStalls` and `NewestIsKept` are the safety half of `NewestIsSent`. The first is by
`AcksDue`: what Chrome waits for is no more than the frames on their way, held back, being written
and owed. The second is by `KeptInv`: frames are in the order of what they show
(`FramesInOrder`), so that one that replaces another is no older, and starts are queued in the order of
the tabs they are for (`QueueAgrees`). `CastsEnd`, of `RecordingEnds`, says
that a cast that runs has a clock. `KeysAreRecorded`, of `KeysLetGo`, says that what is down is on
record, being let go of, struck off for an xdotool still to let go of it, or given up in a named way
(`lost`), and that a socket without the lease has nothing on record; its invariant `DesktopInv` ties the
xdotool that runs to the record of its key (`ToolAgrees`).

*Hosting_proofs.* `FlushesInItsDisplay` by `LaunchInv`: whoever takes a display down knows its
Chrome gone, killed, or never this browser's, and one that flushes was told to end.
`SnapshotsStanding` by `SnapInv`: a row names a whole directory of its own, a copy is of the one its
row names, a save has its row to itself and a directory that is half written until published,
what is to be removed is nobody's, and while an export runs nobody writes. `CredentialsWork` by `JoinInv`: a token
that was handed out, or is in an answer, is that of a pairing claimed with it (`HandedOut`), and who
joined is the one its token names (`MembersOnce`). `MirrorsAgree` by `LinkInv`: only the current socket is
open or ready (`BothEnds`), and the last message about a tab on its way up makes the server know of
it what the extension has (`WillKnow`). `ProfilesKept` needs, besides the
types, that only the worker the row names runs or launches a Chrome of the browser
(`ElsewhereStill`), that requests belong to the step of the operation that sent them and what a
copy's answer says is so until it is acted on (`AsksInStep`), and that a profile is copied from a
host where nothing writes to it (`CopiesApart`).

Assumptions about constants are few: bounds are natural numbers, some names differ, and sockets
of viewers, tabs and frames of an endpoint are finite (a count or a list of them is taken). None
bounds how many there are.

Out of reach of the prover: liveness, which needs fairness, and a property of what a recursive
definition computes for every input; the models have no such property to prove.
## Observations

What the code does in the models, or between them, and no property forbids because no doc or
comment of the repository promises otherwise, or because it is outside what a property here can
say. Each is a place to look at when its code is changed.

Lifecycle and capacity:

- `stop()` does not look at `starting`: a stop while Chrome is being launched closes the listener
  opened for it and reports success; Chrome comes up pointed at a closed port. The reaper has a
  comment on exactly this and does look (`browsers.ts:1708`).
- A save begun while an automatic restart or a move is under way passes its guard, and the
  restart then starts Chrome on the profile being copied (`docs/usage.md:262`). A move that joins a
  stop already past its kill and waiting in its hook does not notice that Chrome was started again
  meanwhile (`docs/workers.md:65`).
- A move keeps no slot as a save does: a failed copy may find the cap reached and leave stopped a
  browser that was running (`docs/workers.md:68`).
- A shed asks whether a person is in control when it picks its browsers, then stops them one after
  another; a person who takes the second one meanwhile loses it (`capacity.ts:311`).
- The closer of a worker's endpoint stays in `shimClosers` after its Chrome exited and its browser
  was moved here (`browsers.ts:1071`, `1178`): the next stop calls it instead of `stopRuntime`, and
  the Chrome of this host runs on (`escaped` in `Workers`).
- A display outlives a launch that failed because Xvfb was late (`chrome.ts:246`) and a crashed
  Chrome restarted before the reaper came by (`browsers.ts:1110`, `chrome.ts:357`); a failed launch
  tells Chrome to end and does not wait (`chrome.ts:315`).
- A lease that lapsed is noted as ended when somebody next reads it (`guests.ts:485`). In a browser
  nobody looks at, a guest who returns after a long break goes on with the old hold.
- A link is revoked before its lease is read (`guests.ts:338`), which then counts as ended already: a
  guest that leaves in control leaves no row that it returned it (`docs/guest-access.md:142` lists
  one), and the branch of `endGuest` that writes it cannot be reached (`Ends` in `GuestBudget`).

Network and agents:

- The loop of `bin/tallylamp.mjs` (272, 504) forgets a stream on CLOSE before it ends the peer, so
  no CLOSE goes back, and a half-closed stream stays in the instance's `TunnelMux.streams` (64 or 256
  at most) until the socket closes; `tunnels.ts:464` says the two loops are the same.
- A note of a page's notice is repeated to a session after ten newer ones or its term
  (`browsers.ts:424`, `mcp.ts:861`), where `mcp.ts:1051` says "once per session".

Hosting:

- The answer to a pairing's collecting poll, lost, is "expired" to the next (`background.js:201`);
  with two polls in flight (`836`) the approval may throw in one and its token be lost. A join
  whose answer was lost is refused as already used, which ends the worker.
- A crash during a save leaves a directory of a snapshot no row names. Linking a browser checks
  only its slug.

Viewer and clients:

- `closing` and `targets` are per socket (`viewer.ts:474`, `492`): two windows of one person that each
  close another of the last two tabs both find two and take the browser down, which the comments at
  472 and 1741 are about within one socket (`crossed` in `ViewerTabs`). Tabs closed by a page or by an
  agent are outside the property.
- Beyond 64 messages before the set-up, the next is dropped without a word (`viewer.ts:612`): a "show"
  dropped after a "hide" that was kept leaves a viewer in sight uncounted (`missed` in `ViewerSocket`).
- A paint between the stop and the start of a restart, or after a start or a priming shot that Chrome
  refused, is not sent before the page paints again (`viewer.ts:984`, `1030`, `1050`; `gap` in
  `ViewerStream`).
- Keysyms of the full browser that stay down on the X display (`lost` in `DesktopViewer`): of a key
  pressed again as another without a release between, the first (`desktop-viewer.ts:232` overwrites its record);
  a stale modifier struck off (235) for a press whose xdotool is then killed or hangs; one whose release hung.
- On a worker, the press that a closing viewer cuts off and the release it sends after it are two
  requests that nothing orders (`desktop-viewer.ts:220`, `x11-remote.ts:138`): the press may work
  last, and its key stays down. On this host the kill comes before the spawn, which `KeysLetGo` needs.
- A drained "show" after the heartbeat's event tore the socket down counts a watcher for ever
  (`viewer.ts:1788`); `WatchedIsCounted` therefore says that at least those who watch are
  counted.
- A call of a linked browser that times out (`linked.ts:347`) has its late answer dropped (385): what
  Chrome turned on for it is not in `enabled`, nor an auto-attach in `autoAttached`, and nobody turns it off.
- In `linked-cdp.ts`: a client that turns a domain on and leaves last before the answer leaves it
  on for nobody (390); an endpoint that starts within the grace of a broken link finds domains on it
  does not know of; frames reported before the answer to the first `setAutoAttach` are not replayed
  (382); the owner of a tab's frames may change between two answers that cross.
- A `share()` under way while `unpair()` runs puts its tab among the shared after the tabs were handed back
  (`background.js:543`, `562`, `226`): it stays attached, with no link, until the person stops it, where
  `background.js:9` says what the extension promises (`stray` in `Linked`).
- In `app.js`: after a refused ticket (3394), six spent retries (3374) or a refused display (3500) nothing
  renders the page: its bar and banner (2702, 2844) go on saying "You have control" under what the stage
  says (`GaveUp` in `DashboardPage`); the comment at 3460 tells of that claim as mended for a lapsed lease. No server
  closes with 1000; what came from in between would be passed over in silence (3504).
- In `app.js`: a change whose event arrives while a read that was already answered is on its way, or whose
  refresh is refused or times out, is not read until the next event (`GivesUp` in `DashboardData`);
  events missed while the EventSource was down are not made up for; two tabs of the dashboard share one lease token, and closing one ends the other's control.

## Limits

Only model-checked: every liveness property (`OperationsEnd`, `AdmissionEnds`,
`PeersReleased`, `GatewayComesBack`, `BridgesEnd`, `CallsAnswered`, `NewestIsSent`,
`KeysLetGo`, `RecordingEnds`, `BeliefsMeet`, `LinkEnds`, `FalseClaimEnds`, and of `ListsKeepUp`
its second half), which are beyond the prover; of
`PeersReleased`, `GatewayComesBack`, `NewestIsSent`, `KeysLetGo` and `RecordingEnds` what they rest
on is proved.

Never happens in an instance: a second link of one linked browser's endpoint, two secrets changed.

Not modelled: what a Chrome, an X server, ffmpeg or xdotool does beyond starting, ending,
hanging and the answers named above; SQLite failing; two server processes on one database; the
contents of profiles, pages and messages; which addresses are public (`ssrf.ts`), an upstream
proxy's handshake, PKCE and the fetch of a client's document, rate limits, the windows and
bytes of streams, clipboard, cursor, dialogs and downloads of a viewer, a display on a worker
(`x11-remote.ts`), which tabs and hosts a guest may open, the guest's page and the extension's panel,
importing an archive. `Server and API` and `Storage, events and configuration` only parse, format,
route and keep the rows the other modules have.

Hazards without a property are listed in `PROJECT.json` with the reason.

## Plan

1. That `Workers` implements the host whose calls may fail that `BrowserLifecycle` assumes.
2. A display on a worker: the display commands of a viewer as requests that cross. Then the parts of
   modelled components that are left: watch-only links and which tabs a guest may open, the viewer's
   clipboard, uploads of an MCP call.
3. Pure algorithms against reference definitions: address classification of `ssrf.ts`, rate limits.
