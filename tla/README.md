# Verification of the WDTT client

TLA+ models of the WDTT client for OpenWrt, the TLC runs that check them on
small instances, and proofs of their main properties for every instance.  Paths
below are relative to `src/`; `core/` is `wdtt-client/src/core/`, `internal/` is
`wdtt-client/src/internal/`.

WDTT carries a WireGuard (or raw IP) tunnel through the TURN relays of VK calls.
A Go daemon, `wdttd`, obtains TURN credentials for each configured call hash,
opens many sessions through the relays to the user's server, receives the tunnel
configuration over one of them, and spreads the packets of the tunnel over all.
Shell scripts route the router's traffic into it; a LuCI page configures it.

## Inventory

| Part | State it keeps | Operations | Model |
|---|---|---|---|
| Worker groups, `core/group.go` | position of each group and worker, baton channels, `configSent`, `configInFlight`, `configCh`, the group's credentials | start in cascade, fetch, run workers, refresh, retry, stop | `WorkerGroup`, `ConfigRight` |
| Core, `core/core.go`, `core/stats.go` | context, events channel, socket or TUN, active connections | `Start`, `emit`, `Stop`, shut down, report | `CoreLifecycle` |
| Session, `core/session.go` | context, deadlines, error channel, handshake semaphore, slot | dial, handshake, ask, carry packets, end | `Session`, `SessionContract` |
| Dispatcher, `core/dispatcher.go` | workers, round-robin index, chunk, queues | register, unregister, dispatch, attach TUN, shut down | `Dispatcher`, `CoreLifecycle` |
| Daemon, `internal/daemon` | core and its cancel, status, TURN addresses | start, event loop, apply a configuration, stop, tear down, pass on a captcha | `Daemon`, `CoreLifecycle`, `Handover` |
| Credentials, `core/creds.go` | cache per group, error counter, throttle, captcha lockout | get, fetch, invalidate, count errors; the legacy token chain | `Creds`, `Login`, `LoginContract` |
| VK Calls path, `core/creds_vkcalls.go` | none of its own | five requests, fall back to the chain | `Login` |
| Captcha solving, `core/creds.go`, `core/captcha_v2*.go` | stage, attempts, show type, guesses | page, proof of work, checkbox, slider, web view | `Login` |
| Captcha hand-over, `internal/captcha`, `core/core.go`, `core/creds.go` | answer channel, token file, captcha in the status | request, show, submit, watch, answer, time out | `Handover` |
| Status, `internal/status` | state, error, captcha, file | set, write | `Daemon`, `Handover` |
| Overlay, `internal/wg` | interface, addresses, recorded routes | apply (WireGuard, RAW), tear down | `Daemon` |
| Routing, caller side, `internal/routing` | none | call the datapath scripts | `Daemon` |
| UCI configuration, `internal/config` | none | load, migrate, validate | success, failure and the routing mode, in `Daemon` |
| init script, `luci-app-wdtt/root/etc/init.d/wdtt` | none | start, stop, reload | `Daemon` |
| rpcd, LuCI page | UCI | show the status, write the captcha token | the person in `Handover` |
| Relay blacklist, obfuscation, protocol, resolver, browser profiles | | | see *Not modelled* |
| Datapath, `wdtt-client/files/*` | nftables, dnsmasq, routes, lock directories | ensure, stop, watchdog, hotplug | each call one step of `Daemon` |
| VK, TURN server, WDTT server, kernel | — | — | external: a call succeeds or fails |

### How the parts interact

`Core.Start` makes the shared channels and flags and starts, per hash, a
`WorkerGroup`; each group has a channel from the group before it (*the baton*)
and one to the next.  A worker loops over `RunSession`.  At most one session at
a time asks the server for the tunnel configuration and puts it into `configCh`;
a goroutine of `Start` takes it from there and emits it as an event, or in RAW
mode opens the TUN itself.  A ready session registers a slot with the
dispatcher; the dispatcher's `readLoop` puts packets into slots, each session's
Writer takes them out, and `writeLoop` carries the way back.  The daemon
consumes the events; the end of that channel is how it learns that the core has
ended.

Credentials come from one conversation with VK at a time (`vkRequestMu`).  A
captcha in it is worked on in stages; a stage that needs a person emits
`captcha_required` and waits on a channel of capacity 1.  The daemon shows the
captcha in the status file, the LuCI page shows it to the person, who writes the
token into a file, which a watcher of the daemon reads, removes and hands to
`Core.SolveCaptcha`, which fills the channel.

With the configuration the daemon builds the overlay out of `ip` and `wg`
commands, routes the TURN servers past the tunnel and calls the scripts for the
policy.  Its deferred calls take all of it back, while the service's stop script
takes back the same things from outside and procd may start the next daemon.

### What is hard, and what correct means

- *Groups.*  Two flags shared by all workers stand for one permission, with
  sessions failing in between; a baton passed by a timer, a deferred call and
  an early exit.  Correct: one asker at a time, one configuration ever, the
  permission never lost, every group gets its turn whatever happens to the ones
  before, and Stop ends all of them.
- *Core.*  Deferred calls close what other goroutines still use, a full event
  channel loses its oldest event.  Correct: nothing outlives the end of the
  channel or sends on it afterwards, a dead core is reported and left, a
  configuration is applied.
- *Session.*  Six goroutines, one context, a connection whose single deadline is
  set from several places, early returns with resources held.  Correct: tokens
  balance, a return leaves nothing behind, a failure is reported, a cancelled
  session ends.
- *Dispatcher.*  A ring that changes while an index points into it; three
  variables of a chunk with four reasons to reset them; two queues per worker.
  Correct: small packets are not overtaken, chunks are bounded in packets and in
  time, the ring is walked in order but for what a change of the workers skips.
- *Credentials.*  A lock held across a wait for a person, a second one for the
  whole process, invalidation caused by sessions that used the previous
  credentials.  Correct: VK sees one spaced conversation at a time and none in a
  lockout, a refresh does not serve what was refused, everyone comes through
  after Stop.
- *Login.*  Three nested loops of retries (credentials, captchas, stages) around
  a solver that loops over what VK wants to see next, with the context looked at
  in some places only.  Correct: it ends whatever VK answers, a lockout is
  declared exactly when the caller is told to wait, people are not asked for a
  call that is gone.
- *Hand-over.*  Answers that come late, a file written and removed by two
  processes, a channel drained from two sides.  Correct: the only watcher never
  blocks, an answer to the request under way ends it.
- *Daemon on the router.*  A sequence of commands each of which may fail, undone
  from two sides, with kills in between that leave things to a successor whose
  memory is empty.  Correct: an orderly end leaves nothing, what is shown as set
  up is there, what a predecessor left is no obstacle.

`PROJECT.json` lists every hazard at its line.

## Plan

Order: what decides whether a tunnel comes up and stays up comes first.

1. `ConfigRight`, `WorkerGroup`: the abstract permission to ask, and the groups
   that implement it. Done.
2. `Dispatcher`: the packets' way. Done.
3. `CoreLifecycle`: start, events, end; composes core, stats, both loops of the
   dispatcher and the daemon, with the groups as one process. Done.
4. `Session`: the inside of `RunSession`, which `WorkerGroup` has as the steps
   *dial, ask, ready, settle*; `SessionContract`: those steps, with the outcomes
   a worker can see, which `Session` implements. Done.
5. `Creds`: cache, mutexes, throttle, lockout, error counter, refresh, for two
   groups. Done; still to check: that refused credentials get replaced, which
   needs assumptions about VK and the lockouts to be stated.
6. `LoginContract`, `Login`: what a conversation with VK promises to `Creds`, and
   the conversation that keeps the promise. Done.
7. `Handover`: captcha request, status, token file, late answers. Done.
8. `Daemon`: the daemon's lives on the router, with the overlay and the stop
   script. Done.
9. Open: refused credentials get replaced; the locks and traps of the datapath
   scripts; pure operators in one run (the backoff with 64-bit wrap-around,
   framing of obfuscated packets).

The modules declare parameters as constants with named assumptions, have one
action per step the scheduler can separate, and no RECURSIVE operator.

## Modules

### WorkerGroup (with ConfigRight, MCWorkerGroup, WorkerGroupProofs)

A group's `gpc` is the place in `WorkerGroup` where it can wait: for the baton
(`waiting`), in the Doze pause, before, in and after `GetCreds` (`check`,
`fetch`, `retry`), in `wg.Wait` (`running`).  `passed[g]` says that
`signalReady` is closed, by whoever is first through `batonOnce`.  `timer[g]` is
the goroutine that passes the baton 500-750 ms after the credentials arrived.

A worker's `wpc` follows its loop.  `BeginIteration` loads `configSent`,
`ClaimRight` does the compare-and-swap of `configInFlight`, as separate steps
because other workers run between them.  The session is seen from outside:
`DialFails`, `Handshake`, `ConfigArrives`, `ConfigRefused`, `SessionEnds`, each
with the class the code sorts the error into (`retry`, `refresh`, `dead`,
`fatal`).  `Settle` is what happens to the flags when it returns.
`BeginRefresh`/`EndRefresh` are `refreshCreds` under its mutex.  `ConsumeConfig`,
`ConsumerLeaves`, `AllGroupsReturned` and `MainReturns` belong to `Core.Start`.

`ConfigRight` is the abstract promise: a permission with at most one holder,
given back on failure, spent by the first success.  `ImplementsConfigRight` is
the refinement, with `holder` the worker whose `getConf` is set and whose session
has not brought the configuration.

### Dispatcher (with MCDispatcher, DispatcherProofs)

One packet is dispatched under `d.mu`, so it is one step with five outcomes: no
worker, priority queue, current worker, another worker, dropped.  Queues are
lengths, timestamps are ages that saturate at 15 ms, beyond which no comparison
changes.  `PauseIndex` and `DwellIndex` (and so on) are the values after the
pause check and after the dwell check.  The Writer's two selects are separate
steps: poll the priority queue, then wait for either.  A slot is removed in a
later step than its Writer's end, as in `RunSession`.  `IndexKept` is all that
`Unregister` does to the index.  `lastSlot`, `moved`, `runLen`, `runAge` and
`overtook` are history: `lastSlot` is kept when other slots come and go, and
`moved` counts those changes since its packet that may have left the index one
more place ahead of it, which is the measure of `RingInOrder`.

### CoreLifecycle (with CoreLifecycleProofs)

The goroutines of one core and the daemon's main loop, for a core in either
tunnel mode (`rawMode`).  `passed` is history: which verdicts (configuration,
error, dead core) the daemon has handled or a full buffer has lost, so that the
claims about their delivery say *handled, or lost in the open*.  `reports` counts
reports of the stats loop and captchas, which repeat the same steps.  `emit` takes up to three
steps (try, drain one, try again), since others use the channel in between.
`AttachTUN` is two steps, store and close of `ready`, in the order of the code.
main's deferred calls run one by one: close the socket, cancel, `Shutdown`
(wait for both loops, then close the TUN), close the events channel.  A send on
the closed channel sets `panicked`.  In RAW mode nothing wakes a reader blocked
in `tunFile.Read`: the descriptor is opened in blocking mode (`tun_linux.go`), so
there is no runtime poller that a Close or a context could use.
`attachRawTUN`'s silent return on an empty address is not reachable, because the
parser has refused such a line before.

### Session (with SessionContract, SessionProofs)

One call of `RunSession` and its goroutines: the binding refresh, the two relay
pipes, Reader, Writer and keepalive, the two `AfterFunc`s.  `others` are the
tokens other sessions hold in `handshakeSem`.  `readDeadline` is the last value
set on the connection, by the AfterFunc (*past*) or the Reader (*long*, 30
minutes).  TURN, DTLS and the cipher are calls that succeed or fail.

`SessionContract` is what a worker relies on: the stage of its session, whether
it brought the configuration, the error it ended with, and which of the things
sessions share it has not given back (a token of `handshakeSem`, a place in
`ActiveConnections`, a slot, a context under the core's).  Its steps are those
`WorkerGroup` gives a session: `Fails` is `DialFails` or `ConfigRefused` there,
`Connects` is `Handshake`, `ConfigArrives` and `Ends` (`SessionEnds`) are the
same.  `ImplementsSession` is the refinement; `Stage` and `Holds` are its mapping.
A connection without a right to ask counts as *dial* until its slot is
registered, because nothing the worker can see happens in between.

### Creds (with MCCreds, CredsProofs)

Credentials are serial numbers in the order VK issued them, 0 for none, so that
"newer than what was refused" can be said.  `cache` is
`StreamCredentialsCache.creds`, `creds` the copy in the group's closure, `using`
the snapshot a worker's session runs with: three places that go out of step.  A
call of `GetCreds` walks through `lookup` (read lock), `recheck` (write lock),
`serialize` (waiting for `vkRequestMu` with the cache locked), `throttle` and
`request`; its ends give the mutexes back as the deferred calls do.  `Gets` and
`Fails` are what the caller does with the result: a group's first fetch starts
its workers, retries or ends; a worker's refresh replaces the group's copy and
gives `refreshMu` back.  `handleAuthError` and `invalidate` are split where the
code touches the counter and the cache in separate steps.  The interval and the
15 s window of `refreshCreds` are flags that time may flip at any moment,
`lockout` is a comparison with the clock.  Ending sessions, the cascade and Stop
appear only as far as they decide who calls.

### Login (with LoginContract, LoginProofs)

One conversation (`fetchVkCreds`) at a time, after another, with a lockout in
between.  `pc` names the request, pause or wait it is in.  `VKCallsAnswer` and
`VKCallsJoin` are the five requests of the VK Calls path; `AnonAnswer` ..
`JoinAnswer` those of the legacy chain, which `ChainFails` starts again with the
next credentials.  `Plan` is the order in which `solveCaptchaBySelectedMode`
works on a captcha by mode; `NextStage` is the look at the context between its
stages, `GiveUp` the lockout.  The actions from `PageLost` to `BackoffEnds` are
`solveVkCaptchaV2Attempts` with the checkbox, the slider and the loop over the
show type.  An answer is one of the classes the code tells apart; with the
context done requests fail, but a proof of work may finish and a debug-info cache
hit succeed, and the web view's wait goes on.  Every call brings a context of its
own made from `Background` (`ctx`, for the call under way; it may be used up when
the conversation begins).  `Expire` is its deadline; `Stop` by itself does not end
it, and `StopReachesFetch` is the goroutine that hands Stop on to a group's first
fetch (`caller`), which a refresh does not have.  `late` counts captchas shown
after that context was done.

`LoginContract` is what `Creds` takes for granted in `Request` and its ends: a
conversation starts outside a lockout, and declares one exactly when it returns
`CAPTCHA_WAIT_REQUIRED`.  `ImplementsLogin` is the refinement.

### Handover (with HandoverProofs)

Everything between the core's wait and the person.  Of a captcha or a token only
its age is kept: `now` for the request under way, `past` for earlier ones, which
is what a drained, late or displaced answer is about.  `Ask` is
`requestWebViewCaptcha` up to its `select`, `TakeAnswer` and `TimeOut` the
`select`; `ShowCaptcha` is the daemon's handler of the event; `OpenFile` and
`WriteFile` are the two steps of `os.WriteFile` in `Submit`; `ReadFile`,
`RemoveFile`, `DrainOld`, `SendToken`, `ClearCaptcha` the watcher's tick with the
`SolveCaptcha` it calls.  `ours` says that the file being written has not been
removed in between.

### Daemon (with DaemonProofs)

Life after life of the daemon's process.  `link`, `bypass`, `dev`, `policy` and
`status` outlive the process; `config` to `applied` are its memory, reset by
`Start`.  `Begin` .. `StartFails` are `runWithConfig` up to its loop.
`BeginApply`, `LinkAdd`, `SetConf`, `AddressUp`, `AddBypassRoute`, `RoutesDone`
and `Ensure` are the branch of `handleEvent` that applies a configuration, one
step per command, each of which may fail (`ApplyFails` is SetError and back to the
loop).  `StopRouting`, `Teardown`, `Exit` are the deferred calls; `Kill` is an end
without them.  The core's goroutines (`AddTurnIP`, `CoreConfigures`) run next to
that and after `stopCore`; so does `CoreShutsDown`, its `Dispatcher.Shutdown`, which
closes a RAW tunnel before the daemon's loop sees the end of the events.  `ScriptUnroutes` .. `ScriptEnds` are `stop_service`
command by command, `Reload` is `reload_service`.  `RoutingModeOf` is the
migration of the older option.

Assumed of the router: `wdtt-datapath stop`, `ip route del` and `ip link del`
work when there is something to delete; the init script's lock serialises stop and
reload; once `stop_service` has returned procd respawns nothing.  Until then it may
start the next daemon at any moment of the script.
`StopRouting` ignores the script's error like the code, so the first of these is
what `policy` in `CleanExit` rests on.

## Runs

| Run | Instance | Shows |
|---|---|---|
| `WorkerGroup_safety` | 2 groups, workers a1, a2 / b1 | one asker, one configuration, right not lost, cascade, no baton lost, refinement of `ConfigRight` |
| `WorkerGroup_live` | 2 groups of 1 worker | baton passed, Stop completes, the configuration arrives |
| `Dispatcher` | 4 slots, sizes 64 and 200, queues of 1, ticks of 8 ms | priority packets overtaken at most once, chunks bounded in packets and time, ring in order: a newcomer or the removal of an earlier slot costs one slot with room at most, other removals none |
| `CoreLifecycle` | both tunnel modes, room for 1 event, 1 report or captcha | `readLoop` always has something open to read; a closed channel means the core is over; a dead core is reported, and left in WireGuard mode; a configuration is applied |
| `CoreLifecycle_raw_hang` | RAW mode | **violated**: the daemon stays with a dead core |
| `CoreLifecycle_closed_send` | WireGuard mode | **violated**: a send on the closed channel |
| `Session` | DTLS mode, semaphore of 2, 1 packet buffered | keeps `SessionContract`, tokens balance, nobody left behind, failures reported, ends when cancelled (30 minutes allowed) |
| `Session_slow_end` | the same, without the 30 minutes | **violated**: the session need not end |
| `Creds` | 2 groups of 1 worker, 2 sets of credentials | one request to VK at a time, spaced, none in a lockout; a refresh brings new credentials; the error counter is bounded; after Stop everyone leaves, whatever mutex he waits for |
| `Login` | both paths, three captcha modes, 4 credentials, 3 captchas, 2 guesses | a conversation ends, keeps `LoginContract`, asks people at most once more after its own context is done |
| `Handover` | 2 captcha events in the buffer | the watcher's send finds room; an answer to the request under way ends it |
| `Daemon` | both tunnel modes, three routing modes, 2 TURN servers | an orderly end leaves nothing, an applied tunnel is up unless its RAW core has just closed it, the interface's name is free |

### Bounds

- Two groups and three workers: a race over the permission is between workers of
  one group or of different groups, a race over the baton between neighbours;
  all claims are per pair.  The proofs cover any number.
- Four slots: two are enough for a ring, the third makes "the next one with
  room" differ from "the next", and the fourth leaves three after a removal, the
  fewest in which the index that `Unregister` keeps is seen to skip a slot.  Sizes 64 and 200 have chunks of 1 and 3
  packets; 64 also takes the priority path.  With ticks of 8 ms the ages 0, 8, 15
  lie on both sides of the 10 ms pause and reach the 15 ms dwell.  Queues of
  length 1 make "full" the common case.
- `EventBuf` 1 (256 in the code) makes `CoreLifecycle` evict all the time, which
  is the case its claims are about; `EventBuf` 4 and 6 in the violated runs keep
  eviction out of their counterexamples.  `MaxReports` bounds the reports and
  captchas of a life, which repeat the same steps.
- `HandshakeCap` 2 with any number of `others` (3 in the code, any in the proofs).
- `Creds` has two groups because `vkRequestMu`, the interval and the lockout are
  all that groups share; two sets of credentials let one group refresh what the
  other waits behind.  Two workers of one group, which compete for `refreshMu` and
  the cache's mutex, are in the proofs (`RefreshIsNew`) and not in the run.  Where the proofs need
  the set of workers to be finite, they have it from `FiniteAssumption`: `Start`
  is given a number of workers per hash.  One worker can bring
  the error counter to `maxCacheErrors`.
- `Login` has the code's limits of credentials (4) and captchas (3); two guesses
  are a first and a last one.
- `MaxEvents` 2 in `Handover`: one captcha event of an earlier request and one of
  this, or a displaced one; the events in between are of other kinds.
- Two TURN servers in `Daemon`: one with a route, one whose command failed or
  that came after the routes were made.
- `MCBound` in `MCWorkerGroup`, and the bounds on `runLen` and `overtook` in that
  of `MCDispatcher`, cut nothing the program does: the invariants keep the counters
  below them.  `MCDispatcher` also ends a history at the third change of the
  workers between two data packets, leaves out the states in which two slots
  at once lie between the end of their Writer and their removal, and keeps the
  priority queues empty while all four slots are registered; the properties of the
  run are all proved without these bounds.

The cores of `CoreLifecycle` and the sessions of `Session` really stop (the process exits, `RunSession`
returns), hence `CHECK_DEADLOCK FALSE` there.  The other runs check deadlock.

### Fairness

Weak fairness for every goroutine that can move: the Go scheduler is preemptive.
Timers fire.  `GetCreds` (120 s, 35 s), the dial, the handshake (50 s) and the
request for the configuration (15 s) have deadlines, so they end one way or the
other; which way is never promised.  No packet, stream, tick, signal or
cancellation is promised.  A ready session is promised nothing but its end once
cancelled (`Session`, `EndsAfterCancel`, is where that comes from); groups end
when cancelled (`WorkerGroup`, `StopCompletes`, is where `CoreLifecycle` gets
that from).  Strong fairness stands in three places: Reader's `select` takes
`sessCtx.Done()` some day if it is ready again and again, and the mutexes
(`refreshMu` in `WorkerGroup`, all three in `Creds`) starve nobody: Go's mutexes
hand over to a goroutine that has waited for a millisecond.  `ConfigArrivesEventually` names its assumptions
about the environment inside the property: a server that answers whoever keeps
asking (`ServerAnswers`) and ready sessions that end some day
(`SessionsTurnOver`).  Without the second the claim is false: after a failed
attempt the permission is free, but the other workers, whose sessions are ready,
look at it again only when those end.  `PatientSpec` of `Session` adds that the
30 minutes of a read deadline pass.

`Login`: a conversation moves on (`WF(Talk)`), because each request has a client
timeout of 20 s, each web view its own (10, 60 or 120 s), and the proof of work a
limit of nonces; which way is never promised.  `Handover`: the daemon's loop and
end, the watcher and the core's `select` run; nobody promises that the core asks,
that a person answers, or that a request times out.  `Daemon` has safety
properties only.

## Findings

1. `core/dispatcher.go:158` — in RAW mode a core all of whose groups have ended
   hangs in `Shutdown` until a packet happens to come, and the daemon with it
   (`CoreLifecycle_raw_hang`).
2. `core/core.go:280` — the events channel is closed while the stats loop or the
   configuration's goroutine may still be inside `emit`: a panic
   (`CoreLifecycle_closed_send`).
3. `core/session.go:546` — a Reader caught between two reads when its session is
   cancelled sets the deadline 30 minutes ahead again and blocks for as long;
   the slot stays registered and the worker does not reconnect
   (`Session_slow_end`: the session is up, its relay ends and cancels it, the
   AfterFunc sets the deadline to now, then the Reader sets its own).

## Known behaviour

Real, and not contradicted by anything the repository says:

- A full events channel drops its oldest event, whichever it is (`core/core.go:371`):
  it may be the only configuration.
- The message that no stream came up is also sent when streams had been up and
  all groups ended later (`core/core.go:330`): the counter it reads is 0 by then.
- A keepalive that cannot write ends alone; the session goes on without pings
  until Reader or Writer notice (`core/session.go:476`).
- A pause right behind a finished chunk turns the ring twice
  (`core/dispatcher.go:258`): with two workers the next chunk goes to the same
  relay.
- A removal does not shift the index (`core/dispatcher.go:172`): when an earlier
  slot goes, the index is one place further on and a slot that was next in turn
  is passed over until the next round; likewise a newcomer while the index has
  gone round to the front.  `RingInOrder` bounds that, one slot per change.
- A chunk begun on another worker because the current queue was full is not
  compared with its size before its second packet (`core/dispatcher.go:325`):
  where the size is one, two packets go to that relay.
- A plain 401 from TURN's Allocate counts as an error but makes nobody refresh
  (`core/group.go:265` looks for other words), and the cache that three of them
  empty is read only by `refreshCreds`, which empties it itself: such a worker
  repeats with the refused credentials until another error refreshes them.
- A session that ends without an error is restarted at once (`core/group.go:245`),
  and after 62 failures in a row the backoff `2 << (attempt-1)` overflows and the
  wait gets shorter again (`core/group.go:314`).
- A refresh has 35 s (`core/group.go:158`), while a captcha in it may wait for 60
  or 120 s (`core/creds.go:212`), and the time spent waiting for the two mutexes
  counts as well.
- An answer does not say which captcha it is for: one that `SolveCaptcha` sends
  after the next request has drained the channel (`core/creds.go:691`,
  `core/core.go:358`) is taken for that request's.
- The watcher removes the token file whatever it contains by then
  (`internal/captcha/watcher.go:28`), and `internal/daemon/daemon.go:307` clears
  the captcha shown whichever it is by then: a token, or a captcha, that came in
  between is lost, and the request ends by its timeout.  A captcha whose request
  timed out stays shown until another captcha, an answer or the end of the daemon
  replaces it.
- Stop does not reach a refresh's conversation (`core/group.go:158`, made from
  `Background`): until its 35 s are over it goes through all its stages and may
  show several captchas of a core that was stopped.
- A web view's wait is ended by its own timeout, not by Stop (`core/creds.go:681`);
  a lockout is declared also when solving failed only because of Stop or the
  call's deadline.
- TURN servers that come after the overlay was applied get no route past the
  tunnel (`internal/daemon/daemon.go:198`): in full mode their packets go into the
  tunnel they carry.
- A route past the tunnel, or into it, that `ip` refuses is passed over: the
  status says *connected* all the same.
- After a kill the routes past the tunnel and a `status.json` that says
  *connected* stay behind.  The next life replaces routes to the same
  destinations and leaves the others.
- A reload between the daemon's own routing stop and the end of its interface sets
  the policy up again, and nobody takes it down (`policy = "late"`).
- In RAW mode the stop script deletes the interface of the WireGuard name, which
  is not the tunnel's; the core's shutdown or the end of the process closes the
  tunnel.
- A RAW core that shuts down closes its tunnel (`core/dispatcher.go:160`) before
  the events end (`core/core.go:280`): until the daemon's loop comes to that end
  the status says *connected* of an interface that is gone, and a configuration
  still in the channel is applied to it, which fails.

## Proofs

Every theorem is `Spec => []P`, `Spec => [][A]_vars` or a refinement, for all values
of the constants that satisfy the modules' assumptions.

- `WorkerGroupProofs`.  `TypeCorrect` is inductive by itself.  `Cascade`
  follows from `CascadeInv`: a baton is closed, or its timer armed,
  only by a group that has credentials or ended; while the context lives a group
  past its wait has only such groups before it; workers exist only in such
  groups.  `StartupCascade` alone is not inductive: it says nothing of the
  groups that have passed their wait and not yet begun to fetch.  The permission
  rests on `RightInvariant` (`RightInv`): a holder keeps `configInFlight` set and
  is between its claim and the end of its session; a configuration that arrived
  keeps it set for good, first through the worker whose session brought it, then
  through `configSent`.  That is what a worker between the load of `configSent`
  and the swap of `configInFlight` runs into, and why `OneAsker` and `ConfigOnce`
  alone are not inductive.  `ExclusiveAsker`, `ConfigReceivedOnce`, `RightKept`
  and `Refinement` follow from it.  `BatonKept` and `WaitsForAll` are the safety
  behind `BatonPassed` and `StopCompletes`, which are liveness: a group that ended
  has passed its baton, one with running workers has passed it or has the timer
  that will, unless the core stops (`BatonNotLost`); no worker outlives its group, no group main's
  wait, so that `configCh` is closed when nobody can send any more.  They are
  inductive together (`DownInv`), with `CascadeInv`.
- `DispatcherProofs`.  `PriorityFirst` from `SlotInv`: a Writer at its second
  select has been overtaking nobody, and one at its poll that has overtaken
  once finds a priority packet waiting.
  `TypeCorrect` adds to the types that the index stays inside the ring (`TypeInv`);
  it needs that removing an element of a sequence without duplicates removes it
  altogether.  `ChunksBounded` and `ChunksInTime` from `ChunkInv`: while the index
  stays on the slot of the last data packet, the count and the age of the chunk
  cover the packets that followed each other there.  Without that part nothing
  ties the packets sent to the count the code compares.  `RingWalked` from
  `RingInv`: the index lies at most one place ahead of the slot of the last data
  packet, and one more for each newcomer (`RingGrows`) and each removal of an
  earlier slot (`RingShrinks`) since; other removals bring it no further ahead.
  From the index on the step that sends skips full slots only; `Further` is the
  arithmetic of counting places round the ring from either of the two.
- `CoreLifecycleProofs`.  `ClosedIsOver` from `DownInv`, what each of main's
  deferred calls has established and nobody undoes; `SourceExists` from
  `SourceInv`, which ties `ready` to the file stored before it.  `TypeCorrect`:
  a send of `emit` looks at the length it adds to.  `DeadIsReported` from
  `DeadInv`: the verdict main has sent is in its call of `emit`, in the channel,
  or was taken out of it, and the channel is closed only when that call returned.
  `ConfigOnItsWay` is the safety behind `ConfigApplied`: with `WaitingInv` (nobody
  stops waiting before the configuration came unless the context is cancelled;
  `configCh` is closed once, after the groups), a configuration handed over is in
  `configCh`, with the goroutine that opens its TUN, or on the way of an event to
  the daemon; `Accounted` says where an event may be, for `DeadIsReported` too.
- `SessionProofs`.  `TokensBalanced` from `TokenInv`; `GoroutinesEnd` and
  `FailuresReported` from `EndInv`, which says for each
  position of RunSession which goroutines exist, and that an error is in the
  channel from the first failure on.  `TypeCorrect` needs the balance of the
  tokens: it keeps those of the other sessions within the capacity.
  `Implements`: `ContractInv` joins `TokenInv`, `EndInv` and `CountInv` (when a
  connection counts); it determines what a session holds at each position
  (`HoldsInStage`), and each step of RunSession moves as the contract allows while
  the steps of its goroutines stay in their stage.
- `CredsProofs`.  `OneRequest` and `LockoutRespected` from `RequestInv`: past
  `vkRequestMu.Lock` one owns it, and what was found out after taking it (interval
  passed, no lockout) can be undone only by its owner.  `RefreshIsNew` from
  `RefreshInv` and `IssuedInv`: a worker fetches only under `refreshMu`, a group's
  first fetch precedes the birth of its workers, hence nobody fills the cache
  between a refresh's invalidation and its own request.  Together they are
  `FetchInvariant`.  `TypeCorrect` has the bound of the error counter, from
  `CountInv`: the counter passes its limit by no more than the workers that have
  counted and not yet cleared it.  The bound alone is not inductive: it does not
  say that who pushes the counter up is on the way to clear it.  `MutexOrder` is the
  safety behind `AllLeave`: who owns `vkRequestMu` waits for no mutex, who owns a
  cache's waits for `vkRequestMu` at most, and an owner is in a place from where
  the deferred calls give the mutex back.
- `LoginProofs`.  `Implements`: `Seen` says what a step may change as far as
  `LoginContract` looks; each group of actions is shown to be so, and every such
  step is one of the contract's.  `OnePrompt` from `LateInv`: once a captcha was
  shown after the call's own context was done, the conversation is in that web view, at an
  end, or before a request, which is lost: no other captcha is found.
  `TalkCounts` is the safety behind `ConversationEnds`: six nested loops (chains,
  captchas of a chain, stages of a captcha, attempts of the solver, the steps
  within one, guesses) and every one of their retries make `Left`, seven counts,
  smaller in lexicographic order.  It needs `LimitInv`: a captcha is worked on only
  while the chain may solve one more, and a guess is one that is left.
  `NothingBelowZero` makes the descent well-founded.
- `HandoverProofs`.  `TypeCorrect`; `SendHasRoom`: between the drain and the send
  only the core touches the channel, and it only empties it.  `AnswerOnItsWay` is
  the safety behind `AnswerEndsRequest`, from `FreshInv` (`AnswersAreFresh`: what is
  about the request under way exists only while there is one) and `HeldInv` (the
  watcher holds a token from its read to its send): the watcher lets go of a token
  for that request only into the channel, when the request ends or for want of a
  core, and drains an answer from it only with another in its hands.
- `DaemonProofs`.  `DaemonInv` joins the order of the steps within a life
  (`Order`), that the interface is there when routes are made, or a RAW core has just
  closed it (`LinkThere`), that
  every route past the tunnel is on record, being added, or a killed predecessor's
  (`RoutesKnown`), and what the deferred calls have taken down (`TakenDown`).
  `LeavesNothing`, `AppliedMeansUp` and `NameIsFree` follow.  `CleanExit` alone is
  not inductive: it says nothing while the process runs.

Only model-checked: all liveness (`BatonPassed`, `StopCompletes`,
`ConfigArrivesEventually`, `ConfigApplied`, `DaemonLeavesDeadUDPCore`,
`EndsAfterCancel`, `AllLeave`, `ConversationEnds`, `AnswerEndsRequest`), which is out
of the prover's reach; for six of them the safety they rest on is proved
(`BatonKept`, `WaitsForAll`, `ConfigOnItsWay`, `MutexOrder`, `TalkCounts`,
`AnswerOnItsWay`).  Every invariant, action property and refinement that a
passing run checks is also a theorem.

## Not modelled

- *Relay blacklist* (`core/blacklist.go`): three operations on a map under one
  mutex with expiry by the clock; any order of them is legal.
- *Obfuscation, protocol* (`core/obfs*.go`, `core/wrap.go`, `core/protocol.go`,
  `core/wgconfig.go`): data per packet and string handling; the outcomes of a
  request for the configuration are choices in `Session` and `WorkerGroup`.
- *Resolver* (`core/doh.go`): server after server, then a cache; its failure is the
  failure of a dial or a request.
- *Datapath, repair and diagnosis scripts, hotplug*: their effects are nftables
  sets, dnsmasq files and routing tables outside the repository; `Daemon` takes a
  call as one step that works, fails, or leaves things half done.  Their lock
  directories serialise them among each other.
- *UCI parsing and the device id*: sequential; a derived device id that cannot be
  saved is derived again by the next life.
- Image matching of the slider captcha, HTTP forms and texts, browser profiles
  and names, ciphers and certificates, netlink, the installer, the LuCI forms.
- Durations, except where the code compares them.
