# NetProbe: a verification project

NetProbe is a Python program (a CLI `app/` and a Flet desktop GUI `gui/`) that
measures hosts — DNS, TLS, reachability, CDN — and runs a tunnel: an `xray`
child process behind a local proxy port, on Linux with a TUN device. A small
Android app runs the same xray in a `VpnService`. This directory holds TLA+
modules of the parts that have state and concurrency, the TLC configurations
that check them, and TLAPS proofs about them. Paths below are relative to `src/`.

## Inventory

| Component | State it keeps | Operations | Interacts by | What must hold |
|---|---|---|---|---|
| xray process manager `app/xray/process.py`, health check `app/xray/health.py` | `_process`, the `Popen`, `_stderr_lines`; the child and the port in the OS | `start()` (spawn, poll + probe, diagnose, retry with backoff), `stop()` | called by the controller and `proxy`; child process, signals, a reader thread per child, the TCP port | no orphan, never two children, the exit code of a crash is reported, calls return |
| connection controller `gui/backend.py` | `_state`, `_xray_mgr`, `_tun`, `_stop_event` | `connect()` in 5 phases, `disconnect()`, `_teardown()` | called by GUI workers on their own threads; callbacks into the page; owns the manager and the TUN | no interleaving loses a live xray; a failed connect undoes itself |
| desktop GUI `gui/main.py` | the current controller, the button's enabled flag and label | click handler, two workers, `on_result()` | client events, threads, `page.run_thread` | nothing is left behind by a controller that is replaced; the button comes back |
| `proxy` command `app/cli.py` | the current `manager` | start, smoke test, supervision loop, Ctrl+C | creates one manager per restart | xray is replaced when it dies, never two, none left at the end |
| destination database `app/destination_db.py` | `verified.json`, `_records` | `load`, `save`, `upsert`, `mark_status`, `add_source` | a file shared by processes without a lock, rewritten in place | a record is lost only to an overlapping command; a torn file has a cause and is never replaced |
| TUN device `app/packet_backend.py`, `app/tun_linux.py` | `_fd` | `start` (open, ioctl, two `ip` commands), `stop` | opened and closed by the controller | the descriptor of a failed start is still closed |
| scan engine `app/scan_engine.py` with IP selection `app/ip_select.py`, health `app/health.py`, failover `app/failover.py`, probes `app/network_tools/` | none of its own; the record it builds, the databases | `scan_hostname`, `summarise`, `failover`, `failover_with_fresh_dns`, `update_database` | network probes that may answer differently each time; two lookups on threads | each verdict stands on something observed; what the filter drops is used nowhere; every call ends |
| DNS resolution `app/network_tools/dns.py` | the backend chosen | `resolve` of either backend, `resolve_dns_a_and_aaaa` | `dig` or dnspython | the merged answer is what both lookups said |
| CDN detection `app/cdn_detect.py`, route engine `app/route_engine.py`, address checks `app/security.py` | the provider table | `detect_cdn`, `decide`, `is_blocked` | called by the scan | names alone make no CDN; a blocked address is never routed |
| cache databases `app/database.py` | SQLite rows with `expires_at` | `put_dns`, `put_tls`, `put_probe`, `get_dns`, `cleanup_expired` | processes sharing the files; the clock | a fresh row is never deleted, an expired one goes, a finished scan is cached, and TLS and probe rows vouch for the DNS rows |
| xray configuration `app/xray/config.py` | none | outbounds, first-match routing rules | read by xray | the tunnel treats an address as the scan calls it |
| Android app `VpnTunService.kt`, `MainActivity.kt`, `index.html` | `running`, `iface`, `xrayProcess`; the page's `state` | `startVpn`, `stopVpn`, service callbacks, the JS bridge | main looper, bridge thread, a pump thread, the activity manager | nothing of the tunnel outlives the service, never two tunnels; the page's word agrees with the service |
| configuration, profiles, validation, metrics, SNI/packet parsers, models, logging, scripts | (metrics: counters under a lock) | pure functions and file reads | – | not stateful enough to model |

What is hard: threads that share a controller whose methods lock nothing but
`_state`; a child that may crash, bind late, or ignore SIGTERM between any two
checks; Ctrl+C at any point; click events still in flight when the button is
disabled; several processes rewriting one file or one
table, each by a clock it read earlier; addresses that come and go between two
probes of one scan. `PROJECT.json` lists each such
place under "hazards" with its line.

## Modules

```
XrayContract            what XrayManager.start() and stop() may answer
  ^        ^        ^
  |        |        +-- ManagedXray          abstract life of one manager
  |        |                ^ refined by
  |        +--------------- XrayManager      (MCXrayManager, XrayManager_proofs)
  |
  +-- ConnectionController                   (MCConnectionController)
  |        ^ extended by
  |        GuiSession                        (MCGuiSession, GuiSession_proofs for both)
  +-- ProxyLoop                              (MCProxyLoop, ProxyLoop_proofs)

DestinationDB                                (MCDestinationDB, DestinationDB_proofs)
AndroidVpn                                   (MCAndroidVpn, AndroidVpn_proofs)

DnsResolution                                one lookup, and the merge of two (DnsResolution_proofs)
  ^    ^ extended by
  |    DnsCache                              (MCDnsCache, DnsCache_proofs)
  +-- Classification                         addresses, CDN, route and score
        ^ extended by
        XrayRouting                          the tunnel's rules
          ^ extended by
          ScanPipeline                       (MCScanPipeline, ScanPipeline_proofs)
```

The contract is what ties the layers together. `XrayManager` models the code of
`process.py` step by step; `ManagedXray` is the abstract specification of a
manager; TLC checks and TLAPS proves that the first implements the second. The
callers' modules then use only `StartOutcomes` and `StopOutcomes`. ok comes with a
child that may be dead already, and "failed" with no live child. An exception
promises nothing: `Popen` raises before there is a child, but `Thread.start()`
(`process.py:42`) and a signal the system refuses (`process.py:86`) raise beside a
live one. A `stop()` that comes back has left no live child. So the composition of
GUI, controller and manager is checked in two halves of manageable size.

**XrayManager.** One `start()`, then any number of `stop()`s, by one thread
(`pc`, `caller`, `attempt`, `rounds`). `child[a]` is the OS's view of the child
of attempt `a`; `returncode` are the attempts whose `Popen` has collected the
exit code, `stderr[a]` says where its last words are, `listener` who owns the
port. `Poll`/`Probe`/`Sleep` are the loop of `wait_ready`, `Diagnose` is
`diagnose_failure` with the `stop()` after it, `Terminate`/`Join`/`JoinTimesOut`
are `XrayProcess.stop`; `SpawnRaises` and `TerminateRaises` are what ends in an
exception. The environment may bind, crash, obey a signal or move a foreign program
onto the port at any time; `Interrupt` is a KeyboardInterrupt inside `start()`.

**ConnectionController.** Threads each run one method on one controller, split at
every access to the object's attributes, as Python may switch between them:
`_teardown()` is `CheckMgr` (`if self._xray_mgr`), `LoadMgr` (the second load, which
may find None, whose `.stop` raises into the `except`), `StopMgr` (the call, on the
manager that was loaded, `held`), `ResetMgr`, and the same four steps for `_tun`.
`stop()` may block for ten seconds between `LoadMgr` and `ResetMgr`; `StopMgr` is the
moment in it at which the child is gone, or at which it raises. `CloseTun` is one
step: `LinuxTunBackend.stop()` closes a descriptor of its own object. `xray` and
`tunfd` are the live children and open descriptors; both are named by the thread
whose connect() made them. `abandoned` is a history variable, the managers whose own
`start()` or `stop()` raised beside a live child: `connect()` and `_teardown()` drop
the reference then without any help of other threads, so the properties about
references are about `Tracked`, the live children but those.

**GuiSession** extends it with the page: `Click` is an event from the client,
`OnButtonClick` the handler, the rest the bodies of the workers and `on_result`.
`MaxClicks` bounds the events in flight: with 1 the client honours the disabled
button at once, with 2 a second click can be on its way.

**ProxyLoop** is `proxy()`; each restart's manager has a number. `abandoned` is as in
`ConnectionController`.

**DestinationDB** runs one command per process on one file. A record is
identified by the process that wrote it. `Save` truncates the file and `Write`
completes it; where two had it open, the result is torn or takes each record
from one of them. `before` and `overlap` are history variables: who had ended,
and who was active, when a process loaded the file.

**AndroidVpn** has four actors: the page (`Toggle`, `OnVpnState`) with the bridge
call it waits for (`bridge`), the main thread in the service (`main`; `OnCreate`,
`OnStartCommand`, `Establish`, `Exec`, `StopVpn`, `OnDestroy`), the pump threads, and
the activity manager (`started`, `bound`, `up`, and the `queue` of callbacks on their
way). Of the platform it takes what Android documents: callbacks come in order on
one looper; a service ends when it is neither started nor bound; a process that
dies takes its children and descriptors with it, and a started START_STICKY service
is created again; and what its implementation does: the system binds a VpnService
in `establish()` and unbinds when the TUN is closed. A permission dialog may outlive
the activity that opened it; its result then goes to the new one (`Reopen`).
`startForeground()` is taken to succeed. On a device that enforces the rules of the app's `targetSdk = 34` it raises
instead, since `AndroidManifest.xml` asks for no FOREGROUND_SERVICE permission and
gives the service no type; the module describes the app where it is let through.

**DnsResolution, Classification, XrayRouting** are operators without state: what
the code computes from an answer section, from an address and from names. An
address is a model value with a registry class and the ranges it lies in; a name
has the provider whose keyword it contains; confidences and scores are in
hundredths. `Exceeds` has the one place where the floating point of the code
differs from that: a sum of 0.25 + 0.30 + 0.30 exceeds the rounded 0.85. Filters are
`Keep`, a fold, rather than `SelectSeq`, whose definition the provers cannot unfold.

**ScanPipeline** is one scan, one action per step of `scan_hostname()` or, where
it loops over addresses, per probe, while `NetworkChanges` brings an address up or
takes one down. `rec`, `health` and `route` are the results, `stored` what is in
`verified.json` (`DestinationDB` has the file itself). Then the health command may
look at the record, and `failover_with_fresh_dns()` may run on it. `steady` and
`heard` are history variables: the addresses that were up all through a call and
those that answered in it. Nothing in the program calls `app/failover.py` but its
tests; it is modelled as the module promises it to be used, on a stored record.

**DnsCache** has processes that each run one scan or one update on the same SQLite
files. A statement with its commit is atomic. `stamp` is the clock a process read
for its next statement; `LockWait` bounds how much later that statement can still
get the database, which for the code is SQLite's timeout of five seconds and
what the scheduler adds. The clock does not go backwards. `due` and `resolved` are
history variables. `Upsert` is only the point at which the record is written: what
becomes of `verified.json`, which loses and tears records, is in `DestinationDB`, and
nothing here is said of rows and records together.

## Runs

| Run | Instance | Shows |
|---|---|---|
| `xray_manager` | 3 attempts (as `proxy` uses), 2 poll rounds, foreign program, Ctrl+C | type, `NoOrphan`, `OneLiveChild`, `CrashHasExitCode`, `CallReturns`, refinement of `ManagedXray` |
| `xray_port` (violation) | the same | `start()` answers ok on a port that another program answered |
| `connection_controller` | 2 controllers, 3 threads | `XrayReachable`, `FailedConnectLeavesNothing` under every overlap of one connect with disconnects, step by step of their teardowns |
| `gui_session` | 4 clicks, 4 controllers, one event in flight | `NothingLeftBehind`, `ReplacedOwnNothing`, `ConnectedOffersDisconnect`, `ButtonComesBack` |
| `double_click` (violation) | 2 clicks, two events in flight | disconnect() returns, the connect() beside it goes on, and with both over the tunnel is up: xray, the TUN, state "connected" |
| `proxy_loop` | 4 managers, 3 smoke tries | `NoXrayLeft`, `OneXray`, `Supervised` |
| `destination_db` | 3 processes, 2 hosts | `LostOnlyToOverlap`, `TornOnlyByAccident`, `UnreadableNotReplaced` |
| `android_vpn` | 3 taps, 1 death of the process | `NoVpnLeftBehind`, `OneTunnel`, `PageSettles`, `ServiceSettles` |
| `android_disconnect` (violation) | the same | a disconnect leaves the TUN and xray |
| `dns_cache` | 3 processes, clock 0..3, a row with and one without a ttl, dnspython | `NoFreshRowDeleted`, `LeftoversAreRecent`, `DoneScanIsCached`, `CachedInOrder` |
| `scan_pipeline` | 6 addresses, 2 providers, dig, 1 change of the network | `ClaimsAreBacked`, `NothingFilteredIsUsed`, `CdnNeedsAddress`, `TunnelAgrees`, `FailoverKeepsTheAnswering`, `CommandsEnd` |
| `scan_best` (violation) | the same, without fairness | the address that is checked and routed is dead although another has answered |

Why the bounds are enough. Three attempts give a retry after a retry and a last
attempt that is neither first nor only; two poll rounds give an event between
two polls. Three threads are a connect and two disconnects that overlap each
other as well; the second controller shows independence. Four clicks connect,
fail, disconnect and connect again. Four managers let a restart fail, the next
succeed and its xray die. Three processes let two overlap while the third has
seen the file before or sees it after. Three taps connect, disconnect and connect
again, or connect thrice before an answer; one death of the process puts a restart
at every point of that. Three cache commands are two scans of one host around an
update, or two updates around a scan; a clock of four values lets a row of either
lifetime expire and be missed by an update that read the clock before. The six
addresses are one per case that the filter, the CDN table, the route and the rules
tell apart, and their answers hold none, an unusable one, one behind it, and two of
different providers; any of them may be up at the start, and one change at any step
separates every two probes (a second would only undo it or concern another
address). The invariants are proved for every value of these constants anyway; what
the bounds carry alone is the liveness.

`CHECK_DEADLOCK FALSE` is set where the system stops: when every thread, click,
manager number or process has been used. `XrayManager` always has a `stop()` to
call and is checked for deadlock.

What two of the properties do and do not say. `ClaimsAreBacked` gives for each
verdict exactly what it stands on. The status "tls_verified" needs a handshake with
the address of the system's resolver, which need not be in the record; the health
level is of the first address only, so "failed" leaves open that another address was
up throughout — that case is the run `scan_best`. `ServiceSettles` says that a
service of the Android app ends or a start of it gets to its end, with a handle on
its xray; a service whose `establish()` returned null counts as started, see below.

Fairness. `XrayManager`: the calling thread runs, a SIGKILLed child exits, the
reader threads run; nothing is assumed of a child that was only sent SIGTERM, nor
of binding — so `CallReturns` rests on the timeouts of the code.
`ConnectionController`, `GuiSession`, `ProxyLoop`: threads and the event loop are
scheduled, and `start()` answers, which is `CallReturns`; no user is obliged to
click. `DestinationDB` states no liveness. `AndroidVpn`: the page, the main thread and
the system's unbinding run; pump threads and users need not. `ScanPipeline`: the
process runs and every lookup and socket has a timeout, so that each step of a
command ends; nothing is assumed of the network or of the user. `DnsCache` states no
liveness.

## Findings

The four violation runs are disagreements between the code and what it says of
itself; `PROJECT.json` quotes both sides. In short: `wait_ready` does not check
whose port it reached (`process.py:61`); `disconnect()` sets a `_stop_event` that
`connect()` never reads (`backend.py:101`); a disconnect of the Android app only
calls `stopService()`, which does not end a VpnService whose TUN is open
(`MainActivity.kt:54`); `rank_candidates()` drops its ranking, so a dead address
may be checked and routed (`ip_select.py:80`).

Others were noticed while modelling. The modules describe the code as it is; no
run is spent on them:

* An exception of `start()` beside a live child leaves an xray nobody can stop: the
  manager is a local variable of `_start_xray()` (`backend.py:157`), and `proxy()`
  does not catch it (`cli.py:383`, `421`). A `stop()` that raises does the same, since
  `_teardown()` resets the reference after the exception (`backend.py:180`). The
  properties name this exception instead of hiding it.
* When `establish()` returns null, since the permission has been withdrawn, the
  service runs xray without a TUN, stays, and turns later starts away because
  `running` is true (`VpnTunService.kt:54`, `69-70`).
* `ip_select.py:4` says "remove private/reserved", but the documentation and
  benchmarking blocks (192.0.2.0/24, 198.18.0.0/15 and others) are neither in
  `PRIVATE_NETWORKS` (`security.py:126`) nor reserved to `_is_reserved()`, though
  private to Python: they pass the filter, are stored, and `decide()` then calls them
  private (`route_engine.py:65`). `NothingFilteredIsUsed` says that these are the only ones.
* A health command that reads `verified.json` while a scan rewrites it fails on half
  of the file (`destination_db.py:27`).
* `on_result` labels the result of a disconnect as a connect (`main.py:89`);
  `ConnectedOffersDisconnect` states the half that holds.
* The supervision loop ignores what a restart answered and prints "Proxy is
  listening." again (`cli.py:421`).
* The Android page is told "connected" before the service has tried, and a failed
  start does not correct it (`MainActivity.kt:72`).
* `tls_ok` is never true: `compute_health()` and `failover()` hand an address to
  `inspect_tls()`, which accepts hostnames only and raises (`health.py:49`,
  `failover.py:36`), so "TCP + TLS" (`failover.py:6`) is TCP. `Score` gets FALSE for
  it, as the code does.
* `retry()` around the TLS inspection never retries: `inspect_tls()` of
  `network_tools/tls.py` catches the `OSError` itself (`tls_inspector.py:59`).
* Two addresses of one family reach the CDN threshold together: two IPv6 matches
  count 0.60, two IPv4 ones 0.30 (`cdn_detect.py:203`).
* The block rule for 10.10.34.0/24 comes after `geoip:private` and never matches it
  (`config.py:262`); the last rule, which "should never be reached", is reached by
  what has no address to match (`config.py:276`).
* A scan of a host without a usable address raises after all its probes and
  stores nothing (`scan_engine.py:94`).
* AAAA rows are cached under the A answer's ttl (`dns.py:203`).
* `failover_with_fresh_dns()` does not filter the fresh answer, so a record may get
  a private address back (`failover.py:94`).
* The dashboard shows the counters of its own process, which has measured nothing
  (`cli.py:488`).

## Proofs

Every theorem is `Spec => []P` (or a refinement) for all values of the
constants, from the named assumptions in the modules. Each proof module has an
inductive invariant, `IInv`, which TLC was run on first. All the invariants and
action properties of the passing runs are proved.

* `XrayManager_proofs`: `NoOrphan` and `OneLiveChild` are not inductive: they say
  nothing while `start()` runs. `ChildInv` adds that only the child of the current
  attempt can be live, that later attempts are `absent`, and at which `pc` it may
  still be. `ReportInv` relates `returncode` and `diag` to the child, for
  `CrashHasExitCode`. `Refinement` maps `pc` to the abstract `call` and the
  children to `live`: each step is an abstract step or a stutter.
* `GuiSession_proofs`, first part, on `ConnectionController`: `CallInv` fixes which
  threads run on which controller (one connect each) and `MgrInv` says that the
  only manager ever published on a controller is that of its connect, and when it
  can be live. What makes the unlocked teardown harmless is in it too: whoever is
  between the check and the reset has found the manager of a connect() that is past
  its last assignment, so that no new one can appear in between, and at the reset
  that one is stopped or abandoned. From this `XrayReachable` follows, and with
  `TunInv`, the same for the TUN of a connect() that is alone,
  `FailedConnectLeavesNothing`.
* `GuiSession_proofs`, second part, on `GuiSession`: the type invariant holds for any
  number of clicks on their way. The rest is proved under `OneClickAtATime`
  (`MaxClicks = 1`, as in the run `gui_session`), since it is the disabled button
  that keeps two workers apart; with `MaxClicks = 2` TLC finds each of these
  invariants violated, by the interleavings of `double_click`. `WorkerInv` says that
  one worker runs at a time, `CurrentInv` that the worker
  works on the current controller and that a controller without a call is as
  `__init__()` left it, `TunnelInv` what each step of `_teardown()` has already
  dealt with, and `ButtonInv` that a connected state is under "Disconnect" or has
  a result on its way. `PageUsesControllersAsIntended` composes the halves: the
  page makes only calls that `ConnectionController` allows, so its theorems hold of
  the page's controllers (`ControllersBehindThePage`). `DisconnectTearsDownHolds` is
  the other side of the run `double_click`: with one click at a time, a disconnect()
  leaves no TUN and no tracked xray (`DisconnectLeavesNothing`), so no tunnel is up.
* `ProxyLoop_proofs`: `OneXray` with what each `pc` implies about the current
  manager's child.
* `DestinationDB_proofs`: `LostOnlyToOverlap` speaks of the file, but a lost update
  is prepared in a process's memory. `KnowsInv` says a process that loaded after p
  ended has p's record or a newer one, `SepInv` that of two processes one
  overlapped or preceded the other — for the rivals of a writer too — and
  `SourceInv` that records name only processes that saved one.
  `UnreadableNotReplacedHolds` is a temporal property, by the stability of
  "torn and nobody at work".
* `AndroidVpn_proofs`: `NoVpnLeftBehind` rests on the order of the callbacks on
  their way. `Leads` says that the queue leads from the service there is now (`alive`)
  to the one the activity manager knows (`up`), creating only what does not exist
  by then; so no `onCreate()` meets a running service and no start command an absent
  one. `FieldsInv` then says that what is open or alive is what the fields `iface`
  and `xrayProcess` name, that a service that is not running names nothing, and
  that while `exec()` is to come no xray is named yet, which gives `OneTunnel`. `CountInv`
  bounds the attempts: each goes back to a tap or to the death of a process, counted over the
  dialog, the bridge and the start commands in the queue. `PageInv` carries
  `PageSettles`.
* `DnsResolution_proofs` has the lemmas about sequences of any length: what `Keep()`
  and `Dedup()` leave, and that either backend and the merge return addresses for
  addresses (`ResolveProperties`, `MergeProperties`). These are inductions over data.
  The library's induction theorems take a predicate as a parameter and cannot be
  used; here induction is stated for a set of numbers (`Induction`), and a fold is
  unfolded to the recursive function that its definition chooses, whose existence
  `FoldExists` proves.
* `DnsCache_proofs`: `ClockRead` (no stamp lies ahead of the clock) carries
  `NoFreshRowDeleted`; `ResolvedInv` (every key a scan resolved is still to be put,
  in the table, or past its time) carries `DoneScanIsCached`, with `RowsAreDue` for
  the deletions; `LastInv` (a scan whose TLS or probe row is in the table resolves
  nothing any more) carries `CachedInOrder`. `LeftoversAreRecent` is inductive
  beside them. All its steps that touch no row go through one lemma, `QuietStep`. The type of a lookup is `LookupsType`, from `DnsResolution_proofs`.
* `ScanPipeline_proofs`: first what the scan computes. `DetectProperties`: for any
  table, `detect_cdn()` finds a provider whose confidence no other exceeds;
  `ConfidenceBounds`: names alone give at most 0.40; `LevelProperties`: the level is
  "failed" exactly when TCP failed; `OutboundProperties`: the outbound of every
  address. Then the scan. `ClaimsAreBacked` and `FailoverKeepsTheAnswering` need the loops:
  `RankInv` and `FailoverInv` say that an address that was up all the time is still to
  be probed or has answered, and that what is ranked has answered. `CdnInv` and
  `RecordInv` say that the detection and the record belong to the answer that is
  still there, `RouteInv` that the route was decided on a usable address,
  `ClaimInv` what a status and a level say, kept while `heard` grows and `steady`
  shrinks. `SectionsAssumption` is the one thing it takes of the network: an A or
  AAAA record holds an address.

Only model-checked: liveness (`CallReturns`, `ButtonComesBack`,
`Supervised`, `ServiceSettles`, `CommandsEnd`), since TLAPS does not handle fairness
and ENABLED here; and the four violation runs, which are counterexamples.

## Plan

Done in this order, by weight in the system: the manager and its contract, the
controller, the GUI, the proxy loop, the destination database, the Android app,
the caches, the scan with what it computes, and proofs of every safety property.
Left:

1. An abstract `TunnelLifecycle` that both `GuiSession` (with one click at a time)
   and `ProxyLoop` implement, and the proof that they do.
2. The exact order of `Keep()` and `Dedup()` and the least ttl of `Dig()` as lemmas, for a
   proof of what each merged row is cached for.
3. What still holds with two clicks on their way: `FailedConnectLeavesNothing` does
   on the instance of `double_click`, where the proof of it, which takes one
   connect() for each controller, does not apply.

## Not modelled

Sockets, subprocesses, X.509, HTML and JSON text, logging, argument parsing and
console output: they have no state the properties depend on. Packet capture
backends (WinDivert, PCAP) have no caller. The DNS section and the inbounds of the
xray configuration are a document. `metrics.py` has counters that no decision reads;
`dns_status()`, `get_tls()` and `get_probe()` have no caller; the SNI and packet
parsers have no state. The stub CDN files of `update` are left out: a list that is
empty reads as one that is missing. `_stop_event` is left out of
`ConnectionController` because nothing waits on it. Timing is abstracted to the
number of poll rounds; a timeout may strike whenever its condition allows.
