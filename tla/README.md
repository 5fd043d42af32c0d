# Verification of IQSOFT Firewall OS

TLA+ specifications of the Rust service in `src/iqsoft-firewall`, the runs that
model-check them and the theorems that TLAPS proves about them.

The service is an HTTP server over SQLite. An administrator edits tables (rules,
NAT, addresses, DNS, DHCP, routes, VPN, filters) and then *commits*: the tables
are rendered, checked and handed to `nft`, `dnsmasq`, `ip` or `wg`, and a copy is
kept under `config-history/` for the next boot and for one rollback. A mistake in
a firewall ruleset can lock its author out, so the project begins with what
guards against that: the guarded commit, its rollback and their files. The other
commits, what may get into the tables, who may edit them, and what the ruleset and the
SNI filter then do to connections follow.

## 1. Inventory

| Part | State it keeps | Operations | What is hard | What makes it correct |
|---|---|---|---|---|
| Confirmation window, `firewall/safe_commit.rs` | `pending` (mutex), `counter`, sleeping expire tasks, `pending-confirm.txt` | commit, expire, confirm, rollback, recover on boot | handlers, timers and boot race; two mutexes; crashes and dropped handlers at every await | an unconfirmed commit is undone, a confirmed one never is, also across a restart; the undo target does not move while the window is open |
| Firewall commit, `firewall/commit.rs` | kernel ruleset, four files each of `current.*` and `previous.*`, `commit_lock` | commit, rollback, restore on boot | eight file writes, three transactions and `nft` with no common transaction; edits do not take the lock | a success survives a reboot; snapshots belong to their ruleset; `previous.*` is whole before `current.*` is touched |
| Generator, `firewall/generator.rs` | none | render the ruleset from eleven tables | it reads them one after the other; order of chains | nothing opens that nobody asked for, the firewall stays reachable, NAT and filter agree |
| Rules, port forwards, 1:1 NAT (`services`, `repository`, `api`) | one table each | add, update, delete, move, replace all | check and write are separate awaits | no overlapping forwards, no dangling address names |
| Address book | objects, groups, members | add, update, delete, replace all | names are unique over two tables; rules refer to them by name | no rule names an object that is not there |
| DNS and DHCP, `dns/`, `dhcp/` | `dnsmasq.d/*.conf`, `current.*`, `previous.*` | commit, rollback | one service for both; restoring after a failed restart | a failure leaves the old configuration in force |
| Static routes, `routing/` | kernel routes, `current.routes.json` | commit, rollback, restore on boot | a batch stops at its first error; removals are computed from a file | no route outlives its commit |
| WireGuard, `wireguard/` | interface, peers, routes, snapshots | commit, rollback, restore on boot, peers | a fallback that is the same partial operation again | the tunnel is the old one or the new one |
| Login and sessions, `services/auth_service.rs`, `login_throttle.rs` | failures per address, sessions | login, logout, change password | check, verify, count are three steps | five failures lock an address; a password change ends older sessions |
| SNI filter, `sni/` | flow table, byte collectors | one step per packet | reordered, overlapping, wrapping segments; eviction | one verdict per flow, independent of segment order |
| DNS filter and GeoIP lists | lists, settings | import, refresh | batches | an import is all or nothing |
| Audit trail | one table | record, query | errors are only logged | nothing else depends on it |
| Monitoring, health, schema | none | read and format | - | - |

They meet in `AppState`: `SafeCommit` calls `FirewallCommit` with `pending` locked;
every commit takes `commit_lock`; `main` restores the firewall, routes and WireGuard and
then recovers the window before it serves. `PROJECT.json` lists each part with its
sources and status, and each hazard at its line.

## 2. Plan

1. Done, with proofs: `ConfigHistory`, `FirewallCommit`, `ConfirmWindow`, `SafeCommit`,
   `Dnsmasq`, `RouteCommit`.
2. Done, with proofs: `WireguardCommit` (`apply_state` and its fallback), `TableChecks` and
   `TableEdits` (what may get into nine tables), `Access`, `SniFilter`, `AddressBook` (objects,
   groups and the rules that name them), `Ruleset` (what the chains do to connections).
3. Later: how an SNI policy and the DNS filter are put together from rules and lists, and
   that they agree; an abstract specification of all commits, "an error leaves what was
   live", refined where it holds; IPv6 in `Ruleset`.

## 3. Modules

`ConfigHistory` (abstract) has three rulesets, `live` (kernel), `saved`
(`current.nft`) and `previous` (`previous.nft`), and `phase`, how far the holder of
`commit_lock` is. One action per ruleset that is written, plus giving up, tearing a
file, power loss and boot.

`FirewallCommit` is `commit.rs` call by call. `at` is the point of the one
operation that holds `commit_lock`, `n` its index in an unrolled sequence of calls
(`ReadOrder`, `TableOrder`, `FileOrder`). A ruleset is named by the table contents it
was generated from, so `kernel["rules"]` is what the loaded ruleset has for rules.
`addresses` stands for every table that is read for the ruleset and has no snapshot.
`Edit` is any rule, port forward, NAT or address handler and takes no lock. `Cancel` drops the
handler at the database awaits, `WriteFails` and `Crash` leave the file being written
untouched or cut short, `Refuse` is every error before `nft --check` has passed.
Steps of the code without an await between them are still separate, because a crash
can separate them. The ruleset is `Torn` when a truncated script was loaded.

| Point `at` | `commit.rs` | Point `at` | `commit.rs` |
|---|---|---|---|
| generate | 36-45 | validate | 220-245 |
| snapshot | 47-63 | parse | 247-267 |
| check, backup | 65-98 | sync | 269-288 |
| apply, save | 100-116 | resave | 290-293 |
| forward | 118-139 | boot | 142-177 |

`ConfirmWindow` (abstract) adds `window` (closed, open, ending) to `ConfigHistory`:
rulesets do not change while it is open, apart from a reboot reloading `saved`, and it
closes only by a confirmation or by the beginning of a rollback.

`SafeCommit` is `safe_commit.rs` with `main`'s boot sequence: requests, the
expire task and boot are tasks with a program counter and two mutexes. What
`FirewallCommit` does under `commit_lock` is a step of `ConfigHistory`. Timers fire
at any moment, and boot finds any part of the window left, which covers every value of
`confirm_within` and every clock. `armed` holds the ids of the expire tasks still
asleep; expiry with an id that is not `pending` is the code's `is_current` test.
`Disconnect` drops a handler where it can be waiting: at the mutexes and at the
database. `OtherLock` is a DNS, DHCP, route or WireGuard commit.

`Dnsmasq` is `dns/commit.rs` and `dhcp/commit.rs`, which are the same program but for
`apply_service`: DNS always restarts dnsmasq, DHCP stops it when it is disabled. The one
operation that holds `commit_lock` is `op` of `server`; `conf` are the two live files
and `loaded` what dnsmasq read of both when it started. A file is named by the
configuration it was rendered from. `ServiceFails` is dnsmasq rejecting the new
files, or dying within the 700 ms, which a new configuration may do at any time;
a failed systemctl of a service that ran before, a failed write, a dropped handler
and a crash are mishaps. A dropped handler releases `commit_lock`, but its systemctl, an
`orphan`, runs on and restarts or stops dnsmasq during the next operation or after it
(`OrphanEnds`), with the files it finds there; while one restarts, any other may fail
without a mishap of its own. Both restore paths ignore their errors
(`let _ =`), so `Restore` and `Restart` have a failing disjunct that goes on.

| Point `at` | `dns/commit.rs` | `dhcp/commit.rs` |
|---|---|---|
| check | 27-61, 102-119 | 27-70, 111-128 |
| apply, verify | 175-209 | 184-223 |
| restore, restart | 63-72 | 72-81 |
| save | 74-81 | 83-90 |
| sync, resave | 125-135 | 134-144 |

`RouteCommit` is `routing/commit.rs`. A list of routes is the function from destination
and metric to gateway and interface that `RouteGenerator::applicable` makes of it.
`batch` holds the lines that the running `ip -batch` has not come to; `RunLine` and `LineFails`
take any of them, because ids and metrics, which order the script, are free. Only the
first batch runs without `-force`. A dropped handler does not stop its `ip`: the rest of
the lines become the `orphan`. A route can be refused at any time; a removal
fails if the route is not there, or by a counted fault. Renamed files are never
torn, copied ones may be.

| Point `at` | `routing/commit.rs` |
|---|---|
| check | 17-36, 74-93 |
| apply | 38, 95 |
| revert, cleanup | 43, 100, 152-161 |
| remove | 55-57, 111-113 |
| save | 59-64 |
| sync, resave | 115-124 |
| boot | 132-150 |

`WireguardCommit` is `wireguard/commit.rs`. A kernel interface is what `ip` and `wg` have
set of it so far, built by the commands of `bring_up` one by one; `Commands` is the script
that `apply_state` follows: remove the old interface if its name changed or if it must be
rebuilt, then either sync (`wg syncconf`, routes) or bring up. `Undo` is the fallback of a
failed commit, the same script towards the old snapshot; `Cleanup` takes a half-built interface
down. A dropped handler leaves its last command running (`OrphanEnds`).

| Point `at` | `wireguard/commit.rs` |
|---|---|
| check | 27-48, 93-105 |
| plan, old, new, cleanup | 166-233, 386-397 |
| sync, reroute, unroute | 202-216, 300-335 |
| add, conf, address, up, route | 237-269 |
| applied, and again plan with `back` | 50-66, 107-119 |
| backup, save | 68-78 |
| table, resave | 124-139 |

`TableChecks` has, as operators, what nine services accept of one row, which two rows they
refuse side by side, which the database refuses (`Duplicate`), how rows must fit their
configuration and which rows the generators write (`Served`). The destination of a route is a
network and one of its spellings, since the checks compare text and the generator networks.
`TableEdits` runs the handlers of one of these tables beside each other. A handler is at most
three queries: the configuration (DHCP and WireGuard), the rows, the write; what it was asked
for is chosen at the second, where it first matters. Add, update and set_config are one action
each up to the write, which may fail on a UNIQUE column or a missing row. A commit's snapshot is
two reads; `Rollback` is `replace_all` with the old ids.

`AddressBook` has objects, groups and rules. A handler is the list of its queries (`Checks`,
extended by `UpdateChecks` once it knows the old row and the new version), each a step, and one
write. `name_in_use` is one SQL query over both tables and so one step; the end of a rule is
looked up in two, the object and then the group. Foreign keys and UNIQUE columns are guards of
the writes. `Emitted` and `Target` are what the generator makes of a rule and of a name.

`Access` has the throttle's table, the password, the sessions, and handlers that take one step
per query or per call of the throttle. The mutex of the throttle is held within a call
only, so a call is a step. A client may leave at any await (`Abandon`), also while the password
is verified on a thread of its own: that try is then not counted. Times are ages and
remainders.

`SniFilter` has the engine's flow table and clock, and a server that gets what was
accepted. A packet is one step, as it is for the one thread that reads the queue. Sizes are
in cells; sequence numbers wrap at 2^4. `Segments` are cut anywhere, come in any order,
any number of times, and may be foreign. A SYN has any number and may carry data; its own or
not, it starts the collection over from its number. `excused` are the connections that the
engine has lost sight of: every way to get there is an action, and the comment of `BlockedStaysOut`
lists them. The connection's own SYN, before the server has any of its bytes, ends that.

`Ruleset` has, for each configuration, the chains that `FirewallGenerator` writes, in its order,
as sequences of lines (`generate`), and the kernel: the first matching line of a chain decides,
NAT before filter on the way in and after it on the way out, and connections survive a commit.
With the SNI filter on, FORWARD begins with its lines (`SniLines`): UDP to port 443 is dropped,
if QUIC is to be, and TCP to port 443 goes to a queue with `bypass`, which accepts, since
nothing reads it. A rule of another chain is a line that matches nothing in `Chain`, so that
line and rule have the same number; the code writes no line. `meets` stands for the MAC address,
source port, hours and rate a line asks for. `Zone` is what the import of a country list keeps.

| Operator | `firewall/generator.rs` | Operator | `firewall/generator.rs` |
|---|---|---|---|
| Input | 153-173 | SelfProtection | 627-700 |
| Forward, SniLines | 174-198, 466-483 | PortForwardAccepts | 702-771 |
| Output | 199-211 | Prerouting, Postrouting | 786-900 |
| GeoipRules | 297-334 | RuleLine, Chain | 903-1143 |

The modules of the edits and those of the commits meet in their tables: `Edit` of a commit
module is any write of `TableEdits` or `AddressBook`, whose `Commit` and `Rollback` are
what a commit does to the tables.

History variables, which the code does not have: `stale`, `doubt` in `TableEdits`, `stale`,
`sound` and the saved book in `AddressBook`, `guesses`, `stale` and `lapsed` in `Access`,
`excused` in `SniFilter`; `before`, `synced`, `alone` and `edited` in `RouteCommit`; `before`,
`served`, `alone` and `mixed` in `Dnsmasq`; `dirty` and `mixed` in `FirewallCommit`; `base`
(what was live before the last commit), `promise` (what the administrator was told) and
`interrupted` in `SafeCommit`. No guard reads them.

## 4. Runs

| Run | Asks | Bounds |
|---|---|---|
| `FirewallCommit` | `SuccessIsSaved`, `HistoryCoherent`, `TablesFollowKernel`, refinement of `ConfigHistory` | two contents per table, 2 edits, 1 fault, 1 crash; any number of commits and rollbacks |
| `SafeCommit` | `PendingDurable`, `ConfirmedSticks`, `PromiseKept` | 2 rulesets, 2 requests at a time, 2 windows between restarts, 1 fault, 1 disconnect, 1 restart |
| `SafeCommitFair` | `WindowCloses`, `Answered`, refinement of `ConfirmWindow` | the same with 1 window, 1 restart, no faults or disconnects |
| `Dnsmasq` | `SuccessIsLive`, `UndoReachesLive`, `FailureRestores` | an enabled and a disabled configuration, 2 edits, 2 mishaps of any kind (error, dropped handler, crash); any number of commits and rollbacks of both servers |
| `RouteCommit` | `SuccessIsLive`, `KernelIsCurrent` | two destinations, two hops, 2 edits (of the whole table), 1 fault, 1 disconnect, 1 crash; any number of commits, rollbacks and refused routes |
| `WireguardCommit` | type, `SuccessIsLive`, `FailureRestores`, `UndoReachesLive` | two edits of the tunnel's configuration, two mishaps of any kind; any number of commits and rollbacks |
| `TableEdits` | type, `NoHiddenCollision`, `RowsFitConfig`, `ServedIsAccepted` | one table at a time, two handlers, two or three values per column, two spellings of a network, 3 writes (2 for peers, reservations and routes), one snapshot; any number of deletions and rollbacks |
| `AddressBook` | type, `OneBook`, `RulesInForce`, `RulesKeepTarget` | two handlers, 3 names, 2 IP versions, 2 objects, 1 group, 1 rule, 2 writes, from every sound book of that size |
| `SniFilter` | type, `FlowsBounded`, `BlockedStaysOut`, `AllowedStaysIn` | two connections, room for one flow, 4 packets, buffer of 2 cells, hellos of 1, 2 and 3, the filter off or on, sequence numbers from 0 and across the wrap |
| `Access` | type, `GuessesBounded`, `LockHolds`, `OldSessionsEnd` | two handlers, addresses, passwords and sessions, 2 failures, table limit 1; any number of requests, restarts, clients that leave and ticks |
| `Ruleset` | type, `OpensOnlyWhatIsAsked`, `NatDelivers`, `OwnServicesAnswer`, `ConnectionsGoOn` | 81 configurations, three of them with the SNI filter on, 7 hosts on all sides, 7 ports, every first packet, one connection |
| `LostByRestart` | `PromiseSurvives`: violated | 1 window, 1 restart |

Why the bounds are enough to be interesting. Two contents tell a table from its
earlier self; two edits put one between the two reads of a commit and one after it. Two
requests are one that holds a mutex and one that waits for it, beside the timer and
boot; two windows are a stale timer and a newer window; one fault, disconnect or restart
can fall at every step, and the proofs lift the bounds.

`TableEdits`: a collision needs two writes, a hidden one a third that changes a row that was
there; every column has a value for each of two rows and one more where the third decides
(`Writes` gives the three widest tables one write less, and the rollback restores rows that were
deleted or changed in between without using one up). `AddressBook`: the initial book is any that
sound handlers leave, so that two writes are two more steps of a history of any length; 3 names
are those of two objects and one group, or one that is free. States after a stale write are not
continued (`WhileSound`): the properties promise nothing there. `Access`: the counters are ages,
so nothing but the constants bounds it; two failures tell "at the limit" from "below it", the
table limit of 1 makes every second address sweep. `SniFilter`: a hello of two cells has two
orders, one that is longer than the buffer tests the cut; 4 packets are a SYN, the two halves
and a repetition, or a foreign SYN before these. `Dnsmasq`: two mishaps are an orphan and a
second one beside it, or an error beside it. `Ruleset`: the configurations combine everything
that two blocks of a chain could disagree on; connections do not interact, so one is enough. One
of the networks pasted for a country is the firewall's own, one lies around private space.

No deadlock is reported in any run: some request can always arrive.

To keep the runs short, what TLAPS proves for every value of the constants is not checked again
where another property of the run implies most of it: the type invariants of `SafeCommit`,
`FirewallCommit`, `Dnsmasq` and `RouteCommit`, `UndoTarget`, `WindowFrozen`, `TimerOwnsPending`,
`HistoryCoherent` and `LiveIsCurrent` of `Dnsmasq`, `UndoReachesLive` and `TableIsCurrent` of
`RouteCommit`. Each can be added to its .cfg. So can `PromiseResolved`, which is liveness and
not proved: it is `WindowCloses` together with `PromiseKept`.

Fairness (`SafeCommitFair`). Weak for steps a running thread takes by itself (file,
`nft` and SQLite calls return, other commits release the lock), strong for taking a
mutex, because tokio's are first come, first served, and for the expire task, which
sleeps and then takes one. Requests, faults, disconnects and crashes have none.

## 5. What the runs show against the code's own words

- `LostByRestart`: expiry, rollback and boot recovery delete `pending-confirm.txt`
  before they begin the rollback. A crash in between loses the rollback for good,
  although the commit answered "Automatic rollback in {} seconds unless confirmed".
  A client that drops out of `POST /api/rollback` while it waits for `commit_lock` does
  the same; `interrupted` in `PromiseKept` is exactly this gap.

The following are stated in the modules as well, under the same heading, and fail; none has a
run of its own. To see the counterexample, put the name in the .cfg of its module's run,
in the place of the others.

- `FirstPromiseKept` (`SafeCommit`, with MaxFaults = 0): the first guarded commit of a
  machine promises a rollback without having anything to roll back to.
- `RollbackSyncsTables` (`FirewallCommit`): the ruleset and its snapshots come from two reads;
  an edit between them is in one and not the other, and a later rollback reports success
  with kernel and database different. `mixed` in `HistoryCoherent` is this gap.
- `RollbackRestoresAddresses` (`FirewallCommit`): the address book has a `replace_all` "used to
  restore a snapshot on rollback" that nothing calls.
- `DhcpFailureKeepsDns` (`Dnsmasq`): undoing a DHCP commit over a disabled DHCP file stops
  dnsmasq, and DNS with it, under the message "previous configuration restored".
- `RestoredMeansRestored` (`RouteCommit`): undoing a failed route commit ignores the result of
  removing the attempted routes and reports "previous routes restored". The exemption of
  `KernelIsCurrent` for "restored" with a fault is exactly this gap.
- `SuccessMeansUp` (`WireguardCommit`): a handler dropped while a rollback rebuilds the
  interface leaves it without an address; every retry takes `current.wireguard.json` for
  what is live, only syncs keys, and answers "interface is up".
- `SharedNamespace` (`AddressBook`): "objects and groups share one namespace", but two
  handlers that add one name to both tables at once both succeed. `sound` in `OneBook` is this gap.

- `AllAcceptedAreServed` (`TableEdits`): two routes to one network, spelled in two ways, pass the
  check for duplicates (`services/route_service.rs:235-258`), which compares text; the
  generator compares networks (`routing/generator.rs:34-42`) and leaves one of them out, with
  nothing but a warning in the log.

Also met, in the edits: two port forwards added at once may overlap, two peers may get one free
address (`doubt` in `NoHiddenCollision`); the generators leave the later of two such peers
out, and with it a tunnel that its owner was told is there.

Also met, in the SNI filter: `main` starts no thread that reads the queue, so that the module
describes code that is complete and tested, but not running. Until it runs, to switch the
filter on opens what a rule forbids: forwarded TCP to port 443 is accepted ahead of the country
blocks and of all rules, because the queue is bypassed (`firewall/generator.rs:475-478`). With QUIC
shut, a commit cuts connections that were established, and drops UDP to port 443 that a port
forward or a 1:1 NAT had let in; `ConnectionsGoOn`, `NatDelivers` and `OpensOnlyWhatIsAsked` say so.
Once it runs: any SYN of a connection, also one that the server will ignore, moves the number from
which the engine collects (`sni/engine.rs:180-190`); the hello then falls outside and passes
unjudged. So may one whose flow was evicted or swept, and one in a fragment or through a full
queue; one that takes more than `MAX_DATA_PACKETS` packets counts as malformed. All of these are
`excused`.

Also met, in the logins: the throttle counts a failure after the password was verified
(`api/auth.rs:108`, `:123`), so when a client leaves before its answer, the password was tried and
nobody counts it, any number of times. `GuessesBounded` is about failures that were answered. A
wrong current password in a change of the password is not counted
by the throttle, so whoever holds a session may try as often as he likes; `GuessesBounded` is about
logins. And five failures in a quarter of an hour is not what the throttle holds an address to:
logins let in before a lock outlast it and count in the windows around its end, and a lock that
runs out takes with it what was counted since, so three windows, not quite full, can fall into
the time of one, beside what is in flight. With 3 failures and five handlers TLC finds all 10.

Also met, in the route commits: after a crash between the batch and `current.routes.json`,
or beside an orphaned `ip`, the kernel has routes that no later commit knows of;
`synced` and `alone` are this gap. `SuccessIsLive` does not need `synced`: the saved
routes are always set, only leftovers may stay.

Also met, in the dnsmasq commits. After a DHCP commit that stopped dnsmasq and answered ok, the
orphaned restart of a DNS commit whose client left starts it again; `alone` in `SuccessIsLive`
is this gap, and without it TLC finds the property violated. The first commit of a server has no
file to put back, so a rejected one stays live under the same message; `before # Absent` in
`FailureRestores` is this gap. A DHCP commit with `enabled = false` stops DNS as well, and the
next DNS commit brings it back. A rollback that dnsmasq does not start with is only reported.
Rolling DNS back does not bring back the filter lists and DHCP reservations that its file was
rendered from.

Also met: `current.nft` is written in place. A crash in the middle leaves it torn, the
next commit copies the torn file to `previous.nft`, and that commit cannot be rolled back.
`PromiseKept` therefore speaks of commits over a whole `current.nft` (`base \in Configs`).

## 6. Proofs

`SafeCommitProofs`, `FirewallProofs` (`FirewallCommit` and `AddressBook`), `DnsmasqProofs`,
`RouteCommitProofs`, `WireguardCommitProofs`, `TableEditsProofs`, `AccessProofs` and
`PacketProofs` (`SniFilter` and `Ruleset`) prove, for every value of the constants that
satisfies the named assumptions:

- `TypeCorrect` in each, `BookTypeCorrect` and `RulesetTypeCorrect`;
- `SafeCommit`: `TimerOwnsPendingHolds`, `PendingDurableHolds`, `ConfirmedSticksHolds`,
  `PromiseKeptHolds`;
- `FirewallCommit`: `SuccessIsSavedHolds`, `HistoryCoherentHolds`, `TablesFollowKernelHolds`;
- `Dnsmasq`: `SuccessIsLiveHolds`, `HistoryCoherentHolds`, `UndoReachesLiveHolds`,
  `FailureRestoresHolds`, `LiveIsCurrentHolds`;
- `RouteCommit`: `SuccessIsLiveHolds`, `KernelIsCurrentHolds`, `UndoReachesLiveHolds`,
  `TableIsCurrentHolds`;
- `WireguardCommit`: `SuccessIsLiveHolds`, `FailureRestoresHolds`, `UndoReachesLiveHolds`;
- `TableEdits`: `NoHiddenCollisionHolds`, `RowsFitConfigHolds`, `ServedIsAcceptedHolds`;
- `AddressBook`: `BookIsOne`, `BookKeepsRules` and the action property `BookKeepsTargets`;
- `Ruleset`: `ConnectionsGoOnHolds` and the action properties `OpensOnlyWhatIsAskedHolds`,
  `OwnServicesAnswerHolds`, `NatDeliversHolds`;
- `SniFilter`: `FlowsBoundedHolds`, `BlockedStaysOutHolds`, `AllowedStaysInHolds`;
- `Access`: `OldSessionsEndHolds`, `GuessesBoundedHolds` and the action property `LockHoldsAlways`;
- the action properties `WindowFrozenHolds` and `UndoTargetHolds`;
- `HistoryImplemented`: `FirewallCommit` implements `ConfigHistory`;
- `WindowImplemented`: `SafeCommit` implements `ConfirmWindow`, if no file operation or
  command fails (`MaxFaults = 0`, as in the run: after a failed removal of the pending
  file the window is "open" on disk and closed in memory).

Assumptions: special values differ from each other and from contents (`FirewallAssumption`,
`DnsmasqAssumption`, `RouteAssumption`, `WireguardAssumption`, `ValuesAssumption`,
`TasksAssumption`, `AccessAssumption`, `EditsAssumption`, `ChecksAssumption`), bounds are
naturals (`BoundsAssumption`); the buffer of the SNI filter is at most half of the sequence
space (`SniAssumption`: 32 KiB of 4 GiB); the throttle's limits are positive, at least one
failure is let pass, and its window is no longer than a lockout, as in the code, and the
handlers finitely many; every host is a network. `BookAssumption`: names, IP versions and what
stands for none or any are told apart, and what requests ask for has fields of their types.
`RulesetAssumption`: an address is inside, in the tunnel, outside or the firewall's own; the
resolvers are outside; a configuration has fields of their types and no forward has an empty
range (the checks of the port forwards). `NatDeliversHolds` has a hypothesis more, `NatIsClear`:
no port is forwarded twice and no address mapped twice. The second is two UNIQUE columns; the
first is what `NoHiddenCollision` says of the table of port forwards, unless a check was out of
date. None bounds the number of requests, tables' contents, windows or failures.

The arguments. In `SafeCommit` the properties are not inductive, because they do not say who is
where. `IInv` adds `PointsInv` (which points a kind of task can be at), `LockInv` (a task past a
mutex's await is its holder, hence alone there), `WindowInv` (a pending id is the newest and
armed), `FileInv` (the file and memory differ only at the points between the two), `PhaseInv`
(`phase` is idle unless the holder of `commit_lock` is in it) and `PromiseInv` and `TargetInv`
(while a promise is open, `previous` is `base`). In `FirewallCommit`, `IInv` says what the
locals and files hold at each point: `IndexInv`, `ReadInv` (the inputs read so far), `BackupInv`
and `SaveInv` (the files written so far), `RollbackInv`, `CoherenceInv` and `ResultInv`.
`Dnsmasq` has two layers: `IInv` (`PlaceInv`, `ServiceInv`, `AloneInv`, `FileInv`) holds under
every failure; `QuietInv` holds while only configurations fail, and says what the operation
under way has not yet replaced: `LiveInv` ties the live files to `current.*`, `BackupInv` ties
the backup and `previous.*` to what was live before. The second is inductive relative to the
first. With an orphan about, `ServiceInv` knows only that dnsmasq has the present files or does
not run; what the operation meant of the two needs `alone`, and `AloneInv` says that who began
alone stays alone. `RouteCommit` follows the lines: `SetInv` says that a route to be set whose
line has left `batch` is in the kernel, `GoneInv` that one to be removed has gone, if `synced`;
at the end `batch` is empty and the two make the kernel equal to the new list.

`WireguardCommit` goes command by command: `LinkInv` says how complete the target's interface is
at each point of `bring_up` and of the sync, whether or not `current.*` was right; `SyncedInv`,
if it was, that there is no other interface, and that an operation that rebuilds on the way
forward has another address than the one before (`~Same`): that is why the way back never syncs
an interface that only the failed attempt has touched. `TableEdits`: a handler whose check is
not out of date still has what it checked (`TaskInv` with `Checked`), a snapshot is as good as
the table was (`SavedInv`), and what a write changes is said once for all tables (`Placed`,
`Removed`). `ServedPeers`, the pass of the generator over the peers, is the set that contains a
peer exactly if nothing in it is in the peer's way; that there is one (`TakenEver`) and no other
(`ServedPeersOnly`) are inductions over the ids, done with a smallest id that the pass does not
get to or that two such sets differ at. For the routes, `FirstServed` finds the first of those
to one network, which is served, and the check of spellings leaves no other that is spelled like
it. `Access`: `CountInv` says that an address at the limit stays locked for as long as its
window lasts, and that only the logins in flight can still be counted against it (a login whose
client leaves only takes one away); `LoginInv` that a login holding an old password is marked.
`GuessInv` says where the guesses of the last `Window` are counted: those as young as the
entry's window are its failures or still in flight (`WindowBound`); without a lock, what is
older came from at most two windows that did not fill (`OpenBound`); behind a lock, nothing is
tried but by logins let in before it, so the guesses as young as the lock are few (`LockBound`),
and all of them with the logins still to be verified are within the bound (`AllBound`). An entry
may be forgotten only when one of these has become small (`Forgotten`). The proof corrected a
property: the bound stated before, two windows' worth, holds for the run's 2 failures and not
for 3. `SniFilter`: `FollowedInv` says of a connection that nothing excuses what its flow knows:
while it is `Collected`, the buffer holds only the client's own cells and every cell the server
has (`Wrap`: a segment lies where its number says, also across the wrap), so the first gap
(`FirstGap`) is a cell a verdict needs; a judgement without "need more" is then the one on the
hello itself (`Judging`). Data on a SYN and data after it are judged by the same lemma,
`DecideKeeps`, from a flow that has what the server has (`FlowMoves`); the connection's own SYN
starts such a flow afresh while the server has nothing. `OneMoves` reduces a packet to its
connection: all others keep their flows or are excused. `RoomMade` is the bound: a sweep or an
eviction leaves room for one. `AddressBook`: a handler is a list of queries, so the invariant
says which of them are still before it at every point (`Shape`), and that whatever a handler has
learned and nobody has made stale is still so (`Learned`): the name is free in both tables, the
members exist and have one version, the row is as it was read, no rule names it. With no query
left this is exactly what the write needs; every other handler's step either leaves it true or
marks it stale. `RowsInv` is what the rows then are: one namespace, groups of one version, rules
whose ends both stand for something of one version (`InForce`), which each write keeps because
no name in use leaves the book (`ObjectPutRefs`, `ObjectGoneRefs` and the same for groups).
`SavedInv` says so of the rules that a rollback brings back. `Ruleset`: a chain is judged block
by block. `TargetJoined` says that the first match of two blocks is that of the first block or
else that of the second, for blocks of any length; each block then has one lemma on what it says
of a packet (`SelfProtectionSays`, `GeoipSays`, ...), and `InputJudges`, `ForwardJudges` and
`OutputJudges` put these together in the order of the generator. `GoalSays` does the same for
DNAT. FORWARD begins with what `SniSays`: queued or shut, and only the rest comes to the blocks
behind; the properties excuse exactly these two (`IsQueued`, `QuicIsShut`). The state adds
little: a connection remembers the packet that opened it (`RulesetInv`), and every commit
changes only the rules by which its next packets are judged. The proof corrected a property:
`OpensOnlyWhatIsAsked` had also claimed that a packet to the firewall's own address is not "to a
blocked country". INPUT looks at the source only and OUTPUT at the destination only, and a
pasted network may contain an address of the firewall.

Only model-checked: liveness (`WindowCloses`, `PromiseResolved`, `Answered`), which is
out of the prover's reach. Every safety property of every passing run is a theorem.

## 7. Not modelled

Spelling, formats and messages of all fields; real time, except as ages and the freedom of
timers; `seconds_left`, which only reads; the audit trail, written after the fact, whose
errors are only logged; monitoring and health, which read and keep nothing; migrations, which
run once before anything else. Writing the staged file in `/tmp` and `sysctl.d` changes
nothing that is read back. SQLite transactions are atomic and durable. Making WireGuard keys.

Of `Ruleset`: IPv6, malformed flags, invalid packets, kinds of ICMP, loopback, logging,
counters, the mark by which the SNI filter lets the rest of a connection pass its queue, and a queue
that is read: nothing reads it, and then its packets are accepted (`bypass`).
Of the DNS filter and GeoIP lists: categories, imports and their deletion, one transaction
each, and the text they add to the DNS configuration. Of the SNI filter: the bytes of TLS, for
which the parser's answer stands, and how a policy is loaded. Of the network configuration:
the checks of its fields.
