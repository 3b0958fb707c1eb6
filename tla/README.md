# A TLA+ model of signal2sip

signal2sip is a daemon that joins Signal calls to a SIP PBX. For every account
it keeps an authenticated connection to Signal's chat service, decrypts the
envelopes that arrive, hands call messages to RingRTC, and for every call holds
a PJSIP leg and an audio bridge between the two. `signal2sip-gendb` edits the
accounts in a SQLite database that the daemon polls, and registers or links
them with Signal's servers. This directory models the concurrent core of the
daemon and the commands of gendb that can lose an account, checks them with TLC
on small instances, and proves parts of them with TLAPS for instances of any
size.

Paths are relative to `src/`. `PROJECT.json` lists the components, the runs,
the lines each definition translates, the hazards and the theorems.

## Inventory

| Component | State | Operations | Shared with |
|---|---|---|---|
| Dispatch queue (`daemon/main.cpp` 180-296) | `queue`, `stopping`, worker thread | `start`, `push`, `run`, `stopAndJoin` | libsignal's listener thread pushes, the main thread stops |
| Call bridge (`daemon/main.cpp` 300-1130, 1500-1640) | `sipCall`, `incomingSipCall`, `bridge`, `activeCallId`, `isCallee` | `onCallState`, `onIncomingCall`, the legs' callbacks, `stopSipBridge`, `stopIncomingSipCall`, DTMF | RingRTC's callback thread, the PJSIP worker, the dispatch worker, the main thread |
| Ring buffer (`voip/ring_buffer.h`) | `buffer_`, `head_`, `tail_` | `push`, `pop` | the media clock and the feeder, without a lock |
| Audio bridge (`voip/ringrtc_sip_bridge.*`, `voip/audio_bridge.*`) | feeder thread, resample ports | `Start`, `Stop`, destructor | PJSIP's worker, RingRTC's thread, the clock |
| Authenticated socket (`signal/AuthSocket.cpp`) | handle, `connected`, `deauthorized`, one `ConnectState` per attempt | `connect`, `reconnect`, `close`, `request`, listener, keepalive | main thread, libsignal's callbacks, keepalive, senders |
| Watchdogs (`daemon/main.cpp` 2060-2200) | `registered`, `unregisteredSinceMs`, `socketConnected` | the two watchdogs, `onRegState` | main loop, PJSIP worker |
| Call signalling (`daemon/CallSignaling.cpp`) | `deviceListCache_` | `sendCallMessage`, the 409/410 paths | RingRTC's thread and the dispatch worker |
| Configuration and reload (`daemon/main.cpp` 1940-2010, `daemon/Config.cpp`, `gendb/main.cpp`, `storage/Storage.cpp`) | account rows with `config_version`, `g_accounts` | gendb's commands, `reloadConfig`, `setupAccount`, `teardownAccount`, `saveAccount` | one process per gendb command, the daemon |
| SIP routing (`daemon/main.cpp` 750-770, 1520-1545, 1690-1790, 1890-1930) | `g_portToAccount`, transports | setup, teardown, account resolution of `onIncomingCall` | main thread, PJSIP worker |
| Envelope handling (`onPush`, `daemon/main.cpp` 1130-1300; `signal/Crypto.cpp`, `signal/ProtocolStores.cpp`) | session records, identity keys, the stores' mutex | decrypt, encrypt, establish a session, reply to what does not decrypt | libsignal's thread, RingRTC's thread, the dispatch worker |
| Contact list (`daemon/StorageServiceSync.cpp`, `syncStorageContacts`, `saveSyncedContact`) | `synced_contact` with two unique indexes | fetch, save contact by contact | main thread, dispatch worker, gendb's migration |
| Database (`storage/Storage.cpp`) | tables, columns and indexes | open, migrate, CRUD, `deleteAccount` | daemon, every gendb process |
| Registration and linking (`gendb/*`) | pending file, account and key rows, sessions and devices at the server, provisioning socket | `register`, `register-captcha`, `verify`, `link`, `unlink`, `delete-account`, `enable`, `disable` | gendb processes, Signal's servers |
| Contact discovery (`daemon/ContactResolver.cpp`, `signal/Cdsi.cpp`) | resolved contacts | resolve | the thread of the call |
| TUI, Base64, padding, build tools | - | - | - |

What makes these parts hard: four threads share an `AccountState` that is, one
mutex apart, unlocked; callbacks of three foreign libraries arrive late, after
a timeout or after a teardown began; bounded waits are abandoned while the
other side still runs; gendb and the daemon read and write one row with only
single SQL statements atomic; a process may be killed between a request to
Signal's servers and the statement that records it, or between two statements
of a migration; and pointers, ports and transport slots are used again by later
calls and accounts. What each part owes:

* queue: arrival order, nothing lost or doubled, no lost wakeup, a stop that
  drains and always returns;
* call bridge: no use after free, only the two halves of one call are joined,
  the end of either half ends the other;
* audio: no data race in the ring, FIFO order, clean start and stop;
* socket: one live session per device, each state freed once, a close that returns;
* watchdogs: connection and registration recover, and a revoked account stays
  unregistered;
* signalling: a stale device list neither repeats a failure nor hides a device;
* reload: `config_version` stands for the configuration, every change arrives;
* routing: an INVITE is handled for the account whose transport received it,
  and no transport slot leaks;
* envelopes: no session update is undone, the mutex never closes a cycle through
  libsignal's thread, a session out of step is replaced;
* database and contacts: a migration loses no row and cannot stop the database
  from opening for ever, and the phone's contacts arrive;
* registration: the password and the keys the server knows are kept on this
  host, a number has one account, no live account is wiped.

## Modules

A module `X` has an instance `MCX` for TLC and possibly `XProofs`; `VoipProofs` has
the proofs of `RingBuffer` and `AudioBridge`. Definitions
marked "Plausible bug" are mutated forms of the definition below them; each
property is broken by one of them. They are not part of any specification.

**EnvelopeDispatchQueue.** The three threads around the queue: the one that
pushes (`PushAppend`, then `PushNotify` after the unlock), the worker (under the
mutex `WorkerBlock`, `WorkerTake` or `WorkerExit`, then `WorkerFinish`; and
spurious wakeups), and the main thread with the waiter thread it
makes in `stopAndJoin()` (`StopSet`, `StopNotify`, `WaiterJoin`, `StopJoined`,
`StopTimeout`). The account's life around it (`Start`, `FailBeforeStart`,
`CloseSocket`, `EraseAccount`) is what setup and teardown do. `Stuck` is the
set of work items that may never return.

**CallBridge.** One account. R runs `onCallState()`, P runs `onIncomingCall()`
and the legs' callbacks, M runs `teardownAccount()`. Every read of a shared
pointer, PJSIP call, deletion and mutex section is a step, so the threads
interleave wherever the code can. A leg is a record in a heap that is never
reused; `faults` collects what touches a freed object. RingRTC is a current
call and a queue of events, PJSIP a dialog per leg with pending callbacks; both
are external. Nothing in the code keeps a call from meeting another: an INVITE, a
Signal call and a teardown may come at any moment. `races` is history and names what
the handlers are not written for once it has happened: a Signal call or an INVITE
that meets a call or a teardown, a teardown in the middle of a call, a PBX slower
than the disconnect poll (`Race`). `Races` bounds the kinds of races of an instance;
the theorems hold for any.

**SampleQueue, RingBuffer.** `SampleQueue` is the promise: a bounded FIFO where
a push appends a prefix of what is offered and a pop removes what it returns.
`RingBuffer` is the code, one step per index load, sample copy and index store;
`Contents` is the refinement mapping.

**AudioBridge.** `wireBridgeAudio()` and `Start()` on P, `Stop()` and the
destructor on R, the feeder and the conference clock, `Stop()` at any moment of
`Start()`. `missed` is history: a `Stop()` came before `Start()` had assigned the
thread, and joined nothing.

**AudioPath** composes the two: `mic_buffer_` inside the bridge that owns it. The
clock pushes from `PutFrameCallback()` while it is in a resample port and the port is
active, the feeder pops once per tick of `FeederLoop()` and leaves between two ticks;
`due` is what either has decided and not yet done. `playout_buffer_` is the same ring
with the two threads exchanged.

**AuthSocket.** Attempts are numbered; each owns a `ConnectState` and perhaps a
session. `doConnect()` is `DestroyOld`, `StartAttempt`, `WaitDone` or
`WaitTimeout`, `TakeResult`, `InitListener` and the two flags; its completion is
`Complete`, then `CompleteNotify` or `CompleteCleanup`. The listener reports a
loss at most once, at any moment from `InitListener` on, and stores the two flags
in two steps; two callers (keepalive, sender) copy the handle and use it later.

**Watchdogs.** The main loop of one account, one step per access to a flag that
another thread changes (`RegWatchdogCheck`, `RegWatchdogLoad` and
`RegWatchdogForce` are three), against the listener, which also clears and sets the
socket's flags in two steps, PJSIP's registration transaction and untimed timers.

**CallSignaling.** RingRTC's outgoing queue, `onSend`, and `sendCallMessage()`
on two threads over one cache, against an account whose devices change and a
server whose key answer may still list a device that is gone (`Fetch`). Sessions are
set up from the answer and the message is encrypted with them (`Establish`,
`Encrypt`); `outdated` and `current` say whether sessions, fetched keys and the
message in hand are of the present devices, so that a 410 can refuse a list that is
right (`PutRefused`).

**ConfigReload.** The rows, gendb's commands as load/save pairs of concurrent
processes, and `reloadConfig()` row by row: list, load, remove, apply, setup.
Setup may fail (account skipped) or end the process, and systemd restarts it.

**SipRouting.** Setup and teardown of the accounts' transports, the port map,
TLS connections with ports of their own, and INVITEs at any moment. A transport
that `transportClose()` fails to close (`CloseTransportFails`, `leaked`) keeps its
slot, its port and its INVITEs; an account whose port could not be read
(`NotePortFails`, `unnoted`) stays up without an entry in the map.

**Provisioning, Registration.** `Provisioning` is `waitForProvisionMessage()`:
the waiting thread of a `link` command and libsignal's three listener callbacks,
which record the address, the message and the closing of the socket under one
mutex. `Registration` composes it with the other commands: a process of gendb
loads the configuration once (`Start`) and then takes one step per request to the
server, file write and SQL statement; the answer to any request may be lost after
it was carried out, and `Crash` ends a process anywhere. One number stands for the
password and the verification session that are made together, a generation for a
set of keys. `discarded` and `excused` are history: passwords the operator let go
of by registering again or unlinking (a password that is still in a pending file
when its row is unlinked is not let go of), and whether one of the two gaps of the
number check was open: two claims of a number overlapped, or a claiming command
loaded a configuration without some other saved account (`Overlooked`).
`DaemonConfig::load()` skips what is disabled, invalid or unreadable, so `Start`
loads any subset of the enabled accounts. `Overlap` lets two commands for one name
run at once.

**Migration, Contacts.** `Migration` is the constructor of `Storage`, statement by
statement and once per process: look at the table, rename it, create table and
indexes, copy, drop, look for columns, add them. `Contacts` composes it with the
two threads of the daemon that save the phone's list, and ends processes in both.
Any statement of an opening may also fail (`StatementFails`), which leaves the
database as a kill at that point does (`Abandon`).
`torn` is history: the database was left in one of the three shapes that the code
does not recover from (table below); nothing is claimed after that.

**Envelopes.** The sessions with one remote device: `onPush()` on libsignal's
thread, two senders, the mutex, and the record each of them has loaded. `Load` and
`Store` bracket every read-modify-write; `stale` is whose loaded copy has been
overtaken. Sections of the mutex that only read are part of the step around them.
The peer has a session that is ours as well (`Shared`) or one we do not hold.

`AudioPath`, `Registration` and `Contacts` compose two components each. The others meet at
narrow interfaces (the queue's `owner` states are the steps of setup and teardown;
`Watchdogs` sees the two flags that `AuthSocket` maintains; `AudioBridge` is what
`CallBridge` holds as `bridge`; `CallSignaling` has the device list that
`Envelopes` has as `cached`).

## Runs

| Run | Instance | Shows | States |
|---|---|---|---|
| `DispatchQueue` | 3 pushes of 3 kinds of work, one of which may hang, early failure of setup | order, exactly once (`FifoExactlyOnce`), `NoLostWakeup`, `CleanStopDrains`, `StopTerminates`, `PushedIsExecuted` | 34 351 |
| `CallBridge` | 2 Signal calls, 2 INVITEs, 3 legs, teardown; `Races = {}` | `NoUseAfterFree`, `BridgedTogether`, `SipHangupEndsCall`, `EndedCallReleasesLeg` | 63 051 |
| `CallBridgeRaces` | 2 Signal calls, 1 INVITE, 1 leg, teardown; every kind of race | `DtmfReachesOwnCall`, `TeardownEnds` | 1 342 152 |
| `AudioPath` | capacity 4, chunks up to 4, 7 samples, 3 media events | `DataRaceFree`, `ImplementsQueue` (refinement), `NeverTerminates`, `NoFreedPort`, `DestructionCompletes` | 853 782 |
| `AuthSocket` | 2 attempts, 2 callers | `DestroysOnlyLostConnection`, `LoserCleansUp`, `CloseReturns` | 211 336 |
| `Watchdogs` | one account, no bounds | `SocketRecovers`, `SipRecovers`, `RevokedEndsUnregistered` | 5 796 |
| `CallSignaling` | 3 devices, 2 queued messages | `NoRepeatedFailure`, `MissingDeviceIsFound` | 265 848 |
| `ConfigReload` | 1 account, 2 gendb processes, versions 0..2, 1 link | `VersionStandsForConfig`, `VersionsGrow`, `ChangesArePickedUp` | 1 051 477 |
| `SipRouting` | 2 UDP accounts and a TLS account, 2 ports, 4 slots, 2 setups each, 2 failures | `RoutedToReceiver`, `SlotForEveryAccount` | 5 789 958 |
| `Registration` | 2 names that want 1 number, 2 processes, 2 passwords, 2 sets of keys | `CredentialKept`, `KeysMatchServer`, `NumberOwnedOnce`, `AcceptedIsReturned`, `NoLiveAccountWiped` | 2 498 114 |
| `Contacts` | daemon and gendb, 2 phone lists, 2 old rows, 1 kill or failing statement while opening, at most 4 rows | `NoRowLost`, `OpensAgain`, `ContactsArrive` | 294 008 |
| `Envelopes` | 3 sessions of the peer, 1 queued work, 1 restart | `NoLostUpdate`, `NoWaitCycle`, `DesyncHeals` | 23 904 |

Every module also defines its `TypeOK`; it is proved for `EnvelopeDispatchQueue`,
`CallBridge`, `RingBuffer`, `AudioBridge`, `AuthSocket`, `ConfigReload`,
`SipRouting` and `Registration`.

**Why the bounds are enough.** Three pushes show a reordering, a loss and a
push after the stop. Two calls are needed for an event of one to meet the legs
of the next; legs are never reused, so three cover a dialled leg between two
INVITE legs. The properties of `CallBridge` speak of the time until the first race, and
with `Races = {}` it visits just those states. With every kind of race two calls, one INVITE and one leg is what fits;
both stop functions and three threads meet on that leg. With teardowns and a late PBX
alone, `DtmfReachesOwnCall` was also checked with three legs and two INVITEs. A ring of four slots holds
three samples: with chunks of four, pushes are cut short, indices wrap, and
both threads can be anywhere in their copies; three media events are one that wires
the bridge, one that repeats it and one after `Stop()`. Two connection attempts are one
abandoned attempt and its successor. Three devices are the least with which a list can have an
extra device, lack another and share a third. Two gendb processes give every
lost update, and version 2 a change during a reload that follows another
change; the accounts are independent but for the order of `reloadConfig()`'s
loops, and the theorems hold for any number of them. Two ports for three
accounts force their reuse, between UDP and TLS too; with four slots one leaked
transport is within what the table can spare and two are not. The two UDP accounts are
interchangeable. `Watchdogs` has no bound.
Two passwords and two sets of keys are a killed attempt and its retry, or two
names after one number; processes and names are interchangeable, which the
symmetry uses. Two openers race through every pair of statements, and one may be
killed, or meet an error, at each; the two phone lists exchange the ACIs of two people and take a
number away, so that rows are matched by number, by ACI and by two rows at once;
four rows are the two of the old table and one more per person. One name per work
item and one for the peer are the sessions that can differ at once.

**Deadlock** is checked in `Watchdogs`, `CallSignaling`,
`Registration`, `Contacts` and `Envelopes`, which run for ever. In the others the
account is gone, the socket closed, the daemon stopped or a bound reached in the
end.

## Fairness

* Threads: the operating system runs a runnable thread (weak fairness of the
  worker, the stopping thread, R, P, M, the feeder, the clock). `AudioPath` uses
  strong fairness for `StopNext`, whose step waits for the clock to be outside a port;
  the clock enters and leaves for ever and a mutex is granted eventually.
* `AuthSocket`: the closing thread goes on, the keepalive thread wakes from its
  sleep, and libsignal answers or times out a request.
* Bounded waits expire: `wait_for()` in `stopAndJoin()`, the five second
  disconnect poll, timers in `Watchdogs` are weakly fair because the code gives
  them a deadline.
* `WorkerFinish` is fair only for work outside `Stuck`.
* The PBX (or SIP's own transaction timeout) completes a hangup; nobody has to
  call, answer or hang up.
* `RecoverySpec`, `CallSignaling` and `ConfigReload` also assume that a service
  which is asked again and again does not refuse for ever (strong fairness of a
  successful registration, reconnection, request, session, load, setup). Without it the
  liveness they state is not what the code promises. systemd restarts a daemon
  that failed (`Restart=on-failure` of the unit).
* `Contacts`: a process goes on, and opens the database again after a failure
  (weak fairness of `Opening`); both threads finish a sync; the periodic sync does
  not for ever fail or miss a record (strong fairness of `SyncMain(phone)`), since
  the main loop repeats it. Nothing is assumed of the sync that a key message asks
  for but that it ends.
* `Envelopes`: a thread that waits for the mutex gets it (strong fairness of the
  lock steps: waiters of a `std::mutex` are not starved for ever); the peer goes on
  sending, not only sealed envelopes; and the worker's key fetches and replies,
  begun again and again, do not fail every time.

## Proofs

Eight modules prove, for every value of the constants:

* `EnvelopeDispatchQueueProofs`: `TypeOK`, `FifoExactlyOnce`, `NoLostWakeup`,
  `CleanStopDrains`. The inductive invariant adds `StopProtocol`, which says how
  far worker, waiter and owner can be from one another: `stopping` is set
  exactly from `StopSet` on, a worker exits only after it drained, and an owner
  that stopped without timing out saw the waiter's join.
* `CallBridgeProofs`, for any number of calls, INVITEs and legs and any races:
  `TypeOK`, always; `NoUseAfterFree`, `BridgedTogether` and `DtmfReachesOwnCall`
  until the first race. What holds for ever is `races = {} => BridgeInv`: races are
  never forgotten, so a step that causes none starts from a state without any.
  `BridgeInv` has one
  part per actor: what RingRTC still has to report of its call (`QueueInv`,
  `RtcInv`), what every leg is (`LegInv`: the leg of an account belongs to its
  active call, a deleted leg is in nobody's hands), what P is in the middle of for
  a dialled leg, an INVITE leg and a new INVITE (`SipInv`, `IncomingInv`,
  `InviteInv`), where R and M are (`ThreadInv`, `TeardownInv`), and that no fault
  was recorded (`HistoryInv`). That an account has one leg at a time is a line of it
  that the others need: without it ENDED could not know which leg it deletes. The
  domains do not rest on it: `TypeInv` is inductive on its own.
* `VoipProofs`, the ring: `TypeOK`, `DataRaceFree` and `ImplementsQueue`, the
  refinement of `SampleQueue`, for any capacity. Counted from `tail_`, the slots
  are the published ones, then those that `push()` claimed, then at least one empty
  one; each side read the other's index once and the other has only made more room
  since (`RingInv`). The store of `head_` is the abstract push, that of `tail_` the
  abstract pop, every other step stutters.
  The bridge, `Start()` and `Stop()` overlapping anyhow: `AudioTypeOK` and
  `NoFreedPort` (the recorded pair of ports is the only one and the clock is only
  ever in it, `PortsInv`); `NeverTerminates` (unless a join was missed, there is a
  thread to join exactly while `feeder_running_` is set, but for the rest of
  `Start()` and the join of `Stop()`, `FeederInv`).
* `AuthSocketProofs`: `TypeOK`, `LoserCleansUp`, `DestroysOnlyLostConnection`, for
  any number of attempts and losses reported at any moment. `SocketInv` says of every attempt who still
  owes it what (the owner, the completion or nobody), by how far both have come,
  and of the listener that a handle is destroyed only after its report.
* `ConfigReloadProofs`: `TypeOK`, `VersionStandsForConfig`, `VersionsGrow`, for
  a non-empty set of names. A configuration is read from its row long before
  `setupAccount()` uses it, so the invariant says of the loaded configurations
  as well that they are not newer than the row (`NotNewer`), that their rows
  still exist, and that the apply loop works on loaded names. Names that were
  ever unlinked are excepted, as in the properties.
* `SipRoutingProofs`: `TypeOK` and `SlotForEveryAccount`, from an invariant that
  counts: the slots in use are as many as the accounts between `transportCreate()`
  and `transportClose()` and the leaked transports (`SlotsCounted`). And
  `RoutedToReceiver`, for any mixture of UDP and TLS accounts and any failures: UDP
  ports, the leaked ones included, are distinct, an account which is down has none,
  and past a note that succeeded the port map names the port's owner or a TLS
  account.
* `EnvelopesProofs`: `NoLostUpdate`, `NoWaitCycle`. One invariant, `MutexInv`,
  gives both: a thread is between the load and the store of the session record
  exactly when it holds the mutex. `Load` and `Store` keep it for any thread, and
  every action is one of them, a step outside the sections, or a restart.
* `RegistrationProofs`, for any processes, names and numbers. With or without
  `Overlap`: `TypeOK` (`BaseInv`: what a command has established by the time it is
  at a place), `AcceptedIsReturned` (a recorded closing of the socket excludes a
  recorded message) and `NumberOwnedOnce` (`OwnerInv`: unless two claims overlapped or
  a claim overlooked an account, the one claiming command has all other accounts in
  the configuration it loaded). Without `Overlap`: `CredentialKept`, `KeysMatchServer`
  and `NoLiveAccountWiped`. Their invariant `RegInv` follows every password: one
  name holds it (`Owned`); the server knows it for the number of its session alone
  (`ServerInv`), so that registering or deleting a number cannot touch another's;
  a row has its password's keys as far as they are saved (`RowKeys`); and a command
  behind its checks still has the file and the row it looked at (`ProcInv`), which
  is what an overlapping command would break.

The assumptions on constants are the named `ASSUME`s of the modules, which every
run evaluates; the three theorems that need more (`~Overlap` of `Registration`) say so
in their statement, and the table of departures below says what the code does
without it.

Only model-checked: all liveness (TLAPS does not do fairness or ENABLED), and
everything about `Watchdogs` (whose properties are all liveness), `CallSignaling`,
`Migration` and `Contacts`.

## Taken as given

* RingRTC: one call at a time per account, events in order, ENDED and CONCLUDED
  of a call adjacent; the next message of a call only after
  `signal2sip_call_message_sent()`.
* PJSIP: one worker thread; one registration transaction at a time, another
  `setRegistration()` meanwhile throws; removing a conference port waits for
  the clock; a TLS connection has a local port
  of its own; `pj::Error` is no `std::exception`.
* libsignal: a connect completes at most once, the listener is serial, reports a
  loss at most once and never after its handle is gone.
* Signal's server accepts a message addressed to exactly the account's devices.
* libsignal's session record keeps the last forty sessions and decrypts in any of
  them; `Envelopes` never reaches the fortieth. (With no earlier session kept, a
  sender that sets up a session after every reply would undo the peer's new one
  for ever.) The thread that delivers pushes also completes requests.
* The peer sends a prekey message until it has heard from us, and begins afresh
  after a DecryptionErrorMessage about its current session.
* Signal's registration: a verified session stays verified; registering a number
  leaves the new device as its only one; linking adds a device to a number whose
  primary device is a phone; a password is accepted while its device is there.
* SQLite: a statement is atomic, an index follows a renamed table, and
  `IF NOT EXISTS` looks at the name alone.

## Where the code departs from its comments

All of these were met while modelling; each can be seen by changing the constant
named in the cfg of the run, by adding the property to it, or by leaving the
exception out of the property. They are why the exceptions exist: the models take
these steps, and the passing runs show what else holds.

| Comment or doc | What the code does | How to see it |
|---|---|---|
| `daemon/main.cpp:1849` "stopAndJoin() is always safe to call even if start() was never reached" | `stopAndJoin()` locks `state_->mutex` before it looks at the thread; `state_` is null before `start()` | `DispatchQueue` with `StopSafeWithoutStart` |
| `daemon/main.cpp:220` an abandoned worker "will still exit whenever its stuck call eventually returns" | it runs what is queued first, on the erased account | `DispatchQueue` with `ExitsWhenStuckCallReturns` |
| `daemon/main.cpp:320` "Only ever one of these is non-null at a time" | the busy check of an INVITE is not under the lock | `CallBridge` with `Races = {"call", "invite"}`, `OneLegAtATime` |
| `daemon/main.cpp:929` "only the delete+nullptr needs the lock" | the pointer is read outside; two threads delete one leg | `CallBridge` with `Races = {"teardown"}`, `NoDoubleDelete` |
| `daemon/main.cpp:642` without it a caller hanging up "would leave that outgoing call ringing forever" | ENDED or CONCLUDED of an old call deletes the leg of a new INVITE before its Signal call is placed, and nothing hangs that call up | `CallBridge` with `Races = {"invite"}`, `Teardown = FALSE`, `SipHangupEndsCall` without `races` |
| `daemon/main.cpp:942` "harmless no-op here if the OTHER direction is what's actually active" | ENDED runs `stopSipBridge()` first, which resets the shared bridge while the INVITE leg is alive and its media callback uses it | `CallBridge` with `NoFreedBridgeUsed` |
| the same | with a PBX slower than the five second poll, the bridge is freed under a live dialog | `CallBridge` with `Races = {"late"}`, `MaxInvites = 0`, `NoFreedBridgeUsed` |
| `signal/AuthSocket.h:64` "True once the connection has completed and hasn't been closed since" | a loss reported before `doConnect()` stores `connected = true` is overwritten | `AuthSocket` with `ConnectedIsCurrent` |
| `voip/ringrtc_sip_bridge.h:45` "Safe to call even if Start() was never called" | `Stop()` between the flag and the assignment of the thread does not join it | `missed` in `NeverTerminates` |
| `signal/AuthSocket.cpp:39` "self-destructs from whichever side ... loses the race" | `notify_all()` runs after the unlock, on a state the waiter may have deleted | `AuthSocket` with `NoFreedStateUsed` |
| `signal/AuthSocket.h:73` reconnect() is "safe to call repeatedly from a watchdog loop" | a request uses a handle it read before the reconnect destroyed it | `AuthSocket` with `NoFreedChatUsed` |
| `daemon/main.cpp:2140` "Bring SIP down the moment the socket drops" | `setRegistration(false)` throws while a transaction is in flight, and is not repeated | `Watchdogs` with `DropTakesSipDown` |
| `daemon/main.cpp:2106` "forcing SIP back up here would just recreate ..." | it is forced up while the socket is down and not yet rejected; when the rejection comes, SIP stays up | `Watchdogs` with `DeauthorizedEndsUnregistered` |
| the same | SIP is forced up by a pass that asked `isDeauthorized()` (line 2113) before a revocation and calls `setRegistration(true)` (line 2121) after it; when the unregistration that the drop then asks for throws, SIP stays up | `Committed` in `RevokedEndsUnregistered` |
| `daemon/CallSignaling.cpp:334` "so the next send fetches fresh" | a reply that fetched before the refusal may put the old list back | the exception in `NoRepeatedFailure` |
| `daemon/CallSignaling.cpp:223` "self-heal by invalidating on a 409/410" | a 409 naming only extra devices is retried and the list stays cached | the actions `PutExtra`, `Erase` |
| `ringrtc/signal2sip_ringrtc.h:89` message_sent is to be called "after actually delivering" | it is called after a refused PUT too | the action after `PutRefused` |
| `daemon/main.cpp:448` a send that throws is "same as if the message had been lost in transit" | message_sent is not called, and the call's queue stands still until RingRTC's timeout | `CallTimeout` |
| `gendb/main.cpp:723` "the periodic poll is the real guarantee this change gets picked up" | unlinking and linking between two polls starts the versions over, and equal versions are taken for equal configurations | the exception of `unlinked` names |
| `gendb/main.cpp:535` unlink, "so its dead key material doesn't linger" | the daemon's own `saveAccount()` afterwards inserts the row again | `KeysReceived` on a missing row |
| `daemon/main.cpp:1640` "one account's bad config/network failure never affects any other account" | `pj::Error` is not caught | `SetupCrashes` |
| `systemd/signal2sip-daemon.service:14` a reload "Does NOT support changing an already-running account's settings" | it rebuilds the account | `Apply` |
| `daemon/main.cpp:1530` "The receiving transport's own local port is ground truth" | TLS INVITEs arrive on a port that is not noted | the exception of `TlsStates` |
| `daemon/main.cpp:757` the port "this project controls and knows unambiguously" | notes are never erased: an INVITE that overtakes `NotePort` gets a freed account | `SipRouting` with `NoFreedAccountUsed`; `routed.early` in `RoutedToReceiver` |
| the same | when `transportGetInfo()` fails (line 1744 logs it) the port is not noted and INVITEs go to whichever account PJSIP picks | `unnoted` in `RoutedToReceiver` |
| `daemon/main.cpp:1916` "Explicitly release this account's dedicated PJSIP transport slot" | a `transportClose()` that fails is logged and the account erased: the slot and the port are lost until the daemon restarts | `leaked` in `SlotForEveryAccount` |
| `storage/Storage.cpp:123` "copying every row across" | a process killed between the copy and the drop, or whose drop fails, leaves a database in which every later copy breaks a unique index, so that no open succeeds; so does a contact saved before the copy. Two old rows with one ACI have that effect at once | `torn`; for the last, such rows in `MCOldRows` |
| `storage/Storage.cpp:123` | a second process that looked before the first renamed renames the new table aside; its indexes go with it, `IF NOT EXISTS` finds their names, and the table that is used has none | `torn`, `index = "aside"` |
| `storage/Storage.cpp:562` "find whichever existing row (if any) this contact matches" | when number and ACI are in two rows neither statement can succeed, and the contact is never updated again | `Blocked` |
| `daemon/Config.h:87` changes on the primary device are picked up | a contact removed on the phone stays in `synced_contact` | `Save` has no counterpart that deletes |
| `gendb/main.cpp:244` guards against a number "that's already configured under a DIFFERENT" account | the check reads what was loaded when the command started, and an account that is disabled, whose configuration is invalid or whose row cannot be read is not loaded (`Config.cpp` 164-176) | `excused` in `NumberOwnedOnce` |
| `gendb/main.cpp:247` "requireNoExistingAccount()" | two `verify` commands for one name at once both pass it and save each other's keys | `Registration`, `Overlap = TRUE` |
| `gendb/main.cpp` 497 | a `link` that dies after the PUT leaves a device on the phone's list that nobody has the password of | `PutLink`; `CredentialKept` speaks of primary devices |
| `daemon/CallSignaling.h:118` "instead of failing silently forever" | a sealed envelope that does not decrypt is not answered, a reply that the server refuses is only logged, a DecryptionErrorMessage from the peer is ignored, and the new identity key of a peer that reinstalled is never trusted | `PushFailed`, `SendEnds`, the exception in `DesyncHeals` |

## Not modelled, and the plan

Left for later, the most valuable first:

1. Proofs: `NoRepeatedFailure` of `CallSignaling` and `NoRowLost` of `Migration`,
   the two safety properties without a theorem; `TypeOK` of `Envelopes`.
2. `CallBridge` with `EnvelopeDispatchQueue`: work queued when
   `teardownAccount()` stops the legs may start a new call; and with
   `AudioBridge` as the bridge it holds.

Not modelled:

* contact discovery (`ContactResolver`, `Cdsi`): a chain of lookups on one thread,
  with one row per number as its only state;
* `deactivate` and `reactivate` of gendb: a flag at the server, no local state;
* a COMMIT of `deleteAccount()` that fails, and the destructor of `AuthSocket`
  against an abandoned attempt: both need a failure of the library that nothing
  else in the code reacts to;
* ciphers, padding, Base64, prekey generation, protocol buffers and request
  bodies: data without control;
* the TUI (layout and input over gendb's commands), libsignal, RingRTC and PJSIP
  themselves, build and symbol-isolation tools, the manual test programs;
* the outgoing-call probe, which has no part in a call's normal life.
