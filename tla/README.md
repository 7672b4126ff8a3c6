# A verification project for LEEWAY Device Bridge

The repository lets an agent act on its owner's devices under the owner's
control. This directory holds TLA+ models of the parts of it that are hard to
test (concurrency, crashes, files shared by processes, callbacks that come
late), the TLC configurations that check them, and TLAPS proofs of the
invariants that matter most. Paths are relative to the repository.
`PROJECT.json` maps each definition to the lines it stands for and lists the
runs, mutants, hazards, findings and theorems.

To check a run: `tlc -config MCPhoneLink.cfg MCPhoneLink`. To check proofs:
`tlapm PhoneLinkProofs.tla`.

## The system

An agent's request passes through these parts:

    agent --MCP--> Bridge.call --> admission gate --> adapter --> relay --> phone
                      |               |     |            |
                      |          consent  replay guard   +--> desktop operations
                      +--> receipts on disk                   (processes, searches,
                                                              windows, files)

Beside this path run the voice application's gateway with its owner approval,
the GPU services, and the phone's own services.

| Component | State it keeps | Operations | What is hard | What makes it correct |
|---|---|---|---|---|
| Bridge call and C3 admission (`packages/protocol/index.mjs`, `operator/c3-admission-binding.mjs`) | locals of each call, the receipts on disk | `call`, the gate in front of it | seven awaits, host code that fails anywhere, death in between | no operation without a durable receipt and its own consent; the caller is told the truth |
| Consent replay guard (`operator/trusted-issuer-registry.mjs`) | map per process, ledger and lock files shared | `has`, `consume`, `prune`, loading | several processes, each system call can be the last | a nonce is accepted once, whoever dies |
| Voice owner pairing (`operator/voice-owner-pairing.mjs`, `voice-owner-approval-desktop.mjs`, `voice-auth-gateway.mjs`) | pairing table, request and approval files, sessions, the approver's `seen` | `start`, `check`, `pairClaim`, `scan`, `signVoiceOwnerApproval` | two processes and half-written files, awaits between test and set, restarts | no session without the owner's click; one dialog per request |
| Interactive processes (`apps/desktop/process-sessions.mjs`) | session table, child, lifetime timer, output ring | `start`, `read`, `stop`, `list` | exit, stop, timer and failing signals race | running processes stay visible, outcomes final, pages right, no session escapes its timer |
| Phone relay link (`RemoteRelayService.kt`, `RemoteRelayState.kt`) | preferences, `webSocket`, `connecting`, posted reconnects | `start`, `stop`, service callbacks, socket callbacks | three kinds of thread, callbacks of destroyed instances and of writer threads, process death | a wrong status is put right; an enabled link comes back |
| Relay command path (`packages/agent-relay/index.mjs`, `RemoteCommandRouter.kt`, `FormulaF8Gate.kt`, `ReceiptStore.kt`) | the adapter's pending call, ids already seen, the receipt list | `execute`, `executeRemoteCommand`, `record` | a thread per arrival, a relay that loses and repeats, an adapter that gives up, ids forgotten with the instance | one effect per id and instance; "ok" only after the effect |
| Search sessions (`apps/desktop/search-sessions.mjs`) | sessions, rows found | `start`, `next`, `stop`, `list` and the scan | a scan that outlives a stop, five limits | COMPLETE means all was found; a last page is the last |
| Windows UI sessions (`apps/desktop/windows-ui-sessions.mjs`) | observations with their marks | `observe`, `input`, `submit` and their scripts | tests before a script and marks after it, scripts killed half way, the user at the keyboard | what the composer holds at the press was read back, up to the script's own gap |
| Desktop files (`apps/desktop/file-parity.mjs`, `transfer-parity.mjs`) | the file system, staging and lock files | guarded move, exact edit, create, append | any system call may fail or be the last one; other calls in between | no content vanishes; what is reported appended is there |
| Voice gateway (`operator/voice-auth-gateway.mjs`) | login windows, sessions, the proof of a conversation | login, turn, health and the routes of a session | the login window is tested before an await and counted after it; health overlaps turns | a bound on guesses; the proof gives way only to an older search |
| GPU service (`packages/leeway-gpu-service`) | the owner's preference, pending requests | inference, preview, control, status | opting out while a request or a status reply waits for the provider | nothing under way is answered after an opt-out |
| GPU workstation (`packages/gpu-inference`) | replay table in memory | `infer` of client and server | clock errors, repeated deliveries, a table at its limit, restarts | a request is admitted once, with the exceptions named |
| Phone command lease (`PocketCommandService.kt`, `PocketCommandPolicy.kt`, `PocketGrantStore.kt`) | lease, seen ids, the lane | messages, lane, `onDestroy` | a destroyed instance's lane, repeated messages | a command acts once |
| Phone local bridge and stores (`LocalBridgeServer.kt`, `BridgeSecret.kt`, `ModelRuntime.kt`) | one-time nonce, server thread, model files, guard | arm, consume, `start`, `stop`, `download`, `generateBounded` | unsynchronized writes of two fields, downloads sharing a file, renames that fail, process death | one token per arming; no PASS receipt of less than a whole model |
| Read-aloud application (`VoiceOneHost.java`, `ReadAloudService.java`) | volatile flags, the page | the HTTP routes, the page's callbacks | three kinds of thread write flags one by one, an older stream reports late, scripts fail unreported | speaking ends, unless nobody reported its failure |
| Desktop jobs, one-shot operations and audit (`apps/desktop/adapter.mjs`, `documents-parity.mjs`, `audit-parity.mjs`) | the job table, the receipt file | `startJob`, `run`, rendering, the catalog, `searchFiles`, `searchContent`, `readHistory` | output at its limit, kill and exit and error in any order, files that vanish during a walk, a torn line in the window | outcomes are final, results whole; what is not said to be truncated is all there |
| MCP ingress and remote transport (`api/mcp.mjs`, `operator/hosting/start-public-mcp-ingress.mjs`, `apps/desktop/remote-mcp-http.mjs`) | locals of a request, one MCP instance each | guards, the streamed upstream answer; `connect`, `handleRequest`, 'finish' | a body or a stream past its limit, an upstream that breaks after the head | one head; an ended answer is whole; an instance outlives its answer |
| Phone workstation worker and remote controller (`clients/`) | one connection, handlers under way | messages of the relay, receipts, results; one command | handlers overlap, the relay forgets and repeats, a receipt fails | what is printed has its receipt |
| Mathematical foundation (`operator/c3-mathematical-foundation.mjs`) | none | packing, radix-64, eligibility | edges of the number ranges | eligibility is in BridgeCall, the rest not modelled |
| Schemas, installation and hosting scripts, front ends | nothing that outlives a request | | | not modelled |

## What is modelled

The unit of interleaving is what the platform makes atomic: code between two
awaits in Node, one system call where several processes share files, one
access to a shared field in the Kotlin service. Each module's header says
which; mutated operators named in comments (`\* mutant`) take part in no
specification: they are plausible bugs that each property was shown to catch.

### ReplayGuard and SingleUseConsent

`ReplayGuard` is `ConsentReplayGuard` with the part of `verifyConsentEvidence`
that calls it. A process is at a stage `pc[p]`, the system call it makes next;
`mem` is `_consumedNonces`, `locks` and `ledger` are the files. `Prune` and
`Compact` are the two halves of `prune`, which `has` and `consume` call at
three places. A crash drops the map and keeps the files. A token has one
expiry, so a nonce stands for its record. `SingleUseConsent` is the promise
without files: reserve, spend, release, expire. `KeepsPromise` says that the
guard implements it (`held` is a live lock file or a call that holds one).

- `replay_guard`: two processes, two tokens that expire at 1 and 3, clock to 3,
  one crash, `MaxEntries` 1 and `PruneInterval` 1 so that both kinds of prune
  happen. Two processes are what a race on one lock file takes; the second
  token lets a prune for one disturb the other.
- `replay_edge` (violation, `AtMostOnce`): loading discards a nonce whose
  expiry is now, while consuming still accepts it, so that a restart within
  the tick accepts the token twice. `SingleUse`, which holds, therefore counts
  acceptances whose lock was created before the expiry instant.

`prune` rewrites the shared ledger from one process's map and so drops lines of
another, and a torn line may swallow the next. Acceptance does not depend on
the ledger, because the lock files remain (`SpentKeepsLock`).

Assumed: one machine clock that is never set back; `unlink`, `open` with
`O_EXCL` and an append are atomic; a ledger line is whole. The in-memory
variant of the guard and `clear` are left out.

### BridgeCall

One `pc[c]` per call, at the await it is suspended at. `Submit` to
`VeritasAnswer` are the gate, `DiscoverAnswer` to `Post` are `Bridge.call`,
`Evidence` is its catch clause with the receipt and the error answer. The
consent provider, the pre-gates, the adapter and the receipt sink are host
code and answer anything, including a token meant for another call; a receipt
that is rejected may be on disk all the same. `Effect` is the device's own
step: once the adapter was called it may come before the answer, after it, or
after a crash, because a relay that gives up does not stop the phone. The
replay guard is used through what ReplayGuard shows of it: `Verifies` succeeds
once a token, except that a process which starts in the very millisecond a token
expires does not load it as spent (`expiresAtMs > now`), while verification
still accepts it in that millisecond (`now > tokenExpiresAt` refuses). A token's
`phase` is before, at or after its expiry; `Crash` is a death and the start that
follows it, and forgets the spent tokens that are at that instant (`reopened`,
history). `EffectOwnsConsent` excepts sharing those tokens and no others.
What an adapter may do is what `DevicePromise` allows, which `RelayCommand`
implements.

- `bridge_call`: three calls over a capability of each tier and an undeclared
  one, two tokens that expire at any time, one crash: 2.69 million states. Three
  calls let two compete for a token while a third fails.

### VoicePairing

Gateway and approver meet in files that are created empty and then filled.
`Start`, `WriteRequest` are `start`; `ClaimStart` to `ClaimEnd` are `check` up
to the session `pairClaim` issues; `Scan`, `Inspect`, `Decide`, `SignCheck`,
`SignWrite` are the approver. Entries leave the table only when some start
sweeps it. A restart of the gateway empties its tables, one of the approver
forgets what it has seen.

- `voice_pairing`: two applications, ids and claims, lifetime 2, clock to 3,
  one restart: a request expires, an application asks again, and two claims
  meet on one id.
- `voice_exchange` (violation, `SingleUseExchange`): `used` is tested before an
  await and set after it; two claims both get a session.
- `voice_overlooked` (violation, `NoRequestOverlooked`): a name is marked seen
  before its half-written file is read, and the owner is never asked.

At the code's own values (lifetime 120 s, gap 30 s) the rate limit never
decides, as a pending request refuses first; the model keeps both. The
signature over the approval is taken to be unforgeable: only the approver's
writes make a file that verifies. The login with a password is VoiceGateway's.

### ProcessSessions

A session is known by its id; `child` holds those whose field is not null,
`alive` the processes that run. `StartBegin` is `start` up to the await of the
working directory, `StartSpawns` or `StartFails` the rest. `KillFails` is
Node's `child.kill()` on a signal that cannot be sent, which emits `error` and
so runs the handler written for a failed spawn. A byte of output is its
position, so that `PageIsFaithful` says what a page must hold. `STARTING` is
invisible because `spawn` or `error` is emitted before other code of the
adapter runs.

- `process_sessions`: two sessions with one active slot, three bytes in a ring
  of two, pages of one byte: capacity, ring and retention all take effect.
  `LifetimeIsEnforced` is liveness: a session whose process is there closes, or
  its timer marks it TIMED_OUT and sends the signal, also after a stop that the
  process ignored, unless a signal failed. The only fairness is the event loop's,
  that a due timer fires. Nothing is assumed of the process: a signal may be
  ignored, and `close` may be withheld for ever (a descendant holds the pipe), so
  that nothing is said of when a session is over.
- `session_capacity` (violation, `ActiveBound`): two starts pass the capacity
  test before either has put its session into the table.

Writing to a process's input has no effect on the session and is left out.

### PhoneLink

Instances of the service and their sockets. The main thread handles intents
(`Create`, `StartCommand`, `Destroy`) and posted reconnects; `OpenRelay` is an
HTTP thread at the end of the configuration call; `Assign` is the moment
`newWebSocket`'s result reaches the field, which the socket's own reader
(`SocketOpens`, `HelloAck`, `SocketEnds`, `ReportEnd`) does not wait for.
`SocketEnds` and `ReportEnd` are the two halves of `onClosed` and `onFailure`.
OkHttp calls `onFailure` from other threads too (a ping that is not answered, a
write that fails), while the reader may be inside `handleMessage`: `acking` holds
the sockets whose end came in between, and `SetConnected` is their reader's late
`setConnection(true)`. So `connected` may be wrong in two ways, which its values
tell apart: "left" by a killed process, and "late", written after the end.
A destroyed instance goes on in the callbacks it has registered, on an executor
that is shut down, where `newWebSocket` fails at once (`OpenRejected`). `Kill`
is Android ending the process and restarting a sticky service. `Dead` in the
field is a socket that failed before it was assigned.

- `phone_link`: two instances (one may be a destroyed one), two sockets, two
  intents under way, one configuration call per instance at a time, one stop or
  kill. Fairness: threads and posted tasks run, a configuration call ends (well
  or not, OkHttp's timeouts see to it), an attempt to connect and a hello are
  answered, refused or cut, a socket that was asked to close ends (OkHttp
  cancels it after a minute), and the network lets a connection and the
  relay's answer through if it could again and again: strong fairness of
  `SocketOpens` and `HelloAck` (`Network`), for between two attempts they are
  disabled. `ReconnectsUnlessStuck` is the liveness property under the condition
  that the owner leaves the bridge enabled. `NeverIdle` is its safety part.
  434,000 states. `StatusHeals` is liveness too: when the status says connected
  and no socket is behind it, it is cleared or a socket comes to stand behind
  it, unless the bridge is disabled or the service stuck. It holds though every
  attempt to connect may fail, for the strong fairness is a premise of
  `ReconnectsUnlessStuck` alone.
- `phone_reconnects` (violation, `Reconnects`): the documentation's sentence
  without the exception. A socket fails before its assignment, the field keeps
  the dead socket, and every path to a new connection requires an empty one.

Left out: the delay before a reconnect (it may run at any time), the relay
answering `pong` (the phone sends no `ping` message), and commands. A socket
the relay closes reaches the callbacks through a ping that is not answered,
which is a loss like any other. Bounds: `MaxQueue`, `MaxFetch`, `MaxEnds`.

### Services without shared state, checked side by side

The remaining services share neither state nor calls with each other, so their
composition is a sum: `MCHostServices` and `MCPhoneServices` choose a service
in the initial state (`side`), and a behaviour is one of that service while the
variables of the others keep their initial values. All interleavings inside a
service are there, interleavings of two services are not, since no property
could tell them apart; and their state spaces add up (some 1,313,000 and 616,000
states) where a product would multiply them. `CHECK_DEADLOCK` is off because
searches, calls and bounds end. Each service has a specification of its own
(`SearchSpec`, `UiSpec`, ...), which the theorems are about. `HostTypes` and
`PhoneTypes` are the conjunctions of the modules' type invariants. Types are
proved; of the runs only `host_services` lists them too, because the GPU
service's say which inferences are pending, which a missing clean-up breaks.

Run `host_services`:

- **SearchSessions.** A tree is the sequence of entries the walk meets, an entry
  what the walk makes of it. `SearchBegins` and `SearchStarts` are `start`
  around its await, `Listed`, `Examined`, `ReadFile` the awaits of the scan,
  `LimitNoted` its limits. `CompleteFindsAll` compares the outcome with the
  tree; `LastPageIsLast` says that who was told nothing more is coming was told
  the truth. Two searches of one active slot, two trees that contain every
  kind of entry, two results and three entries at most: each limit is reached.
- **WindowsUi.** `input` and `submit` run a script whose steps (`Find`,
  `SetValue`, `ReadBack`, `Verify`, `Press`) interleave with other calls, with
  typing, with a restart of the application and with `ScriptKilled`. `Press`
  sends what the composer holds then, which need not be what `Verify` compared:
  another input, or the user, may come between the two, and the script has
  nothing against it. `SentWasReadBack`: what is sent was read back by an input
  of the same observation, unless the composer changed in that gap (`disturbed`,
  history). So no text is sent that was there before the comparison and not read
  back, whichever other scripts, killed ones among them, have run. The map of
  observations is the set of them and, for each, those that were there before
  it; the eldest makes room. Two observations of which one is kept, two calls,
  two texts, one change by the user.
- **FileMove.** Names lead to inodes, so that a hard link, an exclusive create, a
  rename over a name and a write to an unlinked file are what the file system
  makes of them; `Device` makes some moves answer EXDEV. Any call may fail and
  the adapter may die before any system call. `NothingLost` excepts what an edit
  replaced knowingly and what came under a name between a call's last look at
  it and its unlink or rename, a gap that no portable call closes (`overtaken`).
  The same gap precedes a move's `link`: a call whose link found another file
  than the one it had checked is `misled`, and what its unlink then takes away
  counts as overtaken too, though both looks show the same inode. Three names on
  two devices, three calls, three inodes.
- **AppendTransfer.** A file is the sequence of chunks, whole or torn. The lock
  file belongs to a name, survives a crash and a failing unlink, and only the owner
  clears it. Files get names and lose them (`LinkTarget`, `UnlinkTarget`: the two
  system calls of a guarded move, which takes no lock) and are replaced at any time;
  `digestFile` asks for one link, of the open file, whatever its name.
  `AppendedIsThere`: a reported chunk is whole and follows what the caller
  expected. It excepts calls that had one file open under two names at once
  (`crossed`, history): each has the lock of its own name, both write at the same
  offset and look at the length only, so that both are told "appended" and one
  chunk is gone. Two calls, two names, two files.
- **VoiceGateway.** The login window is an object the map and waiting logins
  refer to, because a login counts in the object it found before its body came.
  `LoginsAreLimited`: of any two limits' worth and one wrong passwords the last
  comes at least a window after the first, while logins do not overlap;
  overlapping ones all pass the test, which is the code's behaviour and promised
  otherwise nowhere. A health check that began before a turn's proof overwrites
  it with what it restores; `ProofYieldsToOlder` says that nothing else but a
  restart does. Limit 2, window 2, clock to 2: enough to renew a window, and to
  guess in two of them.
- **GpuService.** Handlers between awaits, `pending` and its abort, the preference
  file that a control call writes in one turn. `OptOutHolds`: no inference
  pending at an opt-out is answered, even if the owner opts in again meanwhile,
  and no opt-out is answered as active. The preview routes test nothing, which
  is modelled and excluded from the property. Two requests, two control calls.
- **GpuWorkstation.** Client and server clocks differ by at most `Skew`; the
  network repeats messages at any time; an inference ends when it likes; the
  server may restart, and its table with it. `AdmittedOnce` excepts ids the full
  table gave up, ids whose window was open when the server restarted (`forgotten`)
  and stamps ahead of the server's clock: a stamp from the future is accepted
  longer than its id is kept. Window 1, table of one, skew 1, clock to 3: both
  edges, the eviction and a restart in and after a window happen. The entries
  are deleted when `now - seen > WINDOW_MS`, as its admission test allows
  `<= WINDOW_MS`.
- **DesktopRuns.** Jobs and collections (an execution, the PDF renderer, the model
  hub's catalog) gather what a source emits up to a limit; a kill is a signal
  that the process follows when it likes, and `close`, timer, stop and errors
  come in any order. `OutcomesStand`: a job that is EXITED was left by its
  process and stays so, and a result holds every chunk of a source that ended by
  itself. Two jobs, one collection, a limit of one chunk where two may come.
- **ContentSearch.** `searchFiles` and `searchContent` walk a tree that others
  remove entries from, one await at a time, under limits on results, files,
  bytes and depth. A listing comes in any order, since readdir promises none.
  `UntruncatedFindsAll`: an answer that does not say `truncated` holds every
  match that was there throughout. A tree of seven entries with a link, an
  oversized file and a folder below the depth limit.
- **AuditHistory.** `readHistory` reads the last bytes of the receipt file, cuts
  the first line unless the window begins the file, and parses the rest, while
  receipts are appended and a crash may tear one (a receipt is two units, the
  second ends its line). A line is known by the unit that ends it, and the rows
  of an answer are the set of their lines. `HistoryIsTrue`: the rows are the
  latest receipts on disk, whole, each on a line of its own, and in order. A torn
  line inside the window makes the audit fail until it has left the window; no
  document promises otherwise. Five receipts, a window of five units (so that it
  begins inside a receipt), three rows.
- **McpIngress.** Routes and guards, the body counted chunk by chunk, one upstream
  whose answer is piped. `ResponseIsWhole`: a response that was ended carries
  all that the upstream sent, one head is written, and only an admitted request
  reaches a qualified upstream. One request (they share nothing), bodies of up
  to one chunk more than the limit.
- **RemoteMcp.** An MCP instance for every request, closed on the response's
  'finish'. `InstanceOutlastsAnswer`: none is closed before its response has
  finished, none stays open behind a finished one. An instance whose client has
  gone stays open, for 'finish' never comes: the property does not say otherwise.

Run `phone_services`:

- **RelayCommand** and **DevicePromise.** `RelayAdapter.execute` with its timer,
  the relay (external: it loses, delays and repeats), a thread of the phone per
  arrival: `Marks` (the synchronized add to `seenCommandIds`), `Gate`, `Runs`,
  `ReadsList` and `WritesList` (the receipt store's unlocked read and write) and
  `SendsResult`. A killed process keeps of the list what `apply` had brought to
  the disk. `ReceiptsAreKept`: while it lives, no receipt that was written is
  lost unless two calls of `record` overlapped (`clashed`, `recorded`: history);
  then the later write drops what the earlier one added, which no document
  excludes. `DevicePromise` is what a caller may rely on: an effect per
  command and service instance at most, one answer, "ok" only after an effect.
  `KeepsDevicePromise` is the refinement, where the answer is the adapter's
  final state. Ids are forgotten when Android makes the service anew, so that a
  command the relay still holds acts again: the promise is per instance. Two
  commands (one a chat, which writes two receipts), two arrivals, two instances.
  Arrivals are interchangeable, hence the symmetry; a refinement of safety
  formulas is checked under it.
- **PocketCommand.** The main thread takes messages, the lane executes them,
  `onDestroy` interrupts it, and a destroyed instance can still take a message
  whose lane then refuses. `ActsOnce` excepts ids forgotten at the limit of
  seen ids (1 here, 128 in the code). Two ids, four messages, two instances.
- **OwnerBootstrap.** Nonce and expiry are written one after the other without a
  lock while `consumeOwnerBootstrap` holds one. `HandedOncePerArm`: no more
  tokens than armings. Two nonces armed twice, two workers of two servers.
- **ModelInstall.** Files have identities, so that two downloads that share the
  `.part` name write, truncate and rename what the other has open. Overlapping
  ones can leave a half-written model with a PASS receipt (no document excludes
  it); `LoneInstallsAreWhole` is about those that do not overlap, with breaks,
  wrong bytes, deletes that fail and process death, and about the engine that
  opens by name what was verified by name. A rename that fails is followed by a
  copy under the installed name, block by block (`CopyPart`, `CopyBlock`,
  `DeletePart`): killed on the way it leaves a part of the model there, and an
  engine that had verified the file before may open it. The property excepts that
  copy (`partial`, history) from what may be found and opened, and says that a
  PASS receipt is not affected: after one the model is whole, copied or renamed,
  until the next download begins. Two downloads, four files.
- **ReadAloud.** Requests and callbacks as the writes and posts they have still
  to make, one at a time. The page is a stand-in that plays one thing and
  reports its end, or does not: a script may throw (`ScriptFails`; `evaluate`
  notes an error in `state` and leaves `speaking`), and a promise may be rejected,
  which the scripts swallow (`PageGivesUp`). `SpeakingEnds` says that whenever
  `speaking` is true something is left that will clear it, unless speech failed in
  one of those ways since `speaking` was last written (`unheard`, history): then
  it stays true until the next stop or completed speech. The
  completion of an older stream clears the id of a newer one, whose chunks are
  then refused; no document promises otherwise. Two requests, two streams.
- **PhoneWorkstation.** The worker handles commands concurrently, and the relay may
  hand it a command again: it remembers no ids, so that a repeated command runs
  twice (RelayCommand's phone does remember). A receipt is appended before the
  result is sent and may fail. `PrintedIsReceipted`: what a controller prints has
  its receipt, and an ok its effect. Two controllers, two handlings (they are
  interchangeable), two connections; the delay before a reconnect is left out.

## What is proved

For every value of the constants; TLC checked each formula first.

| Module | Theorem | Property |
|---|---|---|
| ReplayGuardProofs | TypeCorrect, NonceSpentOnce, SpentIsDurable, SpentStopped | TypeOK, SingleUse, SpentKeepsLock, SpentStopsAtHas |
| ReplayGuardProofs | GuardKeepsPromise | KeepsPromise: refinement of SingleUseConsent |
| BridgeCallProofs | TypeCorrect, ReceiptBeforeEffect, ConsentPerEffect | TypeOK, EffectIsReceipted, EffectOwnsConsent |
| BridgeCallProofs | HonestAnswer, HonestReceipts | AnswerIsHonest, ReceiptsAreHonest |
| VoicePairingProofs | TypeCorrect, OnlyApproved, AskedOnce, OneLive | TypeOK, SessionIsApproved, AsksOnce, OneLiveRequest |
| ProcessSessionsProofs | TypeCorrect, LiveHeld, FaithfulPages, OutcomeFinal | TypeOK, LiveIsHeld, PageIsFaithful, OutcomeIsFinal |
| PhoneLinkProofs | TypeCorrect, NeverIdles | TypeOK, NeverIdle |
| PhoneLinkProofs | StatusBacked | a status that is neither "left" nor "late" has a socket behind it |
| FileServicesProofs | NothingLostTheorem, AppendTheorem | NothingLost, AppendedIsThere |
| FileServicesProofs | CompleteTheorem, LastPageTheorem, UntruncatedTheorem | CompleteFindsAll, LastPageIsLast, UntruncatedFindsAll |
| HostServicesProofs | OptOutTheorem, GpuTypes, AdmittedOnceTheorem | OptOutHolds, the GPU service's types, AdmittedOnce |
| HostServicesProofs | SentTheorem, OutcomesTheorem | SentWasReadBack, OutcomesStand |
| HostServicesProofs | LoginsTheorem, ProofTheorem | LoginsAreLimited, ProofYieldsToOlder |
| HostServicesProofs | ResponseTheorem, InstanceTheorem, HistoryTheorem | ResponseIsWhole, InstanceOutlastsAnswer, HistoryIsTrue |
| HostServicesProofs | HostTypesTheorem, HostServicesTheorem | HostTypes; all properties of the run `host_services`, of its own specification |
| PhoneServicesProofs | PromiseTheorem | KeepsDevicePromise: refinement of DevicePromise |
| PhoneServicesProofs | ActsOnceTheorem, ReceiptedTheorem, HandedTheorem | ActsOnce, PrintedIsReceipted, HandedOncePerArm |
| PhoneServicesProofs | LoneInstallTheorem, SpeakingTheorem, ReceiptsTheorem | LoneInstallsAreWhole, SpeakingEnds, ReceiptsAreKept |
| PhoneServicesProofs | PhoneTypesTheorem, PhoneServicesTheorem | PhoneTypes; all properties of the run `phone_services`, of its own specification |

The assumptions are the named ASSUMEs of the modules: types of the constants,
that the "nothing" values are not among the values, and, where a proof counts
calls (FileMove, VoiceGateway) or lists a folder (ContentSearch), that there are
finitely many of them or of its entries.

The calls:

- **ReplayGuard.** `SingleUse` does not follow from itself: a second process
  may be about to accept. `IInv` adds that a holder (a call that created the
  lock in time and has not returned) has its lock file while the token is live,
  that there is one holder of a nonce, and that a held nonce is unspent.
  Creation needs an absent file, so a second holder or a holder of a spent
  nonce cannot arise; removals of a lock (prune, loading, `has`) need an
  expired token or are made by the holder. The refinement maps each step to
  the promise's Reserve, Spend, Release, Expire or a stutter.
- **BridgeCall.** `IInv` says how far each call has come: `outcome` FAILED means
  the ADMITTED receipt is on disk and the gate vector was passed, an effect
  needs FAILED, and a token held by a call is spent and held by no other, or was
  reopened by a start at its expiry instant.
- **VoicePairing.** Consent is followed from the dialog over the signing, the
  file and the claim to the session; the live part of the table has one entry
  per application because a start sweeps before it looks. The owner is asked
  once in the life of an approver because what a scan is reading is marked seen
  before its first await, and what was asked about is never being read.
- **ProcessSessions.** An end is recorded only of a process that closed or could
  not be signalled, and `prune` drops only recorded ends. The ring is always a
  stretch of what the process wrote that ends where its counter stands, and so
  is whatever a reader cuts out of it.
- **RelayCommand.** An effect in an instance means that its `seenCommandIds` has
  the id; of the threads of one instance that carry one command at most one is
  on its way to an effect (`Toward`), and then the effect has not happened; an
  "ok" in a thread or on its way back has an effect behind it. Each step maps to
  TakesEffect, Answered or a stutter. For the receipts: as long as no calls of
  `record` overlapped, at most one thread is between its read and its write, and
  the list it holds has everything the store has.
- **PhoneWorkstation.** A result that the relay holds is `Proven`: its handler is
  over, the receipt is kept, and an ok came after the effect. What is over stays
  over, so that printing late is as good as printing at once.
- **PocketCommand.** An id that acted, or that the lane carries, is in the
  instance's seen ids or was given up; while the action of one that was not
  given up is to come, it has not acted.

The links and stores:

- **PhoneLink.** That a reconnect may be dropped rests on what its two tests
  stand for: a socket in the field is live and this instance's (`FieldIsLive`),
  `connecting` means a configuration call or a socket whose end is not reported
  (`ConnectingIsAttempted`), and the last intent handled agrees with the
  preference (`StartIsLast`). A reader whose `setConnection(true)` comes late reads from
  a socket whose end is reported (`AckIsOver`), so that apart from that write and
  a kill the status has a socket behind it.
- **FileMove.** `FileShape` says which inode each place of a call owns (staging
  files belong to their call alone, and links of a file are counted). A call
  that is past its last look may remove a name only if the file it looked at has
  another one, and two calls that move the same file count twice: `LinksSafe`
  compares the number of calls about to unlink an inode with the number of names
  it still has. Each action is first shown to have one of a few effects on
  names and contents (a look, a fill, a link, an unlink, a rename over a name),
  and what was written survives each of them.
- **AppendTransfer.** One call holds the lock of a name (`LockInv`), so that two
  calls that have one file open have it under two names and are crossed
  (`ApartInv`). `Progress` says what the file of a call that is not crossed holds
  beyond what it had read, at each of its places: calls that open the file later
  know a longer one and write behind it; and a torn chunk belongs to a call that
  is between its two writes or has failed.
- **OwnerBootstrap.** A nonce that is armed, or that the worker holding the lock
  has read, was armed more often than handed out; one worker holds the lock.
- **ModelInstall.** While no two downloads overlap at most one is under way; the
  file it writes has the `.part` name and not the installed one, and holds what
  the stream brought as long as the stream was right; a copy is a file of its own
  under the installed name and holds what was copied so far; and while the last
  receipt is a PASS no download is under way, so that nothing changes the file.

The services:

- **GpuService.** `GpuTypeOK` holds that exactly the inferences in flight are
  pending; what was pending at an opt-out is aborted or has ended in an error,
  and an opt-out waits for the provider with `enabled` FALSE.
- **GpuWorkstation.** An id that was admitted is in the table, or was evicted or
  forgotten in a restart, or its first admission is a window ago; a second
  admission then needs a stamp that was ahead of the server's clock, which never
  goes back.
- **WindowsUi.** A text that an observation is marked with, or that a submit
  carries, was read back under that observation; and a submit that is about to
  press finds the text it compared, or has been disturbed.
- **DesktopRuns.** While nothing has failed a collection has kept what it was
  handed; a job that is EXITED has neither child nor timer, so that nothing is
  left that could change it.
- **SearchSessions.** What is left of the walk is a suffix of the tree, and the
  rows found are as many as there are matches before it; who was told the last
  page was told after the walk had ended.
- **VoiceGateway.** Guesses made before the current window came at least a window
  before its end, and those a limit further back at least two; a renewed window
  keeps this. While logins do not overlap at most one is under way, and it counts
  in the map's window. For the proof of a conversation: a health check that began
  when there was a proof looks for none.
- **McpIngress.** Chunks of a body are only counted once the guards have admitted
  the request, and a head is only written when the handler leaves its guards.
- **RemoteMcp.** Once a handler is over with its instance open, 'finish' is
  awaited, so that the end of the answer closes it.
- **ReadAloud.** Every program that sets `speaking` ends with a post that makes
  the page play; and whoever believes in the page (a flag, a step still to make)
  has one until destruction. A page that plays has its report still to make, and
  each report ends in clearing the flag; a failure that makes none is `unheard`
  until `speaking` is written again.

- **ContentSearch.** As long as nothing was left out, every match that is still
  sought, and not yet found, is beneath an entry that is ahead. That one entry
  is beneath another is said without counting the steps between them: whatever
  set holds the one and is closed under the listings holds the other. So the
  proof needs no induction over the tree: replacing a folder by its listing
  keeps what is beneath it, and a folder that was removed was empty, so that
  all beneath it went before.
- **AuditHistory.** The file only grows, its receipts come in their order, and
  each ends at most one line. A line of the window that is a whole receipt is a
  line of the file (the one that might not be is cut off), a later line of a row
  that is kept is kept, and without a cut the lines of the window are those of
  the file.

The compositions: `SideBySide` shows, in both proof modules, that a behaviour of
the composed specification is a behaviour of each service, by itself or
stuttering; what is proved of a service then holds of the composition, and the
last theorem of each module says so of everything the run checks. Of the type
invariants, most conjuncts are parts of the invariants above; what those do not
need is proved beside them. The voice gateway's needs an argument of its own: a
new login window is an object that neither the map nor a login refers to, and
there is one because there are more objects than logins.

Only model-checked: `LifetimeIsEnforced`, `StatusHeals` and
`ReconnectsUnlessStuck`, which are liveness under fairness. Every other property
of a passing run is a theorem.

## Findings

| Run | What the code does | Where the repository says otherwise |
|---|---|---|
| replay_edge | a token is accepted twice at its expiry instant across a restart | `operator/trusted-issuer-registry.mjs:324` |
| voice_exchange | one approved request gives two sessions | `operator/voice-owner-pairing.mjs:9` |
| voice_overlooked | a request read too early is never shown | `operator/voice-owner-approval-desktop.mjs:8` |
| session_capacity | more than the allowed number of sessions run | `docs/DESKTOP-COMMANDER-PARITY-ACCEPTANCE-20261024.md:82` |
| phone_reconnects | a connection that fails early is never tried again | `docs/REMOTE-PAIRING.md:15` |

## Not modelled

- Schemas and request parsing (`packages/protocol`'s, the MCP servers' tables of
  tools, `apps/desktop/mcp-http.mjs`): they keep nothing that outlives a request.
- The mathematical foundation's matrix packing and radix-64 format: pure
  functions of their arguments, without state or failure that the rest of the
  system could observe. What decides (eligibility, kernel admission) is in
  BridgeCall.
- Of the desktop adapter: directory listings, digests, ranges, the process table
  and its terminate, the skills catalog. Each is one call to the file system or
  to the system and keeps nothing.
- Installation, identity and hosting scripts other than the public ingress:
  one-shot and sequential. Front ends and Android providers: effects outside the
  repository.
- `clients/remote-controller/device-mcp-gateway.mjs`: a pending table like the one
  in RelayCommand's adapter.
- Receipts of the phone are written by several threads without a lock.
  RelayCommand has the two halves of that write for the threads of commands, and
  `ReceiptsAreKept` excludes any loss but that of overlapping calls, which the
  code does not prevent. Other callers of `record` (the service's and the
  screens') are not modelled; they overlap in the same way.
- What the code does not prevent and no document denies is excepted by name in the
  property concerned, and noted as not covered at its hazard: overlapping logins
  and downloads, a name that changes hands before a rename or unlink, a signal
  that fails, a composer that changes before its button is pressed, one file open
  under two names, a replay table lost in a restart, a copy that is cut off, a
  health check that began before the proof it overwrites.
- The ollama adapter's checks of the model's residency: they keep no state.
- Of modelled components: what `PROJECT.json` names in each component's note.

Composition is by promise: BridgeCall uses ReplayGuard through SingleUseConsent
and its adapter through DevicePromise; that the promises are kept is proved.
