# Capcom_Patcher in TLA+

Capcom_Patcher is an ASI plugin (a DLL loaded into a RE Engine game) that neutralises the
anti-tamper code of several games: it redirects or patches code that would crash the game, guards
the game's job queue, keeps anti-tamper heartbeats alive and restores functions the game hooks.
It runs inside a process it does not control: the game's threads execute, rewrite and free
everything it looks at, between any two of its steps. That is what this directory models.

Paths below are relative to `src/src/`.

## 1. Inventory

| Component | Code | State | Operations |
|---|---|---|---|
| Start-up, profiles | `dllmain.cpp`, `GameProfile.*` | selected profile | `InitializeASI`, `DllMain`, `Current` |
| Runtime guards | `antitamper/RuntimeGuards.*` | pristine stub and bytes of `NtProtectVirtualMemory`, the original `VirtualProtect`, `g_vehAllowed`, the hook objects | `EarlyInitialize`, `PostLoadInitialize`, `VirtualProtectHook`, `AddVectoredExceptionHandlerHook`, the `RtlExitUserProcess` detour |
| Inline hooks | `hooking/MinHookInlineHook.*` | per hook: target, trampoline, enabled | `create`, `Enable`, `Remove` |
| DbgUi watcher | `antitamper/DbgUiRemoteBreakinWatcher.*` | baseline bytes, running flag | `Initialize`, `CheckDbgUiRemoteBreakin` every 0.5 s |
| DD2-family layer | `antitamper/DD2FamilyBypass.*` | discovered candidates, createBLAS hook | discovery, `CommitRawPatches`, `CreateBlasHook` |
| RE9 layer: job guard | `antitamper/RE9FamilyBypass.*` | guarded call sites, the shared cache of job functions | discovery, `CommitRawPatches`, `ValidateJobFunc` in every scheduler thread |
| PE-header redirection | `antitamper/PeHeaderIntegrityBypass.*` | terminal state, header copy | `Discover`, `Initialize` |
| Stack-destroyer mitigation | `antitamper/StackDestroyerBypass.*` | terminal state | `DiscoverValidated`, `Initialize` |
| Heartbeat worker | `antitamper/RendererHeartbeatBypass.*` | the worker's locals, `Confirmation` | one loop |
| Renderer bridge | `reengine/*` | results of the stages, `FindEncodedFunctionBase`'s statics | `Resolve` |
| Suspension scope | `memory/ThreadSuspension.*` | process-wide mutex, suspended threads | constructor, destructor |
| Raw patches | `memory/MemoryPatch.*` | the image itself | `CommitPatch`, `WriteBytes` |
| Scanning, decoding | `memory/MemoryScan.*` | none (the loops' locals) | `Scan`, `FindPatternInPath`, pointer, string and function searches |
| Emulation | `memory/Emulation.*` | none | `FindRegisterHoldingValue` |

How they interact. `InitializeASI` runs on the loader's thread and calls the guards, the family
layer of the detected game, and the optional layers, in this order, each at most once per call.
The family layers and the two one-shot layers discover candidates (scan, decode), then open a
suspension scope and commit the candidates inside it. Hooks run on whatever game thread calls the
hooked function. Two worker threads run for ever: the heartbeat worker and the DbgUi watcher. The
shared state is: the game's memory (all), the suspension mutex (everyone that commits), the cache
of job functions (all scheduler threads), the pristine `NtProtectVirtualMemory` (all callers of
`VirtualProtect`).

What is hard in it:

 * interleavings with the game between a check and the use of what was checked (renderer
   identity, frame number, job descriptor, bytes of a patch site, page protection);
 * suspending all other threads: threads exit, start and hold locks while it goes on;
 * operations that fail half-way (protection changed but not restored, some threads suspended);
 * shared caches filled by several threads;
 * something must eventually happen: a heartbeat, a resumption, a restoration;
 * scans at the boundaries of windows.

What makes each correct, in one line each: *heartbeat* — frame numbers are written only to a
cluster that several frames confirmed, in the renderer they confirmed it in, and go on being
written; *job guard* — no thread calls a corrupt pointer, no valid job is lost to a repair;
*suspension* — every suspension is undone exactly once, and only threads created since the
snapshot run in an Ok() window; *raw patches*
— a site is replaced only where it matches, never seen half-written, and the outcome tells what
happened; *runtime guards* — a detour always finds its original, tampering with the entry is undone, one wave of handler registrations is blocked, and a failed installation can be retried; *watcher* — a neutralised
payload never runs, an entry is restored; *one-shot layers* — at most one patch per process;
*start-up* — every layer of the profile runs, and calling it again changes nothing more; *scans* — what is found matches, what matches
is found.

## 2. Modules

| Module | Models | Checked by | Proved in |
|---|---|---|---|
| `HeartbeatSync` | abstract: one target at a time, beats increase | `heartbeat` (refinement) | `RendererHeartbeatProofs` |
| `BridgeAnswers` | what `Resolve` may answer in each state of the engine | `heartbeat`, `image_searches` | `SearchProofs` |
| `RendererHeartbeat` | the heartbeat worker beside the engine; EXTENDS `BridgeAnswers` | `heartbeat` | `RendererHeartbeatProofs` |
| `JobGuard` | the job guard in several scheduler threads | `job_guard`, `job_guard_cache` | `JobGuardProofs` |
| `PatchedSites` | abstract: sites are replaced as a whole, and only originals | `windows`, `startup` (refinement) | `RawPatchProofs`, `StartupProofs` |
| `ThreadSuspension` | the suspension scope | `windows`, `suspension_newcomer`, `suspension_heap` | `ThreadSuspensionProofs` |
| `RawPatch` | commits in a window; EXTENDS `ThreadSuspension` | `windows` | `RawPatchProofs` |
| `RuntimeGuards` | installation and detours of the guards | `runtime_guards` | `RuntimeGuardsProofs` |
| `Startup` | `InitializeASI` and its layers, called repeatedly | `startup`, `startup_slow_path` | `StartupProofs` |
| `DbgUiWatcher` | the watcher beside a game that redirects the function | `dbgui_watcher` | `DbgUiWatcherProofs` |
| `MemoryScan` | `ScanParsed` over pages whose protections change | `image_searches` | `SearchProofs` |
| `RendererBridge` | the stages of `Resolve`; EXTENDS `MemoryScan`, `BridgeAnswers` | `image_searches`, `bridge_base_missed` | `SearchProofs` |
| `ConstantDiscovery` | the discovery of constants; EXTENDS `MemoryScan` | `image_searches` | `SearchProofs` |
| `PathWalk` | `FindPatternInPath` | `image_searches` | `SearchProofs` |

How they compose: a raw-patch window *is* a suspension scope (`WindowsAreScopes`); `RawPatch`, byte
by byte, and `Startup`, a layer at a time, both implement `PatchedSites` (the former where no thread is created in a window), so that a commit
can be one step of `Startup`; the heartbeat
worker takes any answer that `BridgeAnswers` allows, and the bridge gives no other
(`AnswersWereTrue`); bridge and discovery run the same `MemoryScan`, step by step.

`MC*` modules and `.cfg` files hold the instances. `PROJECT.json` maps each definition to the
lines it stands for, names for every property a mutated definition that breaks it, and lists the
hazards. A definition whose comment begins "Mutated X" is such a mutant and no part of a
specification.

**RendererHeartbeat.** One action per call of `WorkerLoop` that reaches the engine: `Resolve`,
`GetRenderFrame`/`GetterFault`, `RevalidateIdentity`, `Adopt`, `Scan`, `ReadSentinels`,
`WriteHeartbeats`. Between any two of them the engine may render a frame, reset its
counter, replace the renderer (also at an address used before) or build its type database. The
worker's locals are variables of the same names; class `Confirmation` is the record `discovery`.
A scan accepts any set of offsets, a sentinel check passes or not, a write faults or not: the
memory is the game's. History variables: the latest scan, the run of scans that accepted each
offset, the writes to a renderer since it was replaced.

**JobGuard.** The game loads a job function from a descriptor (`Load`), the mid-hook validates and
perhaps repairs it (`Validate`, `CheckCached`, `Insert`, `Repair`), and the game calls what the
hook left in RAX (`Call`). Descriptors are resubmitted and tampered with at any time. The two
critical sections of `RememberJobFunction` are two actions, and so are the decision and the
compare-exchange of the repair.

**ThreadSuspension.** The constructor's passes (`TakeSnapshot`, one `SuspendThread` per thread,
`PushBack`, `WalkFails`, `WalkEnds`, `Retry`), the window and the destructor, one action per
system call or allocation. Threads start and exit, take and release the heap lock when they run,
and are suspended by others. A pass may fail at any thread. History: what the snapshot of the pass
found, and the threads created since (`newcomers`), which the walk cannot know of.

**RawPatch.** `CommitPatch` and `WriteBytes`, one action per check, system call and copied byte,
in the window of a `ThreadSuspension` scope, while every thread that runs may rewrite bytes and
change protections. A byte is "expected", "replacement" or "other" for the candidate it belongs
to. What a window promises is stated for the windows in which no thread was created since the
snapshot (`NoNewcomer`): a thread that was runs in it and may change anything between two steps.

**RuntimeGuards.** What `EarlyInitialize` and `PostLoadInitialize` try is a plan, a sequence of
installers; each creates, publishes and enables a MinHook hook and undoes it when enabling fails.
Meanwhile game threads run in the detours: `VirtualProtectHook` compares and restores
`NtProtectVirtualMemory` (with the protection it saves and puts back), and
`AddVectoredExceptionHandlerHook` decides about a registration. The game overwrites the entry in
one of two ways: calls still work, or it refuses them (`refusing`). The restoration calls the
overwritten function itself, so a refusing one may deny it (`Denied`) any number of times; that
costs the game nothing of `MaxMeddling`.

**Startup.** `layers` is what a call of `InitializeASI` has left to do for the profile; each layer
discovers and then commits. Whether a site is found is a state of the site: "original",
"replaced" (by a layer) or "other"; decoding is abstracted to that. The window and the commit,
which `RawPatch` takes apart, are one step, in which any of the due writes may fail.

**DbgUiWatcher.** One action per read, query, protection change and written cell of
`CheckDbgUiRemoteBreakin`; every failed check ends in `EndCheck`, as every early return does. The
entry is two cells, opcode and operand: the watcher reads both at once and writes them one after
the other, and so does the game. A region is one address range with a state, a protection and what
the payload holds; the game allocates, reprotects and frees it (the last only when no redirect
leads to it), and puts code there only by allocating it; it installs E9 and FF25 redirects, retargets them and takes them back at any time. The
FF25 slot is read apart from the entry. History: where the entry led during the check (`aims`),
whether the target was freed since the last look (`recycled`) and whether the game wrote the entry
after the comparison (`raced`). What only decides about logging is left out.

**MemoryScan.** The guarded loop of `ScanParsed`, one address per step (`Compare`), and what
follows a fault (`Skip`): the region is queried afterwards, for the address at which the attempt
started. The game may change protections in between. `Scan` compiles its pattern first; for a
pattern without gaps, `ScanCompiled` is `ScanParsed` of its only segment.

**RendererBridge.** One action per stage of `Resolve`, and the two searches of the image step by
step: `ResolveVmContext` counts references from match to match, `FindEncodedFunctionBase` searches
once per process. The engine creates its context, builds the type database and fills it in, and
replaces the renderer, between any two steps; until it is calm every guarded read may fail.

**ConstantDiscovery.** The loop of `DiscoverConstants` and of `DiscoverRe9Constants`, which differ
in their signature and what they note of a match: collect, resume one byte on, leave the last
0x1000 bytes out of every search but the first.

**PathWalk.** The worklist, the visited set and the two limits of `FindPatternInPath`, one
instruction per step, over any program.

## 3. What is checked

* `heartbeat` — `ConfirmedByScans`: a confirmed offset passed enough consecutive scans of the same
  renderer in increasing frames. `AtMostOneStaleWrite`: a replaced renderer gets at most one more
  write. `WritesConfirmedCluster`: a write is to the confirmed renderer, with a number above the
  last one. `ImplementsSync`: the worker implements `HeartbeatSync`; target and beat are the
  confirmed pair and `lastSyncFrame`.
  `EventuallySynchronized`: whatever a turbulent start left behind, in a calm game the worker ends
  up writing each frame to the real cluster.
* `job_guard` — `CallsTrusted`: a guarded thread calls what it loaded, or a function seen in that
  descriptor, or the no-op, and never a corrupt pointer. `RepairKeepsNewerJob`: a repair replaces
  the corrupt pointer it loaded or nothing.
* `windows` — of the scope: `SuspensionsBalanced`, `WindowOrNothing`, and `OnlyNewcomersRun`: of the
  threads that exist when the snapshot is taken none runs in the window, whatever passes failed and
  whatever starts, exits, reuses an identifier or is suspended by others during the walk;
  `ResumedUnlessHeapSuspended`: every thread is resumed at last. Of commits: `OutcomesTellTheBytes`,
  `ProtectionRestored`, `NoBlindWrite`: what `CommitPatch` reports and when it writes, in every
  window in which no thread was created since the snapshot (in the run's commits none is, the
  theorems cover those where some are). `ReplacesWholeSites`: what the threads of the game find (`SeenBytes`, the bytes before a window while it is open) is `PatchedSites`: each
  site as it was or replaced as a whole, never torn, and only an original one is replaced, also
  when protecting or verifying fails.
* `runtime_guards` — `DetoursFindOriginal`, `RetriesCanSucceed`, `OnlyFirstBlocked` and, as
  liveness, `EntryRestored`: tampering is undone at last, unless what is left of the function
  refuses and its page is not writable, when the code has no way of undoing it.
* `startup` — `OneShot`: over all calls, at most one header copy, redirection, stack-destroyer
  patch and worker of each kind. `ReplacesOnlyOriginals`: start-up implements `PatchedSites`; what a
  layer captured long before is still there when it is replaced. `Complete`: a call in which nothing failed leaves no constant and
  no call site of a job that its layers look for. `IdempotentCalls`: with one slow-path selector,
  a further call writes nothing.

* `dbgui_watcher` — `FillsOnlyAimed`: a region is filled only if the entry led there during this
  very check. `RestoresWhatItNeutralized`: the bytes overwritten are the redirect that was
  observed, and its payload is filled to the end. `NothingLeftWritable`: no payload is left
  writable and executable. `RedirectRemoved`: when the game has come to rest, the entry leads to
  no executable private memory.
* `image_searches` — three clients of the searches, one per behaviour. `FirstOccurrence`: an
  occurrence is passed over only if part of it was unreadable at some time, or a protection changed
  between a fault and its handling. `EverySteadySiteFound`: the same of a whole discovery.
  `ContextFound`: only the global context's slot is ever kept. `AnswersWereTrue`: every answer of
  `Resolve` was right at some time of its call, although stages are read one after the other.
  `BridgeTypeOK` says that the stages are kept in their order and that no counter passes the
  threshold by more than one. `SettlesForGood`: once all is up, and unless the one search for the encoded base is lost
  by then (`BaseLost`: made in vain, or past every place where it could succeed), calls come to the
  right answer and give it ever after; a search that is still to come, or under way, must succeed. `WalkExact`: what the walk finds is reachable, and what it does not
  find is not, unless a limit cut a path.

The five other runs end in a violation, each of a sentence of the repository (section 7).

### Bounds

| Run | Instance | Why it is enough |
|---|---|---|
| `heartbeat` | 2 renderers, 2 offsets, frames 0 to 9 of which 0 to 5 turbulent, warm-up 1, 3 confirmations, fault limit 2 | a decoy, a replacement and a reset fit in the turbulent frames; a stale confirmation, its loss, a full rediscovery and a write in the 4 calm ones. The theorems remove the bounds |
| `job_guard` | 2 threads, 2 descriptors, 2 functions, a gadget, an unreadable pointer | one thread repairs what another reuses; the theorems remove the bounds |
| `windows` | 4 attempts, as in the code; without commits: 1 patcher and 2 threads that start and exit, one using the heap, 1 outside suspension; with commits: 1 patcher and 1 thread, 5 bytes on 3 pages, 3 candidates | a thread not reached yet creates the other one, one exits during a walk and another starts under its identifier, passes fail between; another patcher waits for the mutex and is a thread like any other. A site across two pages, one that is no function entry, one outside the image |
| `runtime_guards` | 2 threads, 2 calls of an initializer, 3 acts of tampering | two threads in one detour; a failure and a retry; tampering before, between and after restorations, with a change of the page's protection. Refusals are not counted |
| `startup` | 2 calls, 1 rewriting by the game, 1–2 sites of each kind, every subset of them present | one call after another with a restored site between; both constant layers overlap in one site. The two stack destroyers are symmetric: they are only counted, compared and written |
| `dbgui_watcher` | 1 region, 1 module, 4 moves of the game, 1 failing call | a redirect of two writes, its retargeting or removal, and a change of its payload within one check; the proofs hold for any number of each |
| `image_searches` | 4 pages of 4 bytes, at most one unreadable at first, 2 changes of protection, 2 renderers, threshold 1 (10), instruction length 3 (15), margin 5 (0x1000), walks of 3 instructions, 3 per path, 6 in all | matches across a page boundary, on the last page and in the margin; two slots referred to, one of them too seldom; a page lost and regained during a search. Every program of three instructions with every set of matches; paths and budget are both exhausted in some |

### Fairness and deadlock

* *Heartbeat.* The worker iterates every millisecond or less and a frame takes several, so in the
  calm part a frame ends only when the worker has handled it (`CalmTick`); worker and engine are
  weakly fair. The counter's bound ends the behaviour, so deadlock is not checked in that run.
* *Suspension.* The patcher that owns the mutex is not suspended by a scope but can be by other
  code for a while, hence strong fairness of the scope's steps; a thread with the heap lock that
  can run releases it. In `windows` the scope's steps include those that end a window, so that a commit
  in it gets on as well. Nothing obliges others to resume what they suspend, so the property excuses
  those states. Deadlock is the very subject of `suspension_heap`; in all these runs the system may
  come to rest when all threads have ended.
* *Runtime guards.* A thread in a detour goes on (weak fairness); the game keeps calling
  `VirtualProtect` whenever it can (strong fairness), as an engine that protects code does.
  The game's acts of tampering are bounded, as they are in a process that ends its start-up; refusals by
  what it left there are not. Installations may all fail and
  calls are bounded, so behaviours may end.
* *Watcher.* The worker is a thread of its own and keeps being scheduled (weak fairness of its
  steps). Nobody is bound to call `Initialize`, the start of the worker may be refused, and the
  game's moves are bounded: behaviours may end.
* *Renderer bridge.* The heartbeat worker calls `Resolve` again every 100 ms until it is Ready:
  weak fairness of the bridge's steps. Nothing is assumed of the engine; the property speaks of
  the time after all is up. The two other clients come to an end.
* *Raw patch, start-up.* Safety only; the game may stop, or the bounded calls be used up.

## 4. What is proved

All of these hold for any values of the constants that satisfy the named assumptions.

| Theorem | Says |
|---|---|
| `RendererHeartbeatProofs`: `TypeCorrect`, `ConfirmedByScansHolds`, `AtMostOneStaleWriteHolds`, `WritesConfirmedClusterHolds`, `HeartbeatRefinement` | the invariants of `heartbeat`, and `Spec => ImplementsSync` |
| `JobGuardProofs`: `TypeCorrect`, `CallsTrustedHolds`, `RepairKeepsNewerJobHolds` | the properties of `job_guard` |
| `ThreadSuspensionProofs`: `TypeCorrect`, `SuspensionsBalancedHolds`, `WindowOrNothingHolds`, `OnlyNewcomersRunHolds` | the safety of scopes in `windows` |
| the same: `OwnerNotSuspended`, `ScopeGetsOn` | a scope does not suspend its own thread, and each of its steps brings its end closer |
| `RuntimeGuardsProofs`: `TypeCorrect`, `DetoursFindOriginalHolds`, `RetriesCanSucceedHolds`, `OnlyFirstBlockedHolds` | the safety of `runtime_guards` |
| `StartupProofs`: `TypeCorrect`, `OneShotHolds`, `CompleteHolds`, `OnlyOriginalsReplaced`, `IdempotentCallsHolds` | the properties of `startup`; the last if the image has at most one crasher and one selector |
| `RawPatchProofs`: `WindowsAreScopes`, `PatchTypeCorrect`, `OutcomesTold`, `NoBlindWriteHolds`, `ProtectionRestoredHolds`, `WholeSitesReplaced` | the safety of commits in `windows`. All but the last hold of every behaviour, with threads starting at any time (`ProtectionRestored` needs `EvenSites`). `WholeSitesReplaced` is about behaviours as a whole: commits in whose windows no other thread runs, and those in whose windows no thread was created, implement `PatchedSites` |
| `DbgUiWatcherProofs`: `TypeCorrect`, `AimedCorrect`, `RestoreCorrect`, `WritableCorrect` | the safety of `dbgui_watcher` |
| `SearchProofs`: `BridgeTypeCorrect`, `FirstOccurrenceHolds`, `EverySteadySiteFoundHolds`, `AnswersWereTrueHolds`, `ContextFoundHolds`, `WalkExactHolds` | the safety of `image_searches`, each of the specification of its own client |
| the same: `SearchesGetOn`, `WalkComesToAnEnd` | each step of a search or of the walk leaves less to do; the walk keeps to its limits |

The inductive invariants, and why the properties alone are not inductive:

* `IInv` (heartbeat). `AtMostOneStaleWrite` needs to know that the resolution in hand is at most
  one frame old, and that after a stale write the next thing is a resolution
  (`StaleRendererSpent`, `RendererInHand`); `ConfirmedByScans` needs that every candidate, not
  just the confirmed one, has passed as many scans as `count` says (`CandidatesSurvived`); the
  refinement needs the order of the recorded frames (`FrameOrder`).
* `GuardInv` (job guard). What each thread holds between two steps was legitimate or corrupt when
  it was loaded, and what it is about to insert or restore has been seen in its descriptor
  (`Pending`, `CacheWasSeen`).
* `ScopeInv` (suspension). The snapshot is split into what is still to be walked and what is held
  (`SnapshotSplit`), threads that are held exist (`HeldAlive`), and phases say which of the lists
  may be non-empty (`ScopeShape`). `OnlyNewcomersRun` needs that the threads alive are in the snapshot
  or created since (`SnapshotComplete`).
* `GuardsInv` (runtime guards). Where an installer stands determines what MinHook and the global
  object hold (`HookSteps`), what the plan still contains (`PlanShape`); a detour runs only while
  its hook is enabled (`DetoursEnabled`), which no installer undoes; a thread that puts a
  protection back has saved one (`SavedProtection`).
* `OneShotInv` (start-up). While a one-shot layer is between its steps its state is Uninitialized
  (`Begun`), nothing of it is written and the header has been copied just between copy and commit
  (`Unwritten`), and its candidates are of its kind and at most one (`Candidates`). It uses
  that no site matches the signatures of two layers, the two constant patterns apart.

* `CompleteInv` (start-up). While nothing has failed, what the layer at work has discovered is all
  that is there (`AtHand`), the layers behind it are done (`DoneSoFar`), and no hooked call
  site is original (`Hooked`). `IdempotentInv` adds that after the first
  call everything is done and nothing is due. `OneOfEach`, its assumption, is what the instance of
  `startup_slow_path` violates.
* `OnlyOriginalsReplaced` needs no more than that what waits for a commit was original when it was
  captured (`Captured`); that it still is, is what the commit compares. `TypesInv` says that
  `layers` is a tail of the profile's list and that what is patched or hooked was done by a call
  (`DoneByCalls`).
* `WindowInv` (raw patch). `PatchInv` holds as long as no thread was created since the snapshot:
  such a window is quiet by `OnlyNewcomersRun`, and newcomers are forgotten only outside windows
  (`NewcomersForgotten`), where it speaks of nothing. The types and the shape of a commit
  (`BaseInv`) hold in any case.
* `PatchInv`. While no other thread runs in the window, what was compared still holds when it is acted
  upon (`Matched`), candidates to come have no outcome (`WorkPending`), and each site holds what
  its outcome and the bytes copied so far say (`SitesTold`).
* `WritesThrough` (raw patch). Outcomes alone do not say what the game finds: `Failed` may have
  written or not. In a quiet window the page stays writable while bytes are copied, so a copy that
  begins is completed, and each site with an outcome is as it was or was original and is replaced
  (`Settled`). Closing the window is then one step of `PatchedSites`.
* `PagesKept` and `EvenPages` (raw patch). `WriteBytes` puts the first page's protection back on
  all the pages of a site. `EvenSites` says when that is right: no replacement crosses pages, or
  all the code is protected alike and replacements that share a page share all of theirs. A
  replacement across pages 1 and 2 and one on page 2 alone break it: if the first cannot put its
  protection back and the game then changes page 1, the next commit finds its pages unlike.
* `ScopeGetsOn` (suspension). A lexicographic variant: attempts, then the stage of the pass, then
  the threads of its list. `SearchesGetOn` orders addresses in the same way: the start of the
  search, of the attempt (the end of a region lies past the address asked for), of the comparison.
* `IInv` (watcher). The hook in hand is one of the two forms the watcher understands (`HookInv`);
  at each step of the chase its target is one the entry has led to or, while looks are still to come, one
  the game is just writing a redirect to (`AimInv`); once it is filled it stays filled or was freed (`FillInv`); and a region is writable
  and executable only while the check is between its two protection changes (`WritableInv`).
* `ScanInv` (scan). No occurrence that is certain, i.e. readable since the scan began, lies between
  the start and where the loop stands. The lemma about a skipped region needs that a pattern begins
  with a byte and is no longer than a page, which holds of every pattern in the code.
* `DiscoveryInv`. Every due site behind the search is collected, and the search under way is a scan
  with `ScanInv`.
* `AnswersInv` (bridge). Results kept from earlier calls are still those of the engine
  (`StagesInv`), and the answer of a finished call is among those that were right (`AllowedInv`).
  `CountInv` bounds each counter by the number of references behind the search.
* `WalkInv`. All that was visited or queued lies in every closed set (`StaysInside`), and what a
  visited instruction leads to is visited, queued or cut off (`Frontier`).

Only model-checked: the liveness properties and everything about fairness
(`EventuallySynchronized`, `ResumedUnlessHeapSuspended`, `EntryRestored`, `RedirectRemoved`,
`SettlesForGood`), which need temporal reasoning over `WF`, `SF` and `ENABLED`. For the
suspension scope, the searches and the walk the variants that such a proof would descend along are
proved; that a step is taken while one can be is TLC's. Every other property of a passing run is a
theorem.

## 5. Abstractions

* Decoding and emulation are answers: an instruction is read or not, a site of a layer is found or
  not, an offset is accepted or not. Only the use of the answers is modelled. Searches for bytes
  are modelled themselves, over an image that does not change: they look for code.
* The structures behind the global context are abstracted to which of them exist and are filled in.
* A payload is one address range: the watcher's comparisons of base and size of a region are its
  being the same, still allocated region. The 500 ms between checks are a step.
* System calls fail nondeterministically where the code handles their failure.
* The shared lock of the job cache, the suspension mutex and the mutexes of the one-shot layers
  are atomic steps or an owner variable; C++ lock internals are not modelled.
* `InitializeASI` is called by one thread at a time, as the loader does.

## 6. Plan

Written, in this order: heartbeat and its abstract specification, job guard, suspension, raw
patch, runtime guards, start-up, watcher, the searches with the renderer bridge, and the proofs of
each. What would come next, most valuable first:

1. Globs with gaps (`ScanCompiled`) as a client of `MemoryScan`: the gaps of the slow-path epilogue
   are matched greedily, which can hide a match.
2. The span of the PE-header redirection against the instruction positions of suspended threads.
3. The createBLAS guard, if what the game does with the word becomes known.

## 7. Findings

Where code and documentation disagree, as the runs named show:

* `job_guard_cache`. `RememberJobFunction` tests the cache under the shared lock and inserts under
  the unique lock; two guards on one descriptor may insert in the wrong order, and the "last
  legitimate job function" is then an earlier one.
* `suspension_heap`. `push_back` allocates while threads are suspended. If one of them owns the
  heap lock, the constructor waits for ever and nobody is resumed.
* `startup_slow_path`. A second call of the "idempotent" RE9 layer does not recognise the selector
  that it replaced, searches on, and replaces another if the image has one.

* `suspension_newcomer`. The scope is to "suspend every other thread in this process", but the walk
  follows one snapshot: a thread created by one that it has not reached yet runs in a window that
  reports `Ok()`. `OnlyNewcomersRun` says that this is all that can go wrong.
* `bridge_base_missed`. The search for the encoded function base is made once per process; if its
  page cannot be read at that moment, every later answer is `NotReadyYet`, although "`NotReadyYet`
  is normal during startup and must not permanently disable heartbeat"
  (`doc/work-order/PR4_RENDERER_HEARTBEAT_BYPASS.md:437`).

Met while modelling, with no run of their own. A page whose protection changes between a fault and
the `VirtualQuery` can make a search skip an occurrence that was readable at both times (`raced`). A
constant in the last 0x1000 bytes of the module is found only if it is the first of all. The watcher
cannot tell a region that is freed and allocated again after its last look (`recycled`), overwrites
a redirect that the game writes after the comparison (`raced`; the next check sees what is left),
restores a baseline that was captured half-way through a write of the game, and leaves redirects of
forms it does not know. A modified `NtProtectVirtualMemory` that refuses its calls stays on a page
that is not writable: the restoration asks it, and not the pristine copy, to make the page writable.
`WriteBytes` "returns false (writing nothing lasting)" (`memory/MemoryPatch.h:15`), but when the
protection cannot be put back the written bytes stay; `WholeSitesReplaced` shows that they are then a
whole replacement, and the one-shot layers are Failed for good with their patch in place (and
`g_headerCopy` unset although the redirection leads to the copy). `VirtualProtect` reports the old
protection of the first page only, and `WriteBytes` puts that one back on both pages of a site
(`MixedPages` TRUE breaks `ProtectionRestored`).
Two unapproved handler registrations at the same time are both blocked (`OnlyFirstBlocked` says what
does hold).

## 8. Not modelled

* Emulation (`memory/Emulation.*`) and with it the span and the encoding of the PE-header
  redirection: x86 semantics. Instruction decoding is bddisasm's; MinHook, SafetyHook and Zydis
  are third-party code.
* In `memory/MemoryScan.cpp`: globs with gaps, the pointer, string and relative-reference
  searches and the lookup of functions by unwind data, whose loops are those of `ScanParsed` over
  other comparisons.
* The createBLAS guard of the DD2 layer: what the game stores in the word it restores, and when, is
  not in the repository.
* The sentinel arithmetic of the heartbeat worker (`AcceptCluster`) and the walks through the tables
  of the type database: questions to the game's memory with any answer.
* The termination of the process by the `RtlExitUserProcess` detour, string and path helpers, and
  logging.
* Inside what is modelled: a type database whose version field is not filled in yet (a database has
  its version when it appears); a site that matches neither of two layers' patterns because of what
  the first one wrote (a site is in one state); the failure of `MH_RemoveHook` after a failed enable,
  which the vendored MinHook cannot report at that point.
