# Copperplane in TLA+

This directory holds a formal model of Copperplane, the desktop application in
this repository that connects KiCad, FreeCAD and language models: TLA+ modules
translated from the source, TLC configurations that check them on small
instances, and proofs that TLAPS checks for every instance.

    tlc -workers 2 -config job_protocol.cfg MCJobProtocol      # a run
    tlapm JobProtocol_proofs.tla                               # the proofs

`PROJECT.json` lists the components, the runs, the mutations each property
detects, the source lines behind each definition, the findings and the hazards.

## 1. The system

    webview (React)             app (Rust/Tauri)            daemon (Python)
    lib/ipc.ts, App.tsx  --->   daemon.rs, config.rs  --->  daemon.py and the
                         events secrets.rs            pipes modules it routes to
                        <---                         <---

The webview sends JSON-RPC requests through a Tauri command; the command writes
one line to the daemon's stdin. The daemon reads one line, handles it on its main
thread, writes one line to stdout, and reads the next. Routes in ASYNC_ROUTES
answer with a `job_id` at once and run on a thread of their own, which writes
`job.*` lines to the same stdout. A Rust thread forwards every line of stdout
to the webview as an event.

| component | its state | its operations | what makes it correct |
|---|---|---|---|
| Job protocol (`ipc.ts`, `daemon.rs`, `daemon.py`) | the maps `pending` and `jobs`, two pipes, `JOBS`, a cancel event per job | dispatch, submitJob, dispatchTool, cancel; read, handle, write; run a job | every request is answered at most once and truthfully; a job has one outcome, the caller gets it; nobody waits in a circle |
| Daemon supervision (`daemon.rs`, `supervisor.rs`, `lib.rs`) | child process, last heartbeat | spawn, forward, monitor, shut down | a dead daemon is noticed, a live one is not killed, no process stays behind |
| Project records (`library_store.py`, `App.tsx`) | pointer and manifest per project, `currentProject` in the webview | save, load, set_*, remove, restore, rename, open from a folder, store a review | no acknowledged edit is lost; one folder is one project; what is removed stays removed |
| Parts, symbols, footprints, libraries (`library_store.py`, `datasheet_guidance.py`, `PartDetail.tsx`) | a JSON file per object, a registry, a cached datasheet | confirm, attach, tag, note, cite, guidance and wiring jobs | what a part names exists; a part keeps its tags; no guidance is made that cannot be saved |
| Chat threads and notes (`library_store.py`, `chat_agents.py`) | a JSONL file per thread, notes in records | send, load (migrates), update, promote | no turn is doubled or out of order; a promoted turn has its note |
| Context index (`context_index.py`) | SQLite tables, `last_indexed` | rebuild, ensure fresh, search | what is reported as fresh contains every record; no search sees half a rebuild |
| Reviews (`chat_agents.py`, `library_store.py`, `daemon.py`) | the stored review with a file identity | check, ask, read the reply, store, read back | a finding of our own is shown once; a review is current while the file is what was judged |
| Generated design rules (`kicad_dru.py`, `capability_profile.py`) | the `.kicad_dru` beside a board | write, baseline, DRC, canary, control run | a confirmed report comes from the rules it names; the user's own file stays |
| FreeCAD jobs (`freecad_bridge.py`, `EnclosurePanel.tsx`) | a child process, files, the last output's paths | generate, poll, cancel, time out, export | one outcome, no child and no temporary file left, a shown preview is there |
| KiCad bridge (`kicad_bridge.py`) | a cached client, an open commit | connect, ping, read, inject | a stale client is found out; what an injection reports is so |
| Component pipeline (`component_pipeline.py`, `kicad_write.py`) | the request and its one retry | extract, explain, search, suggest, wire | what is accepted can be drawn; texts belong to their findings |
| Considerations (`consideration_packs.py`, `power_path.py`, `considerations.py`) | none: functions of a project | six packs, raise, clear | what is raised is about something there; ground is no supply |
| Board houses (`library_store.py`, `HouseLibrary.tsx`) | a file per house, the panel's pending import | import, clone, template, edit, reset, delete | nothing replaced that the user did not ask to replace; every entry accounted for |
| Configuration and secrets (`config.rs`, `secrets.rs`, `daemon.py`, `llm_providers.py`, `Settings.tsx`) | `config.json`, keychain, `CONFIG`, the views' copies | load, save, bind, set, clear, check, restart | the daemon works with what was saved; a cleared key answers no later question; nobody is called ready who is not |
| Tool registry and its gate (`tool_registry.py`) | none | dispatch a tool | a gated tool runs only when confirmed |
| React views | view, panel state | select, edit, await | an answer is shown where it belongs |

Left out for good: prompts and provider protocols (their place is an async
route that returns or raises), the geometry scripts for FreeCAD, the parsers of
KiCad files and their rule packs (pure, no interleaving, unit-tested), the build
scripts, the native menu, the site, the board-house data and the assets.

### What is hard here

* **Interleavings.** Job threads and the daemon's main thread share files, `JOBS`
  and stdout; nothing locks the files. The webview's promises, the Rust main
  thread, the forwarder and the daemon are all concurrent.
* **Order.** A job's outcome and the response that announces the job leave the
  daemon in either order, and reach the webview through a different promise
  than the one that builds the handle.
* **Staleness.** Whole records are loaded, changed in one field, and saved; the
  webview saves records it loaded long ago; reviews and guidance are stamped
  after the fact.
* **Failure.** The daemon is killed at exit or dies; files are truncated
  before they are written; a rename touches three places; an import or an
  injection fails half-way; KiCad quits and starts again under a held client.
* **Judgement.** What a model or KiCad says decides what is shown as clean,
  accepted or ready, and it comes as text, as a report of a file that may have been
  discarded, or as a claim of a record.

Each of these is listed with its line under "hazards" in `PROJECT.json`, with the
property that covers it or the reason why none does.

## 2. The modules

| module | models | role |
|---|---|---|
| `JobService` | the promise to a caller of `dispatch`, `submitJob`, `dispatchTool` | abstract specification |
| `Pipes` | the lines in a sequence | operators with lemmas in `Pipes_proofs` |
| `JobProtocol` | `ipc.ts`, `daemon.rs`, the loop and job threads of `daemon.py` | detailed specification, implements `JobService` |
| `MCJobProtocol` | | small instances of it |
| `JobProtocol_proofs`, `JobRefinement_proofs`, `Pipes_proofs` | | theorems and lemmas |
| `ProjectStore`, with `MCProjectStore` and `ProjectStore_proofs` | the project records of `library_store.py`, `currentProject` of `App.tsx`, the `chat.review` job | file-level specification, with theorems |
| `PartLibrary` | a part, its files and tags, its guidance jobs | store |
| `HouseLibrary` | the houses and their panel | store |
| `ChatThread` | an overview thread, its sends and promotions | store |
| `ContextIndex`, with `ContextIndex_proofs` | the retrieval index | store, with theorems |
| `ReviewArea` | a review and its shelf | store |
| `MCStores`, with `Stores_proofs` | | the five stores above, one at a time; theorems about the other four |
| `DruSidecar` | generated rules and their verification | drives KiCad's command line |
| `EnclosureJobs` | builds and exports | drives FreeCAD |
| `KicadLink`, with `KicadLink_proofs` | the client and the injection | drives a running KiCad, with theorems |
| `PowerPacks` | the considerations | functions of a project |
| `ComponentPipeline` | questions to a model and what is made of the answer | pure, with a retry |
| `ModelSetup` | providers, roles, keys, `config.json`, Settings | stores in three processes |
| `MCDevices`, with `Devices_proofs` | | the six parts above, one at a time; theorems about the other five |

The parts under `MCStores` and `MCDevices` share no state at this level (each reads
files of its own), so composing them would multiply states and show nothing: a
behaviour of `StoresSpec` or `DevicesSpec` is one of one part, picked at the start
(`EachStore` and `EachPart` prove that it is a behaviour of every part). A
part whose processes do interact (the webview, the main thread and
the job threads of one store) is one module.

### JobProtocol

A request is named by its JSON-RPC id, a job by the request that started it
(`submit_job` mints a uuid4 for each). The actors and their actions:

| actor | code | actions |
|---|---|---|
| webview | `dispatch`, `ensureListening`, `buildJobHandle`, `handleJobNotification` | `Dispatch`, `Listen`, `InvokeResolves`, `InvokeRejects`, `Deliver` |
| app, main thread | `dispatch_to_daemon`, `write_request` | `RunCommand`, `ResumeWrite` (one command at a time; it blocks while the pipe is full) |
| app, forwarder | the stdout thread of `spawn_daemon` | `Forward` |
| daemon, main thread | `main`, `handle_request`, `submit_job`, `cancel_job`, the gate of `agent_dispatch_tool` | `HandleRequest`, `WriteResponse` |
| daemon, job threads | `_run_job` | `EmitProgress`, `RouteReturns`, `RouteRaises`, `JudgeException`, `EmitTerminal`, `ForgetJob` |
| the world | | `DaemonDies` |

A JavaScript event handler and the promise reactions it triggers are one step,
since the engine drains its microtasks before the next event; everything else
that another actor could see is a step of its own. In particular the
response line and the reply of `invoke()` are separate events, and `buildJobHandle`
runs only when both are there. A line is written whole because of `_stdout_lock`;
the mutation `WriteLineTorn` shows what happens without it.

Left out: `onUpdate` listeners, which only observe; heartbeat lines, which
the webview drops; the configuration line, whose id nobody waits for.
The texts of results and errors are abstracted to the kind of answer.

### ProjectStore

`disk` holds, per project name, what is at `projects/<name>/project.json` (no folder,
a folder without the file, an empty file, two writes mixed up, or a record),
and, per folder of the user, the manifest in it. A record carries its name, its
folder, the `removed` flag and the set of edits it contains. Each
call that changes a record adds one edit of its own: all `set_*` routes change
different fields, so an edit that disappears was lost.

A worker is the daemon's main thread or the thread of a `chat.review` job. What it
does is split at every read, truncation and write of a file:

| code | steps |
|---|---|
| `load_project` | `Read`, `ReadManifest` |
| `save_project` | `SavePointer`, `WritePointer`, `SaveManifest`, `WriteManifest` |
| `set_*`, `set_project_review_result` | a load, the change, a save |
| `set_project_removed` | `ReadFlag`, `SavePointer`, `WritePointer` |
| `rename_project` | `Move`, `RenameRead`, the two writes, `RenameManifest`, the two writes |
| `open_project_from_directory` | `ReadFolder`, the two writes, a load |
| `App.tsx` | `CallLoad`, `CallSet`, `CallSave`, `CallCreate`, `CallHide`, `CallRestore`, `CallRename`, `CallOpen`; `Adopted` is what each handler does with `currentProject` |
| `shutdown_daemon`, a crash | `Kill` |

`projects` is the list of the rail, which the wizard looks a new name up in; `known`
are the names a panel or a call under way may still use. `edit` and `hidden` are
history: which edits were acknowledged, and which names were removed and not put
back, opened, made anew or renamed since.

Validation of a record's fields, and the routes that only read, are left out;
so is `list_projects` except as `Listed`, in properties. The three steps of
`rename_project` before its move are one: what another worker does between them
it could as well do before or after.

### The stores

Every job thread has a program counter in its module, and each load, save, call
of a model and truncation that another thread could come between is a step.
The daemon's main thread handles one request at a time, so a route is one action
where no job touches what it touches, and split where one does. A kill sets every
counter back and leaves the files.

| module | state | steps |
|---|---|---|
| `PartLibrary` | `partFile`, `symbolFile`, `footprints`, `pdfFile`, `libraries`; the panel's copy | the panel's routes (`OpenPart`, `Confirm`, `SaveSymbol`, `SaveConfirmed`, `Attach`, `SaveAttached`, `Tag`, `SaveTagged`, `SaveNote`, `CreateLibrary`, `OpenCitation`); `Guidance` (validate, cache, extract, one step per category, reload, save); `Wiring`; `CancelGuidance`; `WebsiteChanges`; `PartKill` |
| `HouseLibrary` | `library`, the panel's report and pending entries | `ImportPaste`, `ImportFiles`, `ResolveCollisions` (overwrite or rename), `StartFromTemplate`, `Clone`, `SaveEdits`, `ResetHouse`, `DeleteHouse`; the panel is busy meanwhile, so each call is one step |
| `ChatThread` | `chatFile`, `chatNotes`, the history each send read | `send` (read the history, append the question, ask, decide on the caveat, append the reply); `load_thread` with its migration; `promote_turn` (note, read, truncate, write); `ChatKill` |
| `ContextIndex` | the tables as the rebuilds they hold, `last_indexed`, the transaction and its owner, each thread's batch | `Drop`, `EnsureSchema`, `Insert` (one per record), `Commit`, `Query`, `Raises`, `SaveRecord`, `IndexKill`; DDL commits by itself, the inserts are one transaction |
| `ReviewArea` | the design file with its stamp, the check's findings, the reply, the stored review | `StartReview`, `ModelReplies`, `ModelRaises`, `ReadReply` (parse, drop, add the uncited, fall back), `Remember`; the user's `SaveDesign`, `RestoreDesign`, `RemoveDesign` |

### The parts that drive other programs

| module | state | steps |
|---|---|---|
| `DruSidecar` | the board, the one sidecar file, each check's report and saved file | `CheckBoard`, then baseline, write, DRC, the canary's verdict, the control run, putting back; KiCad itself is `Parsed` and `Findings`, from how `run_drc` and its comments use it |
| `EnclosureJobs` | the files by kind and build, the four module globals of the last output, FreeCAD's process | `Generate` (button or menu), `FreecadWrites`, `FreecadEnds`, `CancelBuild`, the poll loop, then globals one by one, `CleanUp`; `StartExport`, `CopyExport` |
| `KicadLink` | `_client`, KiCad's session, its editor, each call's place, what is in a commit, in the board, on disk | `get_client` split at every use of the global (`Check`, `Ping`, `DropStale`, `Connect`, `StoreClient`, `ReturnClient`); `Begin`, `Create`, `Push`, `Save`; `KicadStarts`, `KicadQuits`, `EditorOpens`, `EditorCloses` (the user's, at any time) |
| `PowerPacks` | the project chosen, what is raised and what is cleared | `ChooseProject`, `ProjectConsiderations`: each pack is an operator with the source's name; Python's None is `NotStated`, which no voltage and no current is, and 0 is a value that was stated |
| `ComponentPipeline` | the request, the replies so far, the outcome | `Submit`, `CleanCheck`, `ModelReplies`; `ValidSchema`, `LayoutOf`, `Prioritized` are the pure functions |
| `ModelSetup` | `config.json`, keychain, `CONFIG`, the lines in the daemon's stdin, the push of keys that the app still owes, the question to an agent, the view and its copy, the save under way | the onboarding views, `OpenSettings`, the editor; `WriteConfig` and its failure; `SaveSecret` and `ClearSecret` change the keychain, `SyncSecrets` writes the keys to stdin afterwards, or fails; `ReadSecrets`, `ReadProviders`, `ReadBind`, `ReadAsk` take one line each; a route's thread goes `TakeSecrets`, `Resolve`, `Answered`; `Start`, `Quit`, `DaemonDies`, `OlderInstall` |

Ghost variables remember what the code does not, for the properties only: `cleared`
in `ModelSetup` (the keys that `clear_secret` was done with, copied to a question when
it is put), `discarded` in `KicadLink` (the calls that were about to save when the user
closed the board unsaved), `crossed` in `EnclosureJobs` (two builds ran at once). In
`ModelSetup` one question is out at a time; the routes share nothing but
`_preflight_checked`, which is only ever added to.

`kicad_bridge.configure` has no action: its one caller is `_apply_env_config`, which
`daemon.py` runs at import, when there is no client yet. That is the `_client` of
`LinkInit`.

A text is what the code decides by: a reply is its form, whether it parses, and
its entries; a datasheet quote is what it names and its voltages; a length is
in micrometres where the arithmetic matters and a small number where only the order does.

## 3. The runs

| run | instance | checks |
|---|---|---|
| `job_protocol` | two jobs, or a job and a gated call, and a cancellation of either; pipes of one line | `TypeOK`, `ResultTruthful`, `AnswerTruthful`, `CancelledOnlyIfAsked`, `CancelRefusedAfterReport`, the inductive `IInv`, the refinement `ImplementsService` |
| `job_pipes` | a job, a gated and a synchronous call; pipes of one line, all at once | `EveryDispatchSettles`, and no deadlock |
| `job_fair` | a job and a rival job, gated call or cancellation; the daemon may die | `TrackedJobSettles`, `JobsDrain`, `RejectedAfterDeath` |
| `job_handle` | a job and a rival | `EveryHandleSettles` fails (finding) |
| `project_routes` | one linked and one unlinked project, a free name, two edits, the dedicated routes, a kill | `AcknowledgedEditsKept`, `OneFolderOneProject`, `UnlinkedRemovalSticks`, `KillDamagesOneFile` |
| `project_all` | every route, and a review | `TypeOK` of `ProjectStore` |
| `project_review` | loads, sets and a review | `AcknowledgedEditsKept` fails (finding) |
| `stores` | the five stores, one at a time | the types; `ReferencesResolve`, `ImportReportTruthful`, `ReplacesOnlyWhenAsked`, `MarkedHasNote`, `CaveatRepeatedOnlyByOverlap`, `ThreadInOrder`, `WholeRebuilds`, `FreshIsComplete`, `ReviewShowsTheCheck`, `StaleIffChanged` |
| `devices` | the six parts, one at a time | the types; `ReportFromItsOwnRules`, `OutcomeTruthful`, `UserFileKept`, `FilesAsNeeded`, `LoneCallIsAnswered`, `InjectionTruthful`, `ConsiderationsTruthful`, `AnswersTruthful`, `AcceptedCanBePlaced`, `ClearedKeyNotUsed`, `DeltasExact`, `ReadinessTruthful` |
| `part_tags` | a part and its libraries | `TagsKept` fails (finding) |
| `review_reply` | a review | `UnreadableIsNotClean` fails (finding) |
| `setup_restart` | the set-up of models | `SavedRecordsStillWork` fails (finding) |

Some properties are conjunctions of parts named in their module, each with the
code behaviour it is about:

| property | its parts |
|---|---|
| `StoresTypeOK` | the type of every store, `LibraryIdsUnique`, `GeneratedCanBeSaved`, `NoHouseFromItself` |
| `DevicesTypeOK` | the types of the rules, the builds, the link and the set-up |
| `ImportReportTruthful` | `ReportAccountsForAll`, `FilesCollideOnlyWithTheLibrary` |
| `ThreadInOrder` | `HistoryBeforeQuestion`, `LegacyFirst` |
| `ReviewShowsTheCheck` | `ProseIsNotClean`, `OwnFindingsLostOneWay`, `OwnFindingsOnce` |
| `OutcomeTruthful` | `NothingRelaxed`, `DiscardedTruthful`, `RulesLeftForKicad` |
| `FilesAsNeeded` | `PreviewIsThere`, `NothingLeftBehind`, `SuccessesDoNotPileUp` |
| `InjectionTruthful` | `InjectedIsSaved`, `FailedEarlyLeavesBoard` |
| `ConsiderationsTruthful` | the parts listed at the end of `PowerPacks` |
| `AnswersTruthful` | `AskedAgainOnlyWhenUnreadable`, `EveryFindingTold`, `ExplanationFits`, `SuggestionsAreHonest` |
| `DeltasExact` | `SavedAsSent`, `DefaultsStayMovable` |
| `ReadinessTruthful` | `ReadyMeansSetUp`, `PartFactsWereClaimed` |

`PROJECT.json` has several mutations for most of these, each against another part.

**Bounds.** `Requests` has two or three members: a race of this protocol needs a
job, a rival job or call, and a cancellation. `PipeCapacity` is one or two lines:
with one line every writer blocks as soon as the reader lags, the hardest
case for deadlock; the proofs are for any capacity. In `ProjectStore`, three names
(linked, unlinked, free) are what a rename and a collision need; two edits are
what a lost update needs; one kill shows every torn state, as the states after a
second one are states after a first. `MaxTicks` counts the writes and stamps of the
index and `MaxSessions` the starts of KiCad: two of each are what a stale copy
needs, four ticks leave two for a rebuild; the theorems are for any of them. Two
sends, two builds, two calls and two indexing threads make every pair of threads
that may meet. One check of design rules runs at a time, as in the webview. With `PipeRoom`
for two lines of set-up, the keys and a question or a save can wait behind each
other; two changes (a save of settings, a binding, a key) save a key and clear it, in an
app that is new or that was set up before. The one older install is of a provider that is
still shipped; one of a provider that is not is left to the theorems, which are for any
set-up and any room. `MaxEdits`,
`MaxLibraries`, `MaxCount`, `MaxChanges` and `MaxStamp` stop the user; each lets the
second operation meet what the first left, and `MaxReviewFindings` (60 in the code)
and `MaxExplained` (a chunk) are two, so that lists of three are cut. Each run
explores its whole state space; there are no state constraints.

**Stopping.** `JobProtocol` may stutter only when every actor is at rest (`AtRest`),
so TLC's deadlock check finds any other standstill; the runs of the protocol rely on
it. The other runs check no deadlock: when every edit is made the user may simply stop.

**Fairness.** `FairSpec` assumes weak fairness for each promise reaction, each
thread and the event loop: the engine and the operating system keep scheduling
them. That a job's route ends is assumed too; each is bounded by a timeout of its
own (provider calls, FreeCAD, KiCad). Nobody has to dispatch anything, and
the daemon need not die. Weak fairness is enough for the mutexes, since finitely
many requests contend for them finitely often. The other specifications are safety
only and assume none.

**Mutations.** For each property of a passing run `PROJECT.json` names mutated
forms of definitions that a slip in the code could produce (an ungated tool, an
outcome emitted twice, a read that drops a flag, a commit for each insert);
with each, TLC finds the property violated.

### Findings

1. `job_handle`: a job that ends before its handle is built (`ipc.ts:108`,
   `daemon.py:3067`) leaves a handle whose `result` never settles.
2. `project_review`: a review's thread and a `set_*` route overwrite each other
   (`library_store.py:1797`).
3. `part_tags`: a panel that was opened before its part was tagged writes the tag
   over (`PartDetail.tsx:725`, `library_store.py:156-170`).
4. `review_reply`: a reply with bracketed text that does not parse, in a review whose
   check did not run, is taken for an empty list of findings, and the board reads as
   clean (`chat_agents.py:824`), where a reply without brackets is an error or falls
   back (`chat_agents.py:799-801`).
5. `setup_restart`: the daemon keeps only what differs from a preset, the app
   writes an absent kind to `config.json` as an empty one, and after a restart every
   call of that provider fails (`config.rs:22`).

The reproducing traces are what TLC prints for each run.

### Promises that TLC finds violated, without a run of their own

Each is stated next to its neighbours in its module, so that it can be checked by
adding its name to a copy of the configuration. They are here because they are of
the same kind as a finding above, or because the repository's words leave
room for what the code does.

| property | module | what TLC finds |
|---|---|---|
| `AcknowledgedEditsKept` with the route `save`, or with `hide` and `create` | `ProjectStore` | whole-record saves put back old values (`App.tsx:417`); a new project takes the name of a removed one and replaces its record (`App.tsx:691`) |
| `OneFolderOneProject` with a review and `rename` | `ProjectStore` | the review makes the old folder again (`library_store.py:2203`) |
| `ImportedOnce` | `HouseLibrary` | a renaming import after collisions brings in again what had come in (`HouseLibrary.tsx:245`) |
| `QuestionsKept` | `ChatThread` | a promotion rewrites the thread over a question appended meanwhile (`library_store.py:2061`) |
| `RecoversAfterKill` | `ContextIndex` | a kill between the drop and the schema leaves no tables while the stamp says fresh (`context_index.py:320`) |
| `CurrentIsJudged` | `ReviewArea` | a board saved while its review runs is taken for the one judged (`daemon.py:1223`) |
| `OwnFindingsReachUser` | `ReviewArea` | an entry of the model that cites KiCad and names our finding in its text makes ours count as reported (`chat_agents.py:1558`), and is dropped itself, so that neither is shown (`chat_agents.py:1486`; the docstring at 1524-1541 says otherwise) |
| `GuidanceComplete` | `PartLibrary` | a cancelled guidance is stored as far as it got |
| `OwnFindingsKept` | `DruSidecar` | the canary's rule takes the place of the project's in its own class |
| `LeakBounded` | `EnclosureJobs` | exports and builds that alternate leave more than one extra file (`freecad_bridge.py:681`) |
| `WriteErrorLeavesBoard` | `KicadLink` | a failed save leaves the pushed footprint in the editor (`kicad_bridge.py:236`) |
| `AcceptedHasSize` | `ComponentPipeline` | a body without a length or a width is accepted, and the pads of its two sides lie in one place (`component_pipeline.py:204-213`) |
| `PadsInCourtyard` | `ComponentPipeline` | an accepted courtyard may be smaller than the pads (`component_pipeline.py:106`) |
| `OfferedOnce` | `ModelSetup` | a save from an older copy takes the onboarding mark back (`settings.ts:344`) |

## 4. The proofs

Every safety property that a run checks, invariant or action property, is a theorem,
for every value of the constants: any requests, records, parts, houses, threads,
calls, packages and replies, finitely or infinitely many, and any bound. The runs show
the same properties on small instances, and that what they speak of happens.
The hypotheses that some of them need are named in the table and explained below it.

| module | theorem | statement |
|---|---|---|
| `JobProtocol_proofs` | `TypeCorrect` | `Spec => []TypeOK` |
| | `IInvHolds` | `Spec => [](TypeOK /\ IInv)` |
| | `ResultsAreTruthful` | `Spec => []ResultTruthful` |
| | `AnswersAreTruthful` | `Spec => []AnswerTruthful` |
| | `CancellationsAreAsked` | `Spec => []CancelledOnlyIfAsked` |
| | `RefusalsFollowReports` | `Spec => []CancelRefusedAfterReport` |
| `JobRefinement_proofs` | `ProtocolImplementsService` | `Spec => ImplementsService` |
| `ProjectStore_proofs` | `Types` | `Spec => []TypeOK` |
| | `KillDamages` | `Spec => []KillDamagesOneFile`, without reviews |
| | `OneFolder` | `Spec => []OneFolderOneProject`, without reviews, by the fresh routes |
| | `EditsKept` | `Spec => []AcknowledgedEditsKept`, by the same |
| | `RemovalSticks` | `Spec => []UnlinkedRemovalSticks`, by the same |
| `ContextIndex_proofs` | `RebuildsAreWhole` | `IndexSpec => []WholeRebuilds` |
| | `FreshIndexIsComplete` | `IndexSpec => []FreshIsComplete` |
| `Stores_proofs` | `PartInvariant`, `NamesResolve` | `PartSpec => []PartIInv`, `[]ReferencesResolve` |
| | `HouseTypes`, `ImportsAreReported` | `HouseSpec => []HouseTypeOK`, `[]ImportReportTruthful` |
| | `NothingReplacedUnasked` | `HouseSpec => ReplacesOnlyWhenAsked` (an action property) |
| | `NotesBeforeMarks`, `InOrder`, `CaveatOnce` | `ChatSpec => []MarkedHasNote`, `[]ThreadInOrder`, `[]CaveatRepeatedOnlyByOverlap` |
| | `StaleExactly`, `ReviewsShowTheCheck` | `ReviewSpec => []StaleIffChanged`, `[]ReviewShowsTheCheck` |
| | `StoresTypes` | `StoresSpec => []StoresTypeOK` |
| `KicadLink_proofs` | `LoneCallsAreAnswered` | `LinkSpec => []LoneCallIsAnswered` |
| | `InjectionsAreTruthful` | `LinkSpec => []InjectionTruthful` |
| `Devices_proofs` | `UserFilesAreKept` | `DruSpec => UserFileKept` (an action property), for any number of checks |
| | `ReportsAreTheirOwn`, `OutcomesAreTrue` | `DruSpec => []ReportFromItsOwnRules`, `[]OutcomeTruthful`, with one check at a time |
| | `FilesKept` | `EnclosureSpec => []FilesAsNeeded` |
| | `ClearedKeysAreNotUsed`, `DeltasAreExact`, `ReadyIsTrue` | `SetupSpec => []ClearedKeyNotUsed`, `[]DeltasExact`, `[]ReadinessTruthful` |
| | `ClaimsAreTrue` | `PackSpec => []ConsiderationsTruthful` |
| | `AnswersAreTrue` | `PipelineSpec => []AnswersTruthful` |
| | `PartsArePlaced` | `PipelineSpec => []AcceptedCanBePlaced` |
| | `DevicesTypes` | `DevicesSpec => []DevicesTypeOK`, with one check at a time |

### What they assume

The named assumptions of the modules, which TLC evaluates in the runs. Most say that
bounds are numbers and that sentinels are no values. Those that say more:

* `ProjectStoreAssumption`: the folder that is linked at the start holds the manifest
  of the project that names it;
* `NumberedAssumption` (`PartLibrary`): a slug and different numbers give different ids;
* `HouseAssumption`: a value that the checker passes is positive; files are lists of
  entries, checked by nobody yet;
* `DruAssumption`: the canary's limit is above every measure and limit
  (`_CANARY_LIMIT_MM`);
* `SetupAssumption`: a preset has a kind and states the two fields whose value can be
  null (`_preset_records`); null is no provider's id; an older install names a provider
  that is shipped or was; stdin has room for a line;
* `PackAssumption`: a quote's voltages are plausible ones (`_PLAUSIBLE_MAX_VOLTS` cuts
  the others), the units of one part share its value, an inner layer carries no
  more than an outer one;
* `PipelineAssumption`: of the table of packages, what `PACKAGE_REFERENCE` and
  `DUAL_ROW_PACKAGES` say together: a package drawn in two rows has an even count, a
  pitch, and no exposed pad.

Some theorems have hypotheses of their own, and TLC shows why they are needed:

* four of the five of `ProjectStore` are for behaviours without a review under way, and
  the last three of them for `FreshRoutes` only, the routes that read a record before
  they change it. With a review, or by the routes that write a copy of the webview's,
  the properties fail (finding 2 and the list of violated promises in section 3);
* `ReportsAreTheirOwn`, `OutcomesAreTrue` and the type invariant of the devices are for
  one check at a time, as the webview starts them: two checks write one sidecar file
  under each other.

Others have their condition in the property itself, and the violated promises above
say what happens without it: `AcceptedCanBePlaced` is for a body that has a size where its
pads go (`Apart`, against `AcceptedHasSize`), `PreviewIsThere` for builds that did not
overlap, `FreshIsComplete` for rebuilds that no write met, `StaleIffChanged` for a file
that was not saved while its review ran (against `CurrentIsJudged`), and
`OwnFindingsLostOneWay` leaves out the one way in which the code loses a finding
(against `OwnFindingsReachUser`).

### The arguments

Few of the properties are inductive as they stand. For each module the proofs give an
invariant that is, from which the properties follow.

**The protocol.** That a settled promise is right depends on the lines still on
their way. `IInv` adds

* `RequestReadOnce`: a request is in stdin once at most, and until it is read the
  daemon has done nothing for it. Without it, a second reading of the same line
  could start a thread after an answer;
* `ResponsesTrue`: whoever holds a response (the main thread, a pipe, `reply`, the
  caller) holds a true one;
* `OutcomesTrue`: an outcome on its way equals the thread's state and is the only
  one. This needs lemmas on sequences (`Pipes_proofs`): what appending, taking and
  moving a line does to the set of lines and to their uniqueness, with
  stdout and the event queue seen as one sequence, `wire`;
* `CancellationsAsked`: a set cancel event leads back to a request that asked.

TLC checks `IInv` too, in `job_protocol`.

**Refused cancellations.** `CancelIInv` adds that `JOBS` has every job whose
outcome is not written yet, that a cancellation is of a job that was started, and that
on the wire the outcome comes BEFORE the refusal: an invariant about the order of
two lines, with lemmas on what appending and taking do to that order.

**The refinement.** The mapping gives each request what its job did and what its
caller sees. `ReturnedWhenDone` says that a dispatch has returned when its phase is
done and only a returned job has a handle; with `IInv`, which makes what is returned
true, each action is a step of `JobService` or changes nothing that it sees.

**The project records.** `Typed` says what a worker has in hand and which file it has
open at each of its steps. On it stand, one above the other, `DamageInv` (a file is empty
only while the main thread writes it, or since the one kill), `FolderInv` (the pointer
that a call has read names the folder of the record in hand, and no other pointer
does) and `EditsInv` (the record in hand has every edit of the file it is about
to replace). `RemovalInv` says where the `removed` flag is at each step; a rename cut
off by a kill is the one way to a record without it, which the property allows.

**A part.** `PartIInv` says of every copy of the record, on disk, in the panel and in
a worker's hands, that what it names is on disk already; nothing takes it away.

**The houses.** `HouseIInv`: every house in the library passes the checker, and the
report accounts for each entry in one way. An import is a loop over the entries.
Its run is a function from the entries done to what was reached, and that there is
one for any length is proved by the least length for which there is none (`SomeLeast`,
from the well-foundedness of `<` on numbers), since induction theorems cannot be
instantiated here; the same argument carries `Accounts` along the run.

**A thread.** `ChatIInv`: each turn is once in the file and once in any copy that a
migration or a promotion holds; what a send is about to append is not there yet; and
while nothing is promoted, no question stands between a caveat and its repetition.

**The index.** `IndexIInv` is `IndexTyped`, `TransactionOwned` (the lock's holder is
inserting, into tables that exist, and holds a whole batch when it is about to commit) and
`Undisturbed` (what a rebuild that nothing met has dropped, made and put
in at each of its steps, and what is there when it is over).

**A review.** `ReviewIInv`: no two files of the past have one stamp, so that a stamp
identifies what was judged. `ShowIInv`: what is shown was made of the reply and the
check it was returned with. What the parsing, dropping and adding makes of them is
proved of the functions: `Selected` takes the elements at a set of places, and
lemmas say that each is there once and in order.

**The design rules.** For any number of checks, `DruIInv` says that no check has put the
user's file aside, and that while it is there every check stands before it looks, or
after it gave up. For one at a time, `CheckIInv` says of every step which file is beside
the board and whose findings the report holds.

**The builds.** `EncIInv`: which files a build has at each step, and, as long as no two
ran at once (`Uncrossed`), which global names which file. The files of a build that is
over are gone whatever else ran.

**The link.** `LinkIInv` is `LinkTyped`, `CallPlaced` (what KiCad has of a footprint at
each step of its injection) and `LoneOnItsWay` (the client that a lone call holds or
is about to be given is the session that runs).

**The set-up.** `SetupIInv` has two halves. What is on disk, in the daemon, in an open
view, in a line on its way and in a save under way differs from the presets in what it
states, and states each null; so a delta laid over its preset gives the record back.
`SavesSent` says that a save in the pipe is the one that the view waits for, and the only
one, without which an answer could belong to another copy. The keys need an invariant of
the whole pipe (`KeysKept`): a cleared key is not in the keychain, and whoever reads the
lines up to the question, and stops anywhere behind the last line of keys, has no key
that was cleared before it was put (`Safe`). Appending a line of keys from the keychain
and taking one from the head keep that. A provider asked for part facts has claimed them
since the app was started.

**The considerations.** `PackIInv` is short, as the packs are functions of the
project. The work is in the functions: the net current of a supply, its budget by
the least of its sources, the widths that carry it.

**The answers.** `PipeIInv`: what came out was made of the last reply, and one before it
was an extraction's that could not be read. That the findings are all told, and the
worst first, is a fact of sorting: a finding's place is the number of findings ahead
of it (`Ranks`), which tells them apart, so that there is one at each place.

### What is only model-checked

The liveness properties (`EveryDispatchSettles`, `TrackedJobSettles`, `JobsDrain`,
`RejectedAfterDeath`) and absence of deadlock. Liveness under fairness, ENABLED, induction
over data and RECURSIVE operators are out of reach of the prover that is used; no module
declares a RECURSIVE operator. `AnswerTruthful` is checked by TLC without the death of
the daemon and proved with it, `UserFileKept` with one check at a time and proved for
any number.

## 5. What is left

Not modelled, and why:

* the heartbeat and its monitor (`supervisor.rs`): comparisons with a wall clock, 15 s
  apart; what follows from a kill is in `JobProtocol` and `ProjectStore`;
* the readers of KiCad's files and the structural checks: pure functions of
  files without interleaving; what is done with their results is modelled;
* the tool loop of a provider, prompts, an advisor's scores;
* the deletion, drawing and export of symbols and footprints; measuring a STEP file;
* `set_project_considerations` and `set_consideration_state`, which no route of the
  daemon calls at this commit;
* the build scripts and the native menu.

Planned next, in this order:

1. `ProjectRegistry`, a map from names to sets of edits with atomic operations, which
   `ProjectStore` without reviews and by the fresh routes implements: `EditsKept` and
   `RemovalSticks` then are facts of the registry;
2. an abstract index, of which `ContextIndex` is shown to be an implementation for
   as long as nothing meets a rebuild;
3. `EditsKept` with the routes `open` and `create`, for names that were never removed.
