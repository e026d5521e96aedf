# A verification project for property-management-leadgen

A desktop application finds owners of rental property and prepares them as sales
leads. A Tauri shell (Rust) shows a webview (JavaScript) and talks over the stdin
and stdout of a child process, the *sidecar* (Python), which keeps everything in
one SQLite file. This directory holds TLA+ modules of the parts where steps of
several actors meet, TLC configurations that check them on small instances, and
TLAPS proofs of what matters most. All source paths below are relative to the
repository.

## 1. The system

| Part | Source | State | Operations |
|---|---|---|---|
| Sidecar bridge | `src-tauri/src/main.rs` | `SidecarState`: the slot with the handle (`inner`), buffered events, restart count and window | `sidecar_command`, `sidecar_poll_events`, `sidecar_health`, `attempt_restart`, start-up |
| Command loop | `src/main.py` | the SQLite connection, the start time | one line in, one response out; some 20 methods; parent watchdog; signals |
| CAPTCHA handler | `src/captcha/handler.py` | table `captcha_sessions` | detect, save a session, emit an event |
| Discovery agent | `src/agents/discovery.py` | tables `properties`, `ownership` | parse a CSV, save its records |
| Do-not-call checker | `src/compliance/dnc_checker.py` | table `dnc_list` | check, add, remove |
| SQLite layer | `src/db/*` | the file; per connection an open transaction and its snapshot | connect, create, seed, migrate |
| Credentials | `src/utils/credentials.py` | OS keychain, a file, masked keys in `llm_settings` | store, get, delete, migrate |
| HubSpot export | `src/utils/hubspot_client`, `src/agents/output_synthesis.py` | request timestamps, an HTTP client per export | rate limiting, batches, deduplication |
| Rate limiter, county scrapers | `src/utils/rate_limiter.py`, `src/scrapers/county_assessor.py` | failures per domain, times of requests that nothing writes | retry with back-off |
| Unmasking, scoring, LLM clients | `src/agents/*`, `src/scrapers/ca_sos_parser.py`, `src/llm/*` | a temporary file | one pass per call, three services |
| Frontend | `frontend/src` | leads, notifications, the CAPTCHA slot and its modal | calls the bridge, polls every 2 s |
| Token policy extension | `.omp/extensions/token-policy` | artifacts on disk, the ledger | save, prune, read |
| Not the program's logic | `src/utils/logging.py`, `ipc_router.py` (imported by nothing), packaging, CI | | |

How they meet: the frontend *invokes* `sidecar_command`, and invocations run
concurrently on Tauri's async runtime. Each takes the handle out of
the slot, writes a line, reads lines until a response, and puts the handle back.
Events come as lines between the command and its response and wait in a
buffer for the next poll. The sidecar serves one line at a time on one
SQLite connection; the file may be open in a second process (the container of
`docker-compose.yml` mounts the same `~/.leadgen`, and a sidecar in the middle
of a request outlives its app). No handler of `main.py` rolls back.

What is hard here: concurrent commands on one pair of pipes; a process that may
die between any two steps; responses without a checked correlation id; events
that must survive restarts; transactions left open by failed requests; two
processes on one write lock. `PROJECT.json` lists each hazard at its line.

What makes each part correct, in a sentence: the bridge gives a command its own
answer or a true error and loses no event; the store keeps what was confirmed
and never shows a torn record; a confirmed key stays stored while its file can be
read and written; a HubSpot client never sends more than its window allows; an export
hands out the last lead of each parcel; a polled event reaches the modal; no excerpt
refers to an artifact that was lost. Where the code promises more than it does
(section 3), a run finds the violation or the text names the disagreement.

## 2. Modules

| Module | Models | Extends | Proofs in |
|---|---|---|---|
| `SidecarBridge` | `main.rs` and the loop of `main.py` with `captcha.emit_event` | `Lists` | `SidecarBridgeProofs` |
| `SidecarService` | what a caller may rely on: one command at a time, effects inside calls | instantiated by `SidecarBridge` | |
| `RestartBudget` | `attempt_restart` with its clock | | `DesktopProofs` |
| `Desktop` | the window's captchas, the shell's end, the sidecar's ends | `RestartBudget` | `DesktopProofs` |
| `LeadStore` | the handlers that read and write the SQLite file, in several processes | | `LeadStoreProofs` |
| `SerialStore` | what those processes may rely on: one draft of the file at a time, no lost update | instantiated by `LeadStore` | `LeadStoreProofs` |
| `Credentials` | keychain, file and rows of the LLM keys, start-up | | `EntityUnmaskingProofs` |
| `EntityUnmasking` | `entity.unmask` with its three services, between the requests of `Credentials` | `Credentials` | `EntityUnmaskingProofs` |
| `LeadExport` | `output.*`: deduplication, HubSpot's batches; telephone numbers | `Lists` | `LeadExportProofs` |
| `HubSpotLimiter` | `_wait_if_needed` | | `ArcgisQueryProofs` |
| `ArcgisQuery` | `_arcgis_query` and the `RateLimiter`, on one thread with HubSpot's requests | `HubSpotLimiter` | `ArcgisQueryProofs` |
| `ArtifactStore` | the saves and cleanups of the token-policy extension, in several sessions | `Lists` | `ArtifactStoreProofs` |
| `Lists` | a filter as a loop over a list; models no code of its own | | `ListsProofs` |
| `MC...` | constants for TLC | the module of that name | |

Where a module extends another it is their composition: `Desktop` steps the budget
with the rest of the shell, `EntityUnmasking` reads the rows that `Credentials`
writes (and both end when the process does), `ArcgisQuery` shares the clock and the
thread with `HubSpotLimiter`. `RestartBudget`, `Credentials` and `HubSpotLimiter`
are specifications of their own (`BudgetSpec`, `CredentialSpec`, `LimiterSpec`); TLC
checks the compositions, and theorems show that each composition implements the
specification it extends. A composition's proofs and those of what it extends are in
one module.

### SidecarBridge

An element of `Commands` is one invocation of `sidecar_command`; `pc` says where
it is: `new`, `write` (the handle taken), `newline`, `read` (in the receive loop),
`restore` or `restart` (the two branches after the I/O closure), `done`.

| Action | Code |
|---|---|
| `TakeHandle`, `NotRunning` | `guard.take()` (main.rs:85-88) |
| `WriteInput`, `WriteNewline` | the two writes (92-101), which fail when the process has ended |
| `Receive` | one turn of the receive loop (103-142) and what follows its end (144-153) |
| `ReceiveClosed` | `recv()` returned `None` (137-140) |
| `RestoreHandle` | the handle goes back (165-168) |
| `AttemptRestart` | `drop`, `attempt_restart`, `spawn_sidecar` (32-65, 157-164) |
| `PollEvents` | `sidecar.poll_events` and `sidecar_poll_events` |
| `ReadLine`, `HandleCommand`, `WriteResponse` | the loop of main.py:490-511 |
| `SaveSession`, `EmitEvent` | `captcha.emit_event` (main.py:348-356, handler.py:68-136) |
| `Die` | the process ends, at any moment, for any reason |

A line carries a tag with the command it is about. No guard of the Rust part reads
it, since `main.rs` compares no ids: that every command still gets its own answer is
a property (`OwnAnswer`), not an assumption. `Terminated` is the shell plugin's
report of the end of the process; `Ignored` stands for what the loop only logs
(stderr, `Error`, a line that is no JSON). `executed`, `emitted` and `delivered`
are history.

Left out: the text of requests and responses; poisoned locks (a panic while one is
held); the clock of the restart window, which here may run out or not at any restart,
so every count the code can reach is covered and some more (`RestartBudget` has the
clock).

### SidecarService

`Call`, `TakeEffect`, `Return`, `Refuse` for one command at a time, with `down` for
a sidecar that is lost for good. `SidecarBridge` implements it with `status`
`open` while the command owns the handle, `effect` the executed commands, `answer`
the kind of result, and `down` when neither the slot nor a command has a handle.

### LeadStore

`disk` is the committed database; each process has a transaction state: none,
begun (Python's `sqlite3` has sent BEGIN and nothing has been read or written),
reading (a snapshot is pinned), writing (it holds the write lock). `Write`, `Raise`,
`Busy`, `Read` and `Commit` are SQLite in WAL mode as seen through Python's
`sqlite3`: they are written from the behaviour of the library for the settings of
`db/connection.py`. A statement that meets the lock fails after `busy_timeout` and
leaves the transaction begun; a snapshot that another commit has overtaken can
never write again. The handlers are one action per statement:

| Action | Code |
|---|---|
| `Import`, `UpsertProperty`, `FindOwner`, `SaveOwner`, `CommitImport` | `discovery.import_csv`, `save_to_database` (discovery.py:98-184) |
| `RequestAdd`, `RequestRemove`, `WriteNumber`, `CommitAdd`, `CommitRemove` | `add_dnc_number`, `remove_dnc_number` |
| `CheckNumber`, `ReadLeads` | one SELECT: `check_dnc`, `system.health` and the like |
| `ApplySchema`, `Seed`, `CommitSeed` | `schema.apply` |
| `Start`, `Crash` | start-up with its schema, the end of the process |

A *bad* record is one whose assessed value does not fit SQLite's INTEGER: the
statement raises in the middle of the import. `ownership` has no UNIQUE
constraint, so `owners` counts the rows of each (apn, owner). A request that
changes settings, an LLM row or a CAPTCHA session is, for the lock and
the open transaction, like `add_dnc`: one statement and a commit.

Left out: a full disk, checkpoints, the columns that no property tells apart, the
foreign key (the property of a record is always written before its owner, which
`WholeRecords` checks), and phone normalisation (phones are normalised numbers).

### SerialStore

What the sidecars on one file promise, without statements, locks and failures: `Change`
(one row, in the draft of the one client that writes), `Publish` and `Leave` (the draft
becomes the data, or is forgotten), `Keep` (from now on read this version) and `LookUp`.
`LeadStore` implements it with the file as `data`, the holder of the lock as the
`writer`, what it sees as the `draft`, and what a reading transaction has pinned as its
`version`. An import is not one step of it: a failed import leaves its rows in the draft,
and the next commit of that process publishes them, so what is atomic is a commit
and not a request. That what it publishes is whole records is `WholeRecords`.

### RestartBudget and Desktop

`RestartBudget` is `attempt_restart` (main.rs:32-65) and nothing else: `count` and
`window_start` as in the code, a clock in ticks of which `Second` make a second,
because `as_secs` drops the fraction and so lengthens the window by up to a second.
`restarts` is history.

In `Desktop` a command is one step of the sidecar (`Command`, `EmitEvent`,
`Respond`); `slot` is `inner`. What is new is around it:

| Action | Code |
|---|---|
| `Terminated` | the receive loop's end and `attempt_restart`, with the budget and its clock |
| `Exit`, `ReadEof`, `PollParent`, `Die` | the end of the shell; `if not line: break`, `_poll_parent`, signals and crashes |
| `Poll`, `Deliver` | `pollSidecarEvents` and its answer (app.js), which `setInterval` lets overlap |
| `Dispatch` | the listeners of `captcha-detected` in app.js and CaptchaModal.js |

The watchdog is a thread: its `sys.exit` raises `SystemExit` in that thread and ends
it, not the process, whatever its docstring says. That an orphan ends all the same
(`OrphanEnds`) is the work of the end of stdin and of the broken pipe. If the events
of one poll are several, the last one is what the modal shows. `init` may run twice
(`x-init` beside Alpine's own call), so that there are two timers: overlapping polls
are modelled anyway. `dispatched` is history.

Two facts of the frontend decide what can happen at all. The modules under `components`
use the name `Alpine`, which only app.js imports (line 8) and nobody puts on `window`:
every handler of theirs that reaches it throws a `ReferenceError`. So the modal's
buttons clear neither its flag nor the slot, and a search of the dashboard
or a saving of the settings never begins; those are therefore not modelled. And `ipc` and
the poll timer ask for `window.__TAURI__` (`IS_TAURI`, app.js:65 and 217), which
`tauri.conf.json` does not enable (it has no `withGlobalTauri`). `IS_TAURI` is a constant
of the model, a guard of `Command` and `Poll`; the runs set it, because without it the
window neither sends a command nor polls, and nothing is left to check.

### Credentials and EntityUnmasking

Per provider: `keychain`, `file`, `row` (the committed `api_key`), where `None` is
no entry; a mask is a value that says whose first four characters it has. `kept` (the
last key that was confirmed) and `doubt` (the providers whose key was not stored anew since
the file could not be read, or a write of it was cut short) are history.

| Action | Code |
|---|---|
| `SetKey` | a request of `llm_settings.set`, with a key, a mask or nothing |
| `StoreKey`, `WriteRow` | `llm_settings.set` (main.py): `store_credential`, whose answer is ignored, and the row |
| `StoreCredential` | `store_credential`: the keychain, or the file, or a failure of either |
| `InFile` | the file is read, changed and rewritten whole; whatever fails in reading or decoding it (an I/O error, another host name, since the file is bound to it) is read as an empty store, which is then what the new key is added to |
| `CutShort` | a write of the file that ends after `write_text` has truncated it: what is left reads as empty |
| `Start`, `MigrateRow`, `CommitMasks` | start-up: `migrate_from_sqlite`, one row at a time, and the one commit |
| `Stop` | the process ends anywhere, inside the file's write too |
| `Unmask`, `SearchSos`, `DownloadPdf`, `ExtractText`, `AskProvider`, `Reply` | `entity.unmask`, a step per service call |
| `Abort` | the process ends during a request |

Whether the recorded owner is an entity is a free choice of `Unmask`: it is a
question about words in its name. `pdf` is the request's temporary file, `partial` when
its writing failed (before the `try` that removes it) and `tried` when its removal
raised (`Finally`). A hit of the search that is no object raises after the search's own
`try`, so that the request fails after the search alone. `Clients` is
`get_active_llm_client`: the first active row by provider name (several may be
active), its `api_key` as it is in the row. Facts of the code that the model has:
without a `base_url` the Anthropic branch reads `ANTHROPIC_API_URL`, which the class
does not have (factory.py:56), and the `AttributeError` makes every `entity.unmask` an
error; errors in decoding JSON escape the providers' promised `RuntimeError`; the
download's HTTP status errors escape its "None on failure". A `base_url`, where there
is one, changes only where the request goes, so it is a choice here.

Left out: `get_credential`, which changes nothing and which `llm_settings.get` calls for a mask;
`delete_credential`, called by nobody; and the settings form, whose handlers throw
(above): `SetKey` is any client's request.

### LeadExport

One request at a time. A lead is its parcel, its e-mail address and its telephone
number; a number is written with or without a plus and as a
sequence of digits, what else stands between them being stripped by the code, and
belongs to one of `Numbers`.

| Action | Code |
|---|---|
| `ExportFile` | `output.export_csv`, `output.export_json` |
| `ExportHubspot`, `NothingToSend`, `BatchUpsert`, `BatchFails` | `output.export_hubspot` (main.py:286-312), `export_to_hubspot`, `batch_upsert` |
| `AddNumber`, `RemoveNumber` | `compliance.add_dnc`, `compliance.remove_dnc` |
| `SetToken` | `settings.set` of the HubSpot key |

`BatchFails` includes the answer that is lost after HubSpot has written the contacts:
the request is answered with an error and the contacts stay. What HubSpot has written,
and the lists `succeeded` and `failed` of a response (two independent lists of HubSpot's
answer, of which the code compares neither with what it submitted), are left out: of a
response the model has the kind. `Deduplicate` is the
dictionary by parcel of `deduplicate`; `NormalisePhone` counts the digits and looks at the
first one or two as the code does, and has no answer for another count. `CheckDnc` has no blocked area codes, since no handler passes the
configuration they are in.

### HubSpotLimiter and ArcgisQuery

`LetThrough` is `_wait_if_needed`: drop the stamps the window has left behind, sleep
until the oldest of a full deque leaves it, append. The sleep may last longer than
asked for (`Slack`). The limit is per client, and `output.export_hubspot` makes one
for each export (`NewClient`), so nothing bounds what several exports send
together, though the comment in the code speaks of the limit of an app.

| Action | Code |
|---|---|
| `Query` | the start of `_arcgis_query`: `wait_if_needed`, once for all attempts |
| `Answered`, `Refused`, `Unreadable`, `Retry` | the ends of one attempt: an answer, an error not worth a retry, a body that is no JSON, a retryable failure |
| `Upsert`, `Export`, `Idle` | HubSpot's requests on the same thread, and time that passes |

Facts of the code that the model has: `_last_call` is never written, so the minimum
interval is never waited for; the retries do not ask the limiter; the last attempt sleeps too; `2**n` as a factor of a
float raises `OverflowError` after 1024 failures in a row (`Overflow`), and as
nothing is recorded then, the domain stays blocked until the sidecar is restarted.

### ArtifactStore

An element of `Artifacts` is one large tool result. `pc` follows it through `save`
(`directory`, `raw`, `meta`, `cleanup`, `prune`) and the metadata's update (`read`,
`rewrite`) to what the model is shown: `reduced`, an excerpt with a reference, or
`original`, the tool's result as it was. `order` is the directory listing by mtime;
`chain` holds a session's cleanups with the set each protects, copied when it was
asked for; `left` is the prune that runs.

| Action | Code |
|---|---|
| `BeginSave`, `MakeDirectory`, `WriteRaw`, `WriteMetadata`, `FailSave`, `ReturnRecord` | `save` (artifacts.ts:106-153) |
| `RequestCleanup`, `NextCleanup`, `EndPrune`, `FailPrune` | `cleanup` (100-104) |
| `Scan`, `Skip`, `UnlinkFiles`, `RemoveDirectory` | `prune` (228-250) |
| `ReadMetadata`, `RewriteMetadata` | `updateMetadata` (155-166) as called in `transformSafeToolResult` |
| `Retrieve` | `safeDirectory` (199-203) under `token_context` |

A raw text is one unit long. `rm` of the prune is two steps, since other sessions
and the metadata's update may run between them; the scan of a prune, with the
removal of what is past its retention, is one step. Sessions are not ended. Left out:
the content of files, ties of mtime, whether Pi runs handlers one after another
(here they overlap freely, so every order it may choose is covered).

## 3. Runs

| Run | Bounds | Result |
|---|---|---|
| `bridge` | 3 commands, 2 of them with an event, 1 restart allowed, 3 deaths | all properties hold, 42 049 states |
| `bridge_idle_death` | the same | `RestartOnTermination` violated |
| `bridge_busy` | the same | `NotRunningIsTrue` violated |
| `store` | 2 processes, 2 parcels, 1 owner, 1 phone, 4 files | all properties hold, 311 778 states |
| `store_stale` | the same | `CheckSeesTheList` violated |
| `artifacts` | 2 sessions, 2 saves in one of them, 1 expired artifact, room for 1 | all properties hold, 261 402 states |
| `unmask` | 2 providers, 2 keys | all properties hold, 1 222 440 states |
| `unmask_masked` | the same | `ClientHasTheKey` violated |
| `export` | 156 lists of up to 3 leads, 8 written forms of 2 numbers, 2 open clients | all properties hold, 7 858 states |
| `export_dnc` | the same | `ListedIsNotExported` violated |
| `arcgis` | 2 counties, 3 attempts, clock to 5, 2 requests a window of 3, 3 requests a client | all properties hold, 40 385 states |
| `desktop` | 2 polls, 3 events, 4 deaths, 1 restart a window of 2, clock to 5 | all properties hold, 240 240 states |

Why the bounds are enough. Bridge: one command may wait, one may be refused and one
may come after a restart; two events show an order; with one restart allowed the
budget is exceeded within three deaths, and four processes exist in the runs where
the window runs out. Store: two processes are the
deployment; the files cover no record, a failure at the first record (a transaction
begun with nothing in it) and at a later one (rows left behind), an owner named
twice in one file (the update) and a record without an owner. Requests and crashes
are not bounded: the state space is finite as it is.

Artifacts: two saves of one session overlap and exceed the maximum together, the
second session's cleanup protects neither, and three cleanups can queue up in the first.

Unmask: one provider is Anthropic and one serves locally, so each branch of the factory
is taken; a key longer and one no longer than four characters are masked differently, and
two providers are the least in which storing one key can erase another. Exports:
three leads are the least in which a parcel's first, last and another's lead all differ;
one number is written bare, with 1, with +1, with 11, as dialled from abroad, and with
extensions of one and two digits, and one number is of another country.
Arcgis: three attempts use both back-offs and the repetition of the last one, failures
reach the overflow across queries, and a client makes one request more than a window
allows. Desktop: three events are one more than there are polls. With one restart a window, three restarts within a period would exceed
the bound of two, and four deaths and a clock past two periods let them be tried.

`CHECK_DEADLOCK FALSE` in the bridge, the artifacts and the desktop: when every command has
returned, every save ended or the shell is gone, nothing more need happen; in `arcgis`
the bound of the clock ends the run. The store, the exports and the unmasking never stop.

What the properties say:

* `OneHandle`, `OneSidecar`: the `Option` in the slot is all the mutual exclusion
  there is on the pipes, and no restart puts a second process beside a live one.
* `OwnAnswer`: whoever reads a response is the command it answers.
* `DefiniteAnswer`: "not running" and a failed write mean no effect, a result
  means an effect; only "terminated" and "closed" leave the caller in doubt.
* `NoEventLost`, `EveryEventArrives`: what was written to stdout is delivered once,
  in order, across deaths and restarts. `EventHasSession`: and can be resumed.
* `EveryCallReturns`: no command hangs, whatever dies while it waits.
* `ImplementsService`: all of the above as one abstract service.
* `OneOwnerRow`: SELECT-then-INSERT without a constraint makes no duplicates. It is
  the order of statements that saves it: the property's upsert has taken the
  write lock before the SELECT.
* `WholeRecords`: a failed import is not rolled back, and what it had saved
  is committed by the next unrelated commit; only whole records get to the file.
* `ConfirmedIsDurable`, `ReadYourWrites`: a confirmed request is in the file and
  stays visible to its own process, even one stuck in an old snapshot.
* `EveryRequestIsAnswered`: a lock held by a failed request costs the others an
  error, never a hang.
* `ImplementsSerialStore`: a transaction that a failed request left open may read an old
  file but never write on top of it, so no committed row is lost to another process,
  whatever it writes; and nobody reads another's rows before they are committed.
* `QueuedIsKept`: a save that waits for its cleanup is spared by that one and all
  that queue up behind it. Nothing more holds: a cleanup asked for earlier, or another
  session's, may prune the artifact of a save under way.
* `LostIsNeverShown`: such a loss is noticed before the model is shown an excerpt, so
  that the full result stays. It speaks of removals that are complete: while `rm` is
  between the files and the directory, the metadata's update may still succeed
  (a hazard in `PROJECT.json`).
* `EverySaveEnds`: failing cleanups delay a tool's result but never keep it.
* `RestartsAreBounded`: the window tumbles, so a crash loop can have twice
  MAX_SIDECAR_RESTARTS restarts in one period, and never more.
* `ModalOpens`: an event that waits for a poll is handed to the modal or the shell ends,
  whatever the overlap of polls and the deaths of sidecars. `IInv` of `Desktop` adds that
  slot and modal, which learn of events by different listeners, always agree, and that no
  event is in two places between the buffer, the polls and the window.
* `OrphanEnds`: no sidecar outlives the shell for ever.
* `ConfirmedKeyIsKept`: a key that was confirmed is in the keychain or the file until the
  next for its provider. A file that could not be read when another key was added to it,
  or a write cut short, may lose the keys stored before it (a defect of the code, below),
  and none of those stored later.
* `OnlyStoredKeysAreMasked`: the only copy of a key is never replaced by its mask,
  though the masks of all rows wait for one commit.
* `WholeFileIsRemoved`: the temporary file of a statement does not outlive its reading,
  whichever service fails and how. One whose writing failed, or whose removal does, stays,
  and then the response is an error: one that is none leaves no file.
* `LastLeadIsExported`: deduplication, then the cut to leads with an address: what goes
  out of a parcel is its last lead, and an export that succeeds leaves none out.
* `ListedIsFound`: a number that was added to the do-not-call list in one written form, and
  not removed in another, is found in every form that leaves ten digits.
* `OnlyEmptyExportsLeak`, in the `IInv` of `LeadExport`: the HTTP client of an export is closed
  on every path but one (a request without leads, main.py:291), which it counts.
* `WindowIsKept`: pruning before the sleep and stamping after it keeps the window.
* `EveryQueryReturns`: retries end.
* `IInv` of each module: its types and bookkeeping (all proved, as parts of the inductive
  invariants of section 5).

What the violated properties say of the code (each is quoted in `PROJECT.json`):

1. A sidecar that dies while no command is in the receive loop is never
   restarted: the next command's write fails, and the failed write puts the dead
   process's handle back.
2. A command that arrives while another is served is refused with "Sidecar is
   not running". The frontend's own start-up sends two commands at once.
3. After a failed import a process stays in its transaction; its first SELECT
   pins a snapshot, and from then on it answers `check_dnc` from that: a number
   another process has added since is "clear". Every write of that process fails
   too, until `schema.apply` (whose script commits first), an empty import, or a
   restart.

4. The LLM client is built from the row of `llm_settings`, which holds the mask:
   once a key is stored, the provider is sent four characters and "\*\*\*\*". What works
   are old rows whose key could not be moved, and, until the next start, keys of at most
   four characters.
5. No export looks at the do-not-call list, though the README promises a check before any.

Other disagreements of the code with what is written in it, met while modelling. No run
shows them, and no property above depends on their being otherwise:

* A file of credentials that cannot be read or decoded is taken for an empty one, and the
  next key stored replaces everything in it: keys that `store_credential` has confirmed for
  other providers ("True if stored successfully", credentials.py:48) are erased
  (credentials.py:152-154). `InFile` has this.
* A key that the keychain refuses goes to the file and is confirmed, and `get_credential`
  goes on returning the older one of the keychain (credentials.py:57-83).
* `llm_settings.set` drops the answer of `store_credential`: it masks the row and answers
  "OK" though neither store took the key (main.py:361-377). `StoreKey` and `WriteRow` have this.
* `_search_sos` returns its first hit whatever it is. One that is no object raises after
  the search's `try` (entity_unmasking.py:209), so the response is an error and not the
  status "error" of line 183. `SearchSos` has this.
* A contact that HubSpot neither confirms nor names in its errors is in no list of the
  report, though line 255 speaks of "each failed contact" (hubspot_client/\_\_init\_\_.py:309-317).
* A listed number with an extension, or written as it is dialled from abroad, is clear to
  call, though dnc_checker.py:88 speaks of "any common format". `NormalisePhone` has this, and
  the forms of the run include these.
* The minimum interval between the requests to a county is never kept, though
  rate_limiter.py:49-50 says that calls respect it: `_last_call` is never written, and the
  retries do not call the limiter (county_assessor.py:145-148). `Delay` has this.
* The handlers of the modal's buttons (CaptchaModal.js:26 and 33) throw, so that the modal,
  once shown, stays (section 2).

Every property is also run against a planted fault of the code (the definitions
whose comment starts with *Fault*), and TLC finds each violated: a handle cloned
rather than taken, a restart after any failure, an event read as the response, a
line read before its newline, a buffer not drained, an event emitted though its session was not saved, a closed
channel ignored, a buffer reset by a restart, a lost handle, a kept dead handle, an
autocommitted upsert, a raise between the two rows of a record, an answer without
its commit, an import on a connection of its own, a retry without end, a save
unprotected during its own cleanup, missing metadata taken for empty, a file of
credentials written from nothing, a row masked whatever became of its key, a stamp
taken before the sleep, a count forgiven on success, an answer of an overlapped poll
dropped, an open modal that keeps its event, a first lead kept for a last, and others
like them. The import committed on a connection of its own breaks
`ReadYourWrites` and `ImplementsSerialStore`: it is confirmed, and the process goes on
reading the file as it was before.

## 4. Fairness

`SidecarBridge!Fairness`: weak fairness of each started command (the async runtime
polls it), of each live sidecar's loop (its handlers' I/O has timeouts), and of the
poll (`setInterval` of 2 s in app.js:232). Nothing makes the frontend call, and
nothing makes a process die. `LeadStore!FairSpec`: weak fairness of a running
handler, no more: in particular no process is ever obliged to make a request or to
end, so a lock left behind by a failed import may be held for ever.
`ArtifactStore!FairSpec`: weak fairness of each started save and each queued cleanup,
since the promises of file operations settle; nothing makes a tool produce a result.
`Desktop!Fairness`: a served command ends (its requests have timeouts), the sidecar
reads on, the poll is made and answered, which presumes `IS_TAURI` as the commands do; no one has to start
anything, and the shell need not end. The watchdog needs no fairness.
`ArcgisQuery!FairSpec`: weak fairness of `Attempt` alone, since a request has a timeout.
That timeout is for each read and not for the whole request, so a server that sends
a byte now and then is not covered.

## 5. Proofs

All of the following hold for every value of the constants that satisfies the
named assumptions of the module; TLC evaluates those assumptions in the runs.

| Module | Theorem | States |
|---|---|---|
| `SidecarBridgeProofs` | `Invariance`, `TypeCorrect` | `Spec => []IInv`, `Spec => []TypeOK` |
| | `HandleExclusive`, `SidecarExclusive` | `Spec => []OneHandle`, `Spec => []OneSidecar` |
| | `AnswerIsOwn`, `AnswerIsDefinite` | `Spec => []OwnAnswer`, `Spec => []DefiniteAnswer` |
| | `EventsAreKept`, `EventsAreSaved` | `Spec => []NoEventLost`, `Spec => []EventHasSession` |
| | `Refinement` | `Spec => ImplementsService` |
| `LeadStoreProofs` | `StoreInvariant`, `OwnersAreUnique` | `Spec => []IInv`, `Spec => []OneOwnerRow` |
| | `ConfirmedStays`, `OwnWritesAreRead` | `Spec => []ConfirmedIsDurable`, `Spec => []ReadYourWrites` |
| | `RecordsAreWhole` | `Spec => []WholeRecords` |
| | `WritesAreSerial` | `Spec => ImplementsSerialStore` |
| `EntityUnmaskingProofs` | `KeysAreKept` | `CredentialSpec => []ConfirmedKeyIsKept` |
| | `UnmaskingImplementsCredentials` | `Spec => CredentialSpec` |
| | `UnmaskingInvariant`, `ConfirmedKeysStay` | `Spec => []IInv`, `Spec => []ConfirmedKeyIsKept` |
| | `FilesAreRemoved` | `Spec => []WholeFileIsRemoved` |
| | `RowsKeepUnstoredKeys` | `Spec => OnlyStoredKeysAreMasked` |
| `DesktopProofs` | `BudgetIsKept` | `BudgetSpec => []RestartsAreBounded` |
| | `ApplicationKeepsBudget`, `ApplicationInvariant` | `Spec => []RestartsAreBounded`, `Spec => []IInv` |
| | `ApplicationImplementsBudget` | `Spec => BudgetSpec` |
| `ArcgisQueryProofs` | `RequestsAreSpaced` | `LimiterSpec => []WindowIsKept` |
| | `ThreadImplementsLimiter`, `ThreadSpacesRequests` | `Spec => LimiterSpec`, `Spec => []WindowIsKept` |
| | `ThreadInvariant` | `Spec => []IInv` |
| `ArtifactStoreProofs` | `QueuedAreKept` | `Spec => []QueuedIsKept` |
| | `StoreIsConsistent`, `LostOutputsStayOriginal` | `Spec => []IInv`, `Spec => LostIsNeverShown` |
| `LeadExportProofs` | `ExportTypeCorrect`, `ClientsAreClosed` | `Spec => []IInv`, `Spec => []OnlyEmptyExportsLeak` |
| | `LastLeadsAreExported` | `Spec => []LastLeadIsExported` |

So every invariant of a passing run but `ListedIsFound` is a theorem, and so are the
properties that are no liveness. `ListsProofs` has only lemmas.

### The bridge

Assumptions: those named in `SidecarBridge` (`EventCommands` among the commands,
natural numbers as bounds, `None` and the newline distinct from every command).

The argument. `OwnAnswer` is not inductive: that a response read now is for the
reader depends on the channel having been empty when the command began. `IInv`
says why. *HandleInv*: the handle is in the slot or with exactly one command, and it
is always the newest process's. *ProcessInv*: only the newest process can be alive,
and none is when a restart is due, because `Terminated` is the last line a process
leaves (*ChannelInv*). *ConversationInv*: between commands a live sidecar waits
for a line and its stdin is empty, and during one, the pipe holds that command's
text or line, or the sidecar is serving that command. *ChannelInv*: a
channel holds at most one response, and its reader is the command it answers.
*EffectInv*: the effects follow, an answer "ok" only after the effect, and none
for a command whose line was never complete. Each part has a lemma per group of
actions that keeps it; the refinement uses `IInv` and one step lemma, where every
action is a service step or changes none of its variables.

*EventsInv* is added for the events: `NoEventLost` counts what is on its way in the newest
process's channel only, so it must be that a restart leaves nothing behind in the old
one. It does not, since the line that leads to a restart is the last of its process.
Every line that is received is then either no event, and the list of events stays, or
moves from the head of the channel to the end of the buffer.

### The store

`OneOwnerRow` needs that a SELECT which found no owner is still true at the INSERT.
The invariant: at most one process writes (*OneWriter*); a snapshot not overtaken is the
file (*Overtakes*), and only such a one can become a write, so what a writer sees is
the file with its own changes and nobody can change the file meanwhile. From that:
every database that a process sees or commits has one row per owner (*OneRowInv*),
contains what the process was confirmed (*SavedInv*), and every phone on the list but one
being removed (*ListedInv*). `WholeRecords` adds a second invariant on top: a database is whole but
for the parcel whose owner its handler is about to save, and no commit comes before.

`WritesAreSerial` has one lemma per kind of statement: one that writes is a `Change`
(by *OneWriter* nobody else has a draft, by *Overtakes* a draft starts from the file, and by
the invariant of the import an inserted owner has a parcel and no row yet), one that
raises changes nothing that is seen, a SELECT is a `Keep` or a `LookUp`, a commit a
`Publish` or the end of a reading, and a crash a `Leave`.

### The credentials, and unmasking

A store of a key keeps every other provider's confirmed key (the file is rewritten from what
it held, or `doubt` says that it was not read) and adds its own where it is confirmed; a
write cut short puts every provider in `doubt`, and only storing its key takes one out. For
the rows, *MigrationInv*: what start-up has masked in its open transaction had its whole
key in the row, and that key is the last one confirmed. `EntityUnmaskingProofs` uses these
lemmas step by step: a request writes none of the credentials' variables, and only the
end of the process crosses both (which is also why the whole implements `CredentialSpec`).
`WholeFileIsRemoved` is inductive by itself: every step out of `parse` and `llm` but the
one between them goes through `Finally` or ends the request.

### The budget, and the application

`RestartsAreBounded` speaks of any restarts `2 * MaxRestarts` apart. `BudgetInv` says where they
are: those of this window are among the last `Spent`, those of the window before among
the `MaxRestarts` before these, and this window began a whole period after that one.
`StepOfBudget` shows that every step of `Desktop` is a step of the budget or leaves it
alone, which gives both theorems without repeating the argument. For the events, `IInv` has to
say of every pair of places (buffer, a poll, another poll, the window) that they
share none: a poll moves the whole buffer to one of the second kind, a delivery that to the
last, and a new event has a number that none has.

### The limiter, and the cleanups

The deque is a suffix of the log (*EndsLike*), and a request of the last MAX_REQUESTS that is no
longer in it is older than the window: either it was pruned, or `maxlen` has dropped it
after a sleep that waited for it. A late sleep only adds to the distance.

A session has in flight exactly its own unfinished saves (*InFlightInv*); each cleanup in
its queue is one a save waits for (*AwaitedInv*). So the copy of `inFlight` that joins
the queue has every save the queue is of. The rest of `IInv` is that files are in
directories (*FilesInv*) and that a prune removes only while its total is above the maximum,
so that what it takes off leaves a natural number (*TotalInv*; `OldAssumption` says that what
was on the disk before is finite). `LostIsNeverShown` has a nested box: once *Lost(a)*
holds, which is that the directory is gone before the save is through or that the
result was given up, it holds for good, because an artifact without a directory has
no metadata, and the update that would turn it into an excerpt reads them first.

### The retries

The thread's every step is one of the limiter's: a query, an attempt and idling let time
pass, and a request of HubSpot is let through. So `LimiterSpec` is implemented and its
theorem applies. The invariant is the types with the limiter's bookkeeping; that a
pause is a natural number needs that the power of two is one, which is an induction
(below).

### The exports

The heart is `DeduplicateKeepsLast`: after each lead of the list, the dictionary has of
every parcel so far exactly its last lead, and of no parcel two (*LastLeads*), because an
assignment either replaces the one entry of the parcel or adds the first
(`AssignKeepsLast`). The contacts are those of that with an address, in the same order.
*RequestInv* ties what is handed out to the request that is served, by an answer of
`file` or `ok` with nothing left out.

### Lists, and induction

The library's theorems about induction and recursion take operators as parameters, which
the provers cannot instantiate. `WFMin` (a set of natural numbers has a least element)
takes none, and `SetInduction` and `PrefixInduction` of `ListsProofs` follow from it: a set
that has 0 and goes on from n to n + 1 has all numbers, for a set defined where it is
needed. The loops of the code (`Keep`, `Seen`) and `TwoTo` are therefore recursive functions
over the prefixes of a list, or the numbers up to n, and not `SelectSeq` or `^`, about
which nothing can be proved: for each, a lemma shows that the function exists, the next that it
satisfies its equations, and the others are inductions over the prefixes.

### Model-checked only

* Everything about liveness (`EveryCallReturns`, `EveryEventArrives`,
  `EveryRequestIsAnswered`, `EverySaveEnds`, `ModalOpens`, `OrphanEnds`,
  `EveryQueryReturns`): fairness and ENABLED are outside the prover.
* `ListedIsFound`: it is false of a number whose forms leave different ten digits, which
  no assumption on `Phones` rules out; the forms of the run are those that people write.
* The properties of the violated runs, which are false.

## 6. Scope

The plan of this project, in order of importance, was the bridge with its
service, the store, the restart budget and HubSpot's limiter, the credentials, the
artifacts, the life of the process, the ArcGIS retries, the frontend's captchas, and the
operators of export. All of these are modelled and checked; the proofs are those of
section 5.

Not modelled, and why:

* `ipc_router.py`: imported by nothing.
* Logging, packaging, CI: formatting and deployment; `docker-compose.yml` is why
  `LeadStore` has two processes.
* Market scoring, CSV format detection, `normalize_apn`, `is_absentee_owner`, address
  parsing, `rental_listings.py`, `csv_import.py`, the substring test of `detect_block`:
  functions of one string or record without state, which unit tests reach.
* `captcha.resume_from_session`: wired to no method.
* The searches of the dashboard and the settings form: their handlers throw at the name
  `Alpine`, which their modules do not import, before anything is set or sent (section 2).
* The lead table and notifications: the table shows demo leads, `app.leads` is written
  by nobody, so its import button is never visible. Its handler would send
  no `file_path` and report success on an error answer.
* The token policy's configuration, classification, reducers and telemetry: no state
  that the artifacts depend on. Its ledger is one file replaced by rename, where the
  last writer wins.
* SQLite's `MIGRATIONS`: one version that does nothing.

## 7. Running

    tlc -workers 2 -config SidecarBridge_pass.cfg MCSidecarBridge
    tlc -workers 2 -config LeadStore_pass.cfg MCLeadStore
    tlc -workers 2 -config ArtifactStore_pass.cfg MCArtifactStore
    tlc -workers 2 -config EntityUnmasking_pass.cfg MCEntityUnmasking
    tlc -workers 2 -config LeadExport_pass.cfg MCLeadExport
    tlc -workers 2 -config ArcgisQuery_pass.cfg MCArcgisQuery
    tlc -workers 2 -config Desktop_pass.cfg MCDesktop

and the other `.cfg` files likewise, with the module named before the underscore;
each proof module with

    tlapm SidecarBridgeProofs.tla
