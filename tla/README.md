# Verification of the ModelArts plugin for modelbox

This directory holds TLA+ models of the plugin under `src/src/`, the TLC
configurations that check them, and TLAPS proofs of the main results. Line
numbers below are those of the sources; `TM` is
`modelarts_client/task/task_manager.cc`, `RC`
`modelarts_client/communicate/restful_communication.cc`, `MM`
`modelarts_plugin/modelarts_manager.cc`, `MT`
`modelarts_plugin/modelarts_task.cc`, `IO`
`modelarts_client/task/task_io.cc`, `CF` `modelarts_client/common/config.cc`.

## 1. The system

The ModelArts service creates, deletes and queries tasks over HTTP; each task
is executed as one or several one-shot tasks of the modelbox engine; the plugin
reports the state of each task, and of all of them, back to the service.

| Component | State | Operations |
|---|---|---|
| `TaskManager` (client) | `task_group_map_` (id -> `TaskGroup` with a status), the two plugin functions, the heartbeat's flags | handlers and post-handlers for create, delete, query; `UpdateTaskStatus`; `Start`, `Stop` |
| Heartbeat thread of `TaskManager` | `stop_`, `update_`, a condition variable | send the instance info, wait up to 60 s or for a notification |
| `RestfulCommunication` | `msg_concurrency_mutex_`, the handler maps | `MsgProcess` (one request), `SendMsg` (sign, post, retry) |
| `Cipher` | the RSA key | `DecryptFromBase64` |
| `ModelArtsManager` (plugin) | `task_list_map_` (id -> `MATask`) | `CreateTaskProc`, `DeleteTaskProc`, the engine's status callback, `Init`/`Start`/`Stop` |
| `MATask` | `modelbox_task_`, `input_path_list_`, `is_finish_` | `Init`, `Run`, `Stop`, `Delete`, `WaitTaskFinish` |
| `ModelArtsClient`, `ModelArtsPlugin` | pointers to the above | pass calls on; the order of `Init`, `Start`, `Stop` |
| `TaskIO`, `IOFactory` | the fields of one input or output | `Parse`, `ToString`, look-up of a class by type |
| `Config` | the properties, filled once | `LoadConfig`, `GetString` |
| `Communication` factory | `create_communication_map_`, filled while the library is loaded | register, create |
| external | | modelbox engine, HTTP client and server, OpenSSL, the ModelArts service, the plugin's host |

Who runs what:

* **HTTP threads** run `MsgProcess`. From the handler to the end of the
  post-handler they hold `msg_concurrency_mutex_`, including `create_func` and
  `delete_func` (code of the plugin) and the `SendMsg` of the create
  post-handler.
* **Engine threads** run `ModelBoxTaskStatusCallBack`, which calls
  `UpdateTaskStatus`. They never take `msg_concurrency_mutex_`, only the map
  mutexes, each for one access.
* **The heartbeat thread** reads the task map and sends.
* **The host's thread** runs `Init`, `Start` and `Stop`.

What is hard: the two maps are keyed by an id that the service may use again,
and are changed in different critical sections of different threads; statuses
are read and written without a lock; a delete waits without a timeout, with the
message lock held, for a callback of the engine; a directory task is a chain of
engine tasks, each started by the callback of the one before; messages are
built at one time and delivered, lost or duplicated at another; a wake-up of
the heartbeat may coincide with its going to sleep. Nothing is persisted, so
there is no crash recovery: a restart begins empty.

What makes each part correct:

* task manager: no create overwrites a task; a RUNNING task stays listed until
  it ends; a task ends once and then leaves;
* plugin: the two maps agree; a callback finds its `MATask`; an engine task
  runs only for a task that is known; all files of a directory are run; a
  delete answered 202 means that the task has ended; every handler returns;
* heartbeat: no lost wake-up; the service's view converges; `Stop` returns;
* `SendMsg`: bounded attempts, success only for a handled message, a buffer
  that is big enough;
* life cycle: nothing served too early, nothing but what callbacks start is left
  behind;
* request data: a path leads to the task it names; what a request is accepted
  with can be described to the engine; the session tells the application the
  input it really gets; every file of a directory is run once;
* configuration: a complete document gives a client that is ready, and the URL
  that is signed is the one that is posted.

`PROJECT.json` lists the hazards line by line with the properties that cover
them.

## 2. Modules

| Module | Models | Correspondence |
|---|---|---|
| `ModelArtsTypes` | vocabulary | a *task* is one create request with the `TaskInfo`, `TaskGroup` and `MATask` made from it; `IdOf` is the id the service gave it |
| `TaskRegistry` | abstract: what the task manager promises | accept under a free id, end, forget |
| `TaskManager` | `MsgProcess`, handlers, post-handlers, `UpdateTaskStatus` | `http[h].pc`, `upd[t].pc` are program points; an action is one critical section of `task_group_map_mutex_`, or one access to a status |
| `ModelArtsManager` | `CreateTaskProc`, `DeleteTaskProc`, the callback, `MATask` | `proc[h]`, `cb[t]` are program points; `engine[k]` is the engine task behind `modelbox_task_`, `files[k]` the length of `input_path_list_`, `finish[k]` is `is_finish_` |
| `TaskService` | abstract: what the plugin promises the service and its host | a task is new, running, ended, forgotten; the engine works for it or not; a delete is confirmed |
| `ModelArtsPlugin` | composition of the two | calls and returns (`EnterCreate`, `LeaveCreate`, `EnterDelete`, `LeaveDelete`, `EnterUpdate`, `InUpdate`, `LeaveByException`) are joint steps; at its end the mapping to `TaskService` and the inductive invariant `ServiceInv` |
| `HeartBeat` | the heartbeat thread, `SendInstanceInfoToMA`, `TaskManager::Stop` | a step is one critical section of `upload_mutex_`; "wait" is the test of the predicate, "sleep" is blocked |
| `Reporting` | `TaskManager` with `HeartBeat` and the service | `view` is what the service shows; a message takes effect at any time, any number of times, while its `SendMsg` lasts |
| `MessageSend` | abstract: one `SendMsg` | handled some number of times, then "ok" or "fault" |
| `SendRetry` | `SendWithRetry` | `retryCount` is `retry_count`; `continue` and the fall-through are different actions |
| `Cipher` | `DecryptFromBase64`, `CipherMsg`, `DecryptMsg` | bytes are counted: `offset`, `outputLen`, `outBufSize` as in the code |
| `SignedSend` | `SendMsg` = key, then retry loop | composition of the two |
| `TaskIO` | the classes of `IO` with the fields each reads and prints, `IOFactory`, and the `Fill...`/`Build...` functions of `MATask` | a class is a record: `reads` maps a member to the field it is parsed from, `prints` a field to the member it is printed from |
| `FilesRun` | abstract: pieces of input, each run once, one at a time | |
| `TaskRequest` | one create request from its body to its last engine task | `pc` follows `TaskInfo::Parse`, `MATask::Init`, the steps of `MATask::Run` and the callback; `given` is what the engine got, `session` what the application reads |
| `Requests` | the HTTP front: URL check, dispatch, task id of a path, answer | handlers are one step each here; their threads are in `TaskManager` |
| `ClientConfig` | loading of the library, `Config`, `ModelArtsClient::Init`, `GetSignerUrlInfo` | `stage` follows `Init`; a document is a function from JSON pointers to values |
| `Lifecycle` | `Init`, `Start`, `Stop` from plugin to client, with `HeartBeat`, requests and callbacks | the steps of each call are a sequence (`ManagerInit`, `ManagerStart`, `ManagerStop`); `made` are the steps done; `engineTask[k]` is the engine task of a request together with the place of its callback |
| `MC*` | small instances | |
| `*_proofs` | TLAPS proofs | see section 5 |

Definitions named `X_Something` after "Mutant:" are deliberate errors, each a
plausible slip in the code `X` models. No specification uses them; replacing
`X` by one must make the run named in `PROJECT.json` fail, which shows that the
property depends on that code.

### Simplifications

* `CreateTaskProcess` sets RUNNING and then locks the map to insert. No other
  thread has the group between the two, so they are one action.
* Callbacks of the engine for states that do not end the engine task change
  nothing and are left out.
* Requests that are refused before the lock (wrong URL, no handler) change
  nothing and are left out of `TaskManager`; they are in `Requests`.
* A message is handled by the service only while its `SendMsg` lasts. A request
  that is still on its way when the client has timed out on its last attempt,
  and arrives later, is not modelled.
* `modelbox_task_` is a `shared_ptr` written by the callback and read by
  `DeleteTaskProc` with no common lock. The null value before `Run` is
  modelled; a torn pointer is not. `stop_` is no atomic either: its test in the
  loop may return the old value (`HBLoop`).
* `FindTaskByModelboxTaskId` stops at the first entry without an engine task;
  the order of the hash map is unknown, so it may or may not hide another entry
  (`SearchBlocked`).
* `UpdateCall` has the guard that nobody else is updating the same id. It is
  not a lock of the code: it states how the plugin uses the function, and the
  invariant `OneReporter` of the composition shows that the plugin keeps to it.
* `Lifecycle` leaves the message lock and the maps to the other modules. There a
  create is one step, so no engine task ends before it is listed. The callback
  has the steps that matter to `Stop`: start the next file (MM 158-162), or fail
  to; report the end; set `is_finish_`. `modelbox_task_manager_->Stop()` is
  external: it returns when no engine task is running, and is not assumed to
  refuse tasks that are created and started afterwards.
* `TaskRequest` follows the data of one request; between its steps other
  threads run, which is the matter of `ModelArtsPlugin`. A field value is a
  name, of which only equality, the position of the last "/" and the length
  matter. A password stays as it was sent, because decrypting it fails or throws
  (section 7).
* `Requests` works on characters because the cut at the prefix does; the alphabet of
  the instance has four.
* How the signer and the service write a URI is external. `SendMsg` signs it with
  "/" on both sides (RC 116), which is taken for the form the service verifies.
* `ClientConfig` keeps a URL as a sequence in which "http://" and "https://" are
  one letter each.

## 3. Runs

| Run | Shows |
|---|---|
| `task_manager` | `TMInv` (types, lock, and the maps' relation to every thread; `RunningListed` and `TerminalLeaving` are conjuncts of it), `NoOverwrite`, `EndsOnce`, and that the task manager implements `TaskRegistry` |
| `plugin` | with an engine that lets no task end before its group is listed and restarts each next file: `ServiceInv`, `NoNullTask`, `RunningHasMATask`, `DeletedMeansEnded`, `EndIsComing`, that the composition implements `TaskService`, and under fairness `LockReleased`, `EndedForgotten`, `FileTaskEnds` |
| `plugin_faults` | with early ends, failing reruns and an id that is used again: `MATaskHasGroup`, `RunningIsKnown`, `OneReporter`, `EndIsOwn` |
| `reporting` | without a timer and losses: `NoLostWakeUp`, `ChangeIsReported`, `ShownWasSo`, `ViewConverges`, `StopReturns` |
| `reporting_lossy` | with losses and the timer: `ViewConverges` |
| `send` | `RetryInv`, `BufferHolds`, `SendReturns`, and that `SendMsg` implements `MessageSend` |
| `lifecycle` | `ServedWhenReady`, `NothingLeft`, `FailedIsQuiet`, `ShutdownEnds` |
| `requests` | `CompleteIsReady`, `SignedIsPosted` (configuration), `OnlyAddressedTask`, `AnswerTellsEffect` (front), `AcceptedIsDescribed`, `ObjectGivenAsSent`, `SessionTellsTask`, and that a create implements `FilesRun` (data) |
| `early_end_null`, `early_end_zombie`, `rerun_hang`, `id_reuse_delete` | the findings of section 6, as counterexamples |

### Bounds

* `task_manager`: two HTTP and two engine threads, three creates, two of them
  with one id. Two threads of a kind are the least that can race; a third
  create is one that finds the id of the first two free again or listed, beside
  another id. Every create request is made once, so behaviours are finite in
  tasks, not in deletes and queries.
* `plugin`: one directory task with up to two files, and one stream; one HTTP
  thread, because the message lock admits one at a time (`plugin_faults` has
  two), and two engine threads. Two files give a rerun and a last file.
* `plugin_faults`: both tasks carry one id, so the second is created while the
  callback of the first is still cleaning up.
* `reporting`: two tasks that use one id after each other, one thread of each
  kind and the heartbeat: three senders whose messages overtake each other.
* `send`: ten attempts as in the code, keys of 2 and 3 bytes and texts of 0 to
  7 bytes, so that there are up to three blocks, with and without an incomplete
  last one.
* `requests`: `MCRequests` puts the client with its front and the data of one
  create side by side; they share no state, so each behaviour moves one of them
  (`MCNext`). Client: the document of the tests, each field the program looks at
  changed, absent, empty or no string, and nine endpoints with the same nine
  notification URLs, one of which ends in "/"; requests are handled under the documents that differ in the
  task URI (`Served`). Front: two ids and the empty one, nine paths: the one that
  is right, and the prefix alone, without "/", behind something, twice, with a
  "/" too many. Data: every class of input, and of output beside a good input,
  with its fields complete, or up to two of them changed, of a wrong type or
  absent; types in lower and upper case, an unknown type and none; directories of
  none to three files; paths that are a directory, an object, the root and empty.
  Lengths are taken modulo 16 (`SizeWidth`), so that the length of the empty path
  minus one wraps as it does in the code.
* `lifecycle`: a directory with a first file and at most one more (`MaxNext`), a
  stream, two HTTP threads; failure at every step that can fail. The next file is
  enough for a delete to wait for an engine task that nobody told to stop, and for
  a callback to be at work behind `Stop`.

Bounds that only limit the state space: `MaxFiles`, `MaxNext` (files of a directory), the
sets of tasks and of threads. Thread symmetry is used in safety runs only.
Deadlock is checked in `task_manager`, `plugin`, `reporting` and
`reporting_lossy`; the other runs may really stop (the process crashed, `SendMsg`
returned, the plugin was stopped, the create was followed to its end).

### Fairness

* HTTP and engine threads inside a handler or a callback: weak fairness. They
  block only on mutexes that are held for a few statements, on
  `msg_concurrency_mutex_`, on `SendMsg` (bounded attempts, each with a timeout:
  run `send`) and on `WaitTaskFinish`, which is modelled as a guard.
* An engine task that was told to stop, or whose input is a file, ends; a
  stream need not. Requests need not come, the host need not call `Stop`.
* The heartbeat thread is scheduled. When messages may be lost, strong fairness
  of their delivery: a message sent again and again is not lost every time. The
  convergence claim needs exactly that, and no fairness for the task messages.
* `Periodic = FALSE` removes the timer of the heartbeat, so that what `reporting`
  shows is due to notifications alone.
* `lifecycle` likewise assumes nothing of that timer (`BeatAwake` is fair,
  `HBTimeout` is not): `Stop` must return without waiting an interval out.
  `ShutdownEnds` needs that the files of a directory end by themselves, because a
  delete tells only one of them to stop, and that callbacks run on
  (`Callback`). That next files can be started is not assumed: `ShutdownEnds` names
  the case in which they cannot, and a delete waits for ever, as in the finding
  `rerun_hang`.

## 4. What the properties say

`TMInv` is the core: between `FindTask` and the later access to the map by id,
`CreateTaskProcess` relies on `msg_concurrency_mutex_` and `UpdateTaskStatus` on
being the only one that updates or erases the id. The invariant states these
two for every program point. `TerminalLeaving` says that a group which has
ended has a thread that will erase it, `RunningListed` that a RUNNING group can
be found.

`ImplementsRegistry` hides the threads: seen from outside, each step accepts a
task under a free id, ends a listed task, forgets an ended one, or does nothing.

`ImplementsService` is the same for the whole: the life of a task, what the
engine works on, and the answers of deletes are three pieces of state changed by
three kinds of threads, and each step of the composition is one of the service's
steps: the engine begins, rests or is done with a task; a create is accepted or
refused; a task ends when the engine no longer works for it; a delete is
confirmed only for a task that has ended; an ended task is forgotten when it is
in neither map.

`EndIsComing` is the converse of `RunningIsKnown`: whatever was started has an
engine task, or a callback at a place from which it will start the next file or
report the end; once the end is set, a waiting delete is woken, or a callback is
on the way to do so. It is what `LockReleased` and `FileTaskEnds` rest on, and it
relates the threads of all three kinds at every program point. (The process may
have crashed: finding `id_reuse_delete` and the null pointers.)

`DeletedMeansEnded` is about the final status of the task, not about the map: a
delete that finds a group whose end is set answers 202 while the callback is
still in its `SendMsg` and has not erased the group (TM 394-408, 486-494).

`EndIsOwn` is about ids that are used again. `UpdateTaskStatus` is given an id, and
between the callback's decision and `FindTask`, and again between `FindTask` and
the erase, other threads run. The property says that a task is ended only by the
callback of its own engine task, with the status which that end stands for.

`NothingLeft` has one exception, a file of a directory; section 6 says why.

`SessionTellsTask` reads what the session was told as if it were a request, and
demands the very description the engine was given: the two are made by
different functions from the same members. `ImplementsFilesRun` says that every
file of a directory is given to the engine once, and that nothing is left when
the task is done, also when steps of `MATask::Run` fail in between.
`AnswerTellsEffect` relates the HTTP status of an answer to the map before and
after.

In `Reporting`, the service may show an ended task as RUNNING for a while: a
heartbeat built before the end may arrive after the report of the end. That is
no fault of the code, which promises nothing else; what holds is that a new
instance message follows (`ChangeIsReported`) and the view converges. What it
never shows is something that was not so: a status an accepted task with that
id has now or had before (`ShownWasSo`), although messages are built from one read
of the status, sent after another change, overtaken, lost and repeated.

## 5. Proofs

All theorems are checked by tlapm for every value of the constants that satisfies
the named assumptions of the modules:

* `IdOfAssumption`, `NullAssumption`, `EarlyEndAssumption`, `ReportingAssumption`: a
  task has an id, null is no task, id or thread, the switches are Booleans;
* `RetriesAssumption`, `SizesAssumption`, `FilesAssumption`: at least one attempt (the
  code has ten), a key of at least one byte, directories only among files;
* `TextAssumption`, `LengthAssumption`, `BadAssumption`: a text is shorter than
  `npos`, its last slash lies inside it, only the empty text has no length, and
  the value that stands for "not parsed" is no text and no class's name;
* `DocumentsAssumption`: where a document of the environment gives one of the
  three URLs and URIs, it gives the empty text, a value of another type, or a path;
* `PathsAssumption`: paths and bodies are sequences of characters, among them the
  slash, or the body that does not parse;
* `RequestsAssumption`: a field of a stream's data holds a text or a value of
  another type, a listing of a folder names no file twice and none without a name.

TLC evaluates each of them in the runs. The modules:

* `TaskManager_proofs`: `TMInit => TMInv`, and one lemma per action that it
  keeps `TMInv`, one step per conjunct it can disturb. `TypeOK`, `LockInv`,
  `CreateInv`, `HandlerInv` and `UpdateInv` are there because the properties
  alone are not inductive: that a create does not overwrite needs that its id
  stays unlisted since `CreateTaskGroup` (`CreateOK`), which needs the lock
  (`LockInv`); that `UpdateErase` removes the group it reported needs that the
  thread's group is still the listed one (`UpdateOK`, `OwnId`). From `TMInv`
  follow `NoTaskLost`, `EndedLeaves`, `CreateNeverOverwrites`, `TasksEndOnce`
  and, by mapping every action to a step of `TaskRegistry` or a stutter,
  `Refinement`.
* `PluginService_proofs`, first half: every behaviour of the composition is one of
  the task manager (`PluginImplements`), so its invariant and its refinement hold
  in the composition (`InvarianceInPlugin`, `PluginImplementsRegistry`). The
  only step that is not one of the task manager by its form is
  `CreateTaskGroup` with `CallCreate`, whose task must be a task: `ThreadsOK`
  gives the types of the plugin's threads. `UpdateCall` keeps its guard in the
  composition; that this guard never blocks the code is `OneReporter`, proved in the
  second half.
* `PluginService_proofs`, second half: `ServiceInv` is inductive together with
  `TMInv`. It says what each part holds of the others: where an HTTP thread is in
  the plugin while the task manager is in `create_func` or `delete_func`
  (`ProcInv`); that a callback works for a task of its own, whose engine task is
  at rest and which is alive until `UpdateTaskStatus` has set its end (`CbInv`);
  that the two maps never list different tasks under an id (`MapsAgree`); and that
  the engine works only for known tasks (`EngineInv`). A task is alive (`Alive`) when
  it is RUNNING or, if engine tasks may end early, when its create is between
  the start of the engine task and its answer (`Arriving`): there at most one
  create is, because of the lock. It is over (`Over`) when its end is set or, if
  `UpdateTaskStatus` came too early to find its group, while it is alive. With
  these two the invariant holds with and without early ends. From it follow
  `CallsMatch`, `RunningIsKnown`, `OneReporter`; together with `TMInv` (the group an
  update has found is the one its id lists) and `EndsAsSaid` (the status it sets is
  the one its callback chose), `EndIsOwn`; and, without early ends,
  `DeletedMeansEnded` and `ServiceImplemented`, where each action is mapped to a
  step of `TaskService` or a stutter.
* `PluginMaps_proofs`: `EntriesOwned` (each entry of `task_list_map_` has an owner)
  gives `MATaskHasGroup`. `PointerInv` (a RUNNING group has its `MATask`, a started
  one its engine task) gives `RunningHasMATask` and `NoNullTask`. `EndIsComing` is
  inductive beside `ServiceInv` (`EndIsComingHolds`). `WorkRunsOut` gives each
  handler and each started task a number of steps it has left (`HttpLeft`,
  `TaskLeft`: six for each file that is left, and those of the end), shows it
  bounded, and that its own steps lower it while nobody else's raise it; it
  needs that a callback prepares another engine task only while a file is left
  (`RerunHasFile`). The two together give `WaitIsBoundedHolds`: a delete in
  `WaitTaskFinish` waits for a positive and bounded number of steps of its task.
  This is all of `LockReleased` and `FileTaskEnds` but the fairness.
* `Reporting_proofs`: the composition with the heartbeat implements the task
  manager, and `ReportInv` is inductive: nobody sleeps on a pending update, and
  the message being sent holds the tasks of now, or somebody will ask for
  another. From it `NoLostWakeUp` and `ChangeIsReported`. `ShownInv` adds what is on
  the way: each message that is being sent was so when it was built, and statuses
  only move on; from it `ShownWasSo`.
* `SignedSend_proofs`: `RetryInv` is inductive for any number of retries; with it
  the implementation of `MessageSend`. After `b` blocks of the
  cipher `offset = b * rsaSize` and `outputLen <= b * rsaSize`; while text is left,
  `b` is less than the number of blocks the buffer was made for (`RoomForOne`), so
  `BufferHolds`. A step of `SendMsg` is a step of each part or leaves it alone, so
  these results hold of `SendMsg`. `SendRunsOut`: each of its steps lowers
  `SendLeft`, a number made from the retries and the bytes of the key's text that
  are left.
* `Lifecycle_proofs`: `LCInv` is inductive: the steps made are those behind the
  current one in the script of `Init`, `Start`, `Stop` (`MadeInv`), the heartbeat
  lives between its start and its stop, handlers between the start and the close
  of the server; files are left of directories only, and when the engine has been
  stopped it works for nothing else (`ThreadsInv`). With the
  order of the steps, read off the sequences, it gives `ServedWhenReady`,
  `NothingLeft` and `FailedIsQuiet`.
* `Requests_proofs`: `ConfInv` says what each stage of the client has behind it, from
  the registration while the library is loaded to the first message;
  `FrontInv` adds the URI that is served. Facts about sequences (a prefix and the
  rest, the place where one occurs, the tail of a concatenation) give
  `SignedIsPosted` and `OnlyAddressedTask` for texts and paths of any length, and with
  `FrontInv` `CompleteIsReady` and `AnswerTellsEffect`. `SignedIsPosted` has as a
  hypothesis that the endpoint has its scheme in front and nowhere else, because
  `FilterHttpPrefix` looks for a scheme anywhere and then cuts in front, and that
  the URL does not end in "/" (section 6).
* `TaskRequest_proofs`: `RequestInv` says which files are left at each place and that
  none is named twice (`PathsInv`, `FilesInv`), and what the engine and the session
  were given (`GivenInv`). From it `AcceptedIsDescribed`, `ObjectGivenAsSent`; with the
  lemma that a class whose fields are printed under the names they are read from
  reads its own print (`ReadAgain`), `SessionTellsTask`; and, step by step,
  `ImplementsFilesRun` for directories of any number of files.

What some of these theorems assume, besides the constants' own assumptions, and
the runs that show why:

* `EarlyEnd = FALSE` (no engine task ends before its group is listed) in
  `DeletedMeansEndedHolds`, `ServiceImplemented`, `EndIsComingHolds`,
  `WaitIsBoundedHolds` and the theorems about pointers: the findings `early_end_*`
  are behaviours without it. All other theorems about the plugin hold with early
  ends.
* Further `RerunMayFail = FALSE` in `EndIsComingHolds`, `WaitIsBoundedHolds`
  (`rerun_hang`), and, in the theorems about pointers only, also distinct ids
  (`NoReuse`; `id_reuse_delete`). All others hold for any assignment of ids to
  tasks and with failing reruns.
* `Lossy = FALSE` in `ChangeIsReportedHolds`: if every attempt of a message may be
  lost, only the next message helps, which is a liveness property
  (`reporting_lossy`).

Only model-checked: liveness (`LockReleased`, `EndedForgotten`, `FileTaskEnds`,
`ViewConverges`, `StopReturns`, `SendReturns`, `ShutdownEnds`), which needs fairness
and ENABLED. Every invariant, action property and refinement of the passing runs
is a theorem.

## 6. Findings

* `early_end_null`, `early_end_zombie`: `MATask::Run` starts the engine task
  before the `MATask` is in `task_list_map_` and long before the group is in
  `task_group_map_`. A task that ends at once makes the callback use a null
  pointer (MM 141), or, a moment later, leaves a group that is RUNNING for ever
  because `UpdateTaskStatus` did not find it.
* `rerun_hang`: the result of the `Run` for the next file is ignored (MM 161).
  When it fails nobody reports the end, and a delete of the task waits for ever
  in `WaitTaskFinish`, holding the lock every request needs.
* `id_reuse_delete`: `task_list_map_` is erased by id after the id was freed in
  the other map (MM 178). A create in between loses its `MATask` and cannot be
  deleted.

More was met that no counterexample is kept of, since no doc, comment or test
says otherwise:

* the session configuration, which an application reads, misnames inputs:
  `VcnIO::ToString` prints `ip_` as "stream_id" and `streamId_` as "stream_ip"
  (IO 348-350), `EdgeCameraIO::ToString` prints "rstp" where `Parse` reads "rtsp"
  (IO 195), `EdgeRestfulIO::ToString` prints `rtspPath_` as "url_type" (IO 286).
  `TaskIO` has the three as they are in the code; `SessionTellsTask` holds for all
  other kinds and would be violated without its exception (`Misprinted`).
* nothing tells the callbacks that the plugin stops. One that is about to start
  the next file of a directory (MM 158-162) does so during
  `modelbox_task_manager_->Stop()` or after it, so that an engine task may be left
  when the plugin has stopped; and when a delete stopped the file before, its
  `WaitTaskFinish`, and with it `server_->Stop()`, lasts until all files that are
  left have been run. `NothingLeft` and `ShutdownEnds` are stated accordingly.
* `SendMsg` signs the path of the notification URL with a "/" put behind it. A URL
  that ends in "/" already is signed with two.
* the property of the downstream topic is read from the path of the upstream
  topic (CF 102). Nothing reads either.

## 7. Not modelled

* `DeleteAllTaskProcess` (TM 411-431) calls itself where it should call
  `DeleteTaskProcess`. No HTTP method maps to its message type, so it cannot run:
  `Requests` has it as a handler (`DeleteAll`), and `AnswerTellsEffect` shows that
  no request gets to it.
* The limit `max_task_num_`: over it a warning is logged and the task accepted;
  no behaviour depends on the number.
* Utilities and logging: no state.
* That a password in a request is ever decrypted: `CipherMsg` gets its output
  buffer by value (see `Cipher`), so a password that decrypts makes `MATask::Run`
  throw, which `TaskRequest` has as a failure.
* `Cipher`: key file and encryption (nothing calls it). `SetupSSLServerConfig`,
  `GetStringByPath`: pure I/O. `ief_sdk`: empty files.
* Engine, HTTP library, OpenSSL, service, host: external, modelled from how the
  code uses them.

## 8. Order of the work

The map with its threads came first, then the composition with the plugin,
reporting, sending, life cycle; then the data of a request, the front and the
configuration; last the abstract service. The proofs followed the same order: the
maps with their threads, the composition and its abstract service, reporting and
sending, then life cycle, front and data of a request; last what liveness rests
on (`EndIsComing`, `WorkRunsOut`).

What could follow: that a `SendMsg` of `Reporting` implements `MessageSend`, so that
delivery there is what `SignedSend` provides; a number of steps left for `Stop` in
`Lifecycle`, as `WorkRunsOut` has for handlers; and in the code, inserting into
both maps before `Run`, which would let `EarlyEnd` be dropped from the assumptions
of section 5.
