# A TLA+ development of Winter

Winter is a terminal-first IDE in Rust: a window of panes over a terminal emulator, with editors, language servers, git views, pickers, extensions, and terminal sessions that a headless server keeps alive when the window closes. This directory specifies the parts of it that are concurrent, fail, or talk to each other, checks them with TLC on small instances, and proves what matters most with TLAPS for every value of the parameters.

Two kinds of thing are done. The session multiplexer, `crates/libs/winter-mux`, with the pane that uses it: the one part of Winter that is a distributed system. And what the window runs beside its own thread: language servers, the picker's matcher, the watching of repositories, and the editor's buffers with the jobs they ask of worker threads. The rest is inventoried below, with a plan.

- [Inventory](#inventory)
- [The mux](#the-mux)
- [The window and its threads](#the-window-and-its-threads)
- [Modules](#modules)
- [Runs](#runs)
- [Fairness](#fairness)
- [Proofs](#proofs)
- [What the checks found](#what-the-checks-found)
- [What is not modelled](#what-is-not-modelled)
- [Plan](#plan)

## Inventory

The crates are layered (`docs/architecture.md`): the window (`crates/app/winter-term`) on tools, on libraries, on a base; extensions use the SDK crates alone. The components with state and control worth a specification:

| Component | State | Operations | Talks to | Hard behaviour |
|---|---|---|---|---|
| Mux server (`winter-mux/src/server`, `session.rs`, `persist.rs`) | clients, their attachments, sizes and outboxes; sessions by name and generation; history rings; the defs file | attach, detach, spawn, kill, input, resize, list; program output and exit; connections opened and closed; startup and save | clients over a Unix socket, programs over PTYs | one event loop fed by a thread per reader, writer and program; slow clients; names reused; crashes |
| Socket path (`server/mod.rs`) | one socket file | bind, probe, unlink, bind again, drop | other server processes | several processes at one path, a crash leaving the file |
| Mux framing (`protocol.rs`, readers in `client.rs`, `server/connection.rs`) | a buffer of bytes, a broken flag | extend, drain | the socket | frames torn and joined by reads, lengths at and over the limit |
| Resilient client (`resilience.rs`, `client.rs`, `remote.rs`) | a transport, retry budget, backoff, last size | recv, resize, send_input, reconnect | the server, an ssh bridge and its pump thread | lost connections, dials that only seem to succeed |
| Panes over the mux (`winter-terminal/src/session`, `window/layout/panes.rs`) | a grid, a place in a layout | open, lay out, drain, close | the server, through the client | two ends that change sizes at once |
| Language servers (`winter-lsp/src/client.rs`) | servers running, ports, the store of problems | start, stop, request, notify, drain | server processes; reader, writer and reaper threads per server | a stop racing what a reader thread is publishing |
| Picker (`winter-picker/src/matcher.rs`, `query.rs`) | rows, hits, query, generations | push, query, slice, track, keys, clear | one matcher thread | superseded queries, scoring cut short, narrowing from the last hits |
| Repository watching (`winter-vcs/src/watch.rs`, `winter-base/src/watch.rs`) | one watcher per repository, subscribers, a debounced burst | subscribe, change, decide, read | a watcher thread, git's lock file | shared watchers coming and going, missed wake-ups, time |
| Editor tabs and jobs (`window/layout/open_tabs.rs`, `tabs.rs`, `window/editor/closing.rs`, `window/runtime/jobs`) | buffers, the tabs that are views of them, the view each editor holds; jobs in flight by tab, refused answers | open, add a view, bury, close, kill, show, replace; start, cancel, hand over, drain | worker threads | answers of cancelled jobs and of tabs that closed, limits |
| One-off work and wake-ups (`winter-model/src/background.rs`, `winter-base/src/wake.rs`) | a result to come, a wake-up flag | spawn, poll | worker threads | work that panics |
| PDF worker (`winter-pdf/src/worker.rs`) | requests by generation | ask, draw | one drawing thread | stale layouts |
| Build runner, quota monitor, control socket, extension host | a process or a thread each | start, stop, drain | processes | stopping with output still to come |
| Layout, text editing, emulator, picker rows, spelling, syntax, rendering | trees, texts, grids | sequential algorithms | callers | edge cases of data, not of order |

What makes each of the concurrent ones correct: for the server, that streams are unbroken, sizes are the smallest wish of those attached, incarnations of a name are never mixed up, and the defs file is the live sessions; for the socket, that a start takes from the path only what it asked in vain; for framing, that messages come out whole; for the client, that nothing is shown twice, the size survives a reconnect and redialing ends; for panes, that everyone draws the same grid; for language servers, that a stopped one leaves no problems behind; for the picker, that an answer called current is the answer to the last query, and a complete one as far as narrowing allows; for watching, that every change is followed by a read; for tabs and jobs, that an answer reaches the buffer that asked, or nobody, and that every view is found where it was left. `PROJECT.json` lists the hazards at the lines where they bite, also those no property covers yet.

## The mux

`winter mux serve` is one process. Its main thread (`server/mod.rs` `run`) accepts connections through an acceptor thread and takes events from one FIFO channel: a frame of a client, a connection opened or closed, output or the exit of a session's program. `Dispatcher` (`server/dispatch.rs`) owns the clients and, in `SessionManager` (`session.rs`), the sessions; nothing else touches them, so an event is handled without interference, except that writer threads empty the outboxes and the process may die anywhere. After each event the loop drops the clients marked `doomed` while it handled the event and saves the recipes of the live sessions when their set changed; at startup it respawns the saved ones.

A client (`client.rs`, or `remote.rs` over ssh) is owned by a pane's `Terminal` and polled from the window's timer; `ResilientClient` replaces it when its connection ends.

## The window and its threads

The window (`winter-term/src/window`) is one thread: its loop takes input and wake-ups, ticks the views that asked to be, and drains what other threads left for it. Editors, the hub of language servers, pickers and status views belong to it and are not locked. Other threads come in four forms, each a module below: per language server a writer, a reader and, once it is stopped, a reaper; per picker a matcher that takes commands from one channel and answers on another; per watched repository a watcher, and a thread that sets it up; and worker threads that do one job each. What they share with the window is small (a flag, a map behind a lock, a channel), and an action of these modules is what one thread does between two uses of it.

## Modules

| Module | Models | State and its counterpart in the code |
|---|---|---|
| `MuxSize` | `Geometry`, `effective_size` | no state: the grid and cell arithmetic `MuxServer` and `MuxPanes` share; a cell size is one number, 0 for unknown |
| `MuxService` | what a server keeps for its clients | `live`, `started`, `written` the incarnations of a name; `follows`, `drawn` the clients; `kept`, `owed` the recipes |
| `MuxServer` | the server process: dispatch, sessions, sizes, connections, recipes | `clients`, `doomed`, `attachments`, `wanted`, `outbox`, `sessionsChanged` are `Dispatcher`'s; `sessions`, `nextGeneration`, `geometry`, `history` are `SessionManager`'s; `program`, `produced` the programs; `reader`, `writer`, `view` the threads of a connection and what a client has drawn; `saved`, `respawning` the defs file; `loop`, `arbitrating`, `reaping` where the event loop is |
| `MuxSocket` | `bind_socket`, `is_socket_live`, `MuxServer`'s start and `Drop`, by several processes | `path` whose socket the file is; `stage`, `asked` where each process is; `overlapped` is history |
| `MuxPanes` | several panes showing one session | `grid`, `layout` of each `Terminal`; `toServer`, `toPane` the connections; `attached`, `wanted`, `geometry` the server |
| `MuxResilient` | `ResilientClient` over both transports, with the network and the server as far as it can tell | `phase`, `connected`, `retries`, `backoff`, `due`, `lastResize` the client's; `channel`, `eof` the transport's; `wire`, `requests`, `attached`, `wanted` the connection's two ends |
| `MuxScrollback` | `ScrollbackRing` | `buf`, `evicted`, with all that was `written` beside them |
| `MuxFrames` | `encode`, `FrameBuffer` and the read loops around it, byte by byte | `buf`, `broken` the FrameBuffer's; `wire`, `peer` the stream; `phase`, `found`, `eof` the reader's; `got` what it decoded |
| `LspHub` | `Hub`, its ports, reader, writer and reaper threads (`winter-lsp/src/client.rs`), and the editor's side (`winter-text/src/lsp.rs`, `window/editor/lsp.rs`) | `running`, `started`, `busy`, `news` are the Hub's servers, counter, progress and generation; `events` its channel; `ports`, `synced`, `revision`, `shown` the editor's; `problems` the diagnostics store; `ready`, `queue`, `reader`, `reaper` a server's flag and threads; `process`, `text`, `unanswered` the process as it is |
| `PickerPromise` | what a picker may rely on | `view`, against `query`, those `asked`, and `rows` |
| `PickerQuery` | `winter-picker/src/query.rs`: the rows a query matches, and `narrows` | no state: a query is its text and its words, which are plain or leave rows out; a row is its label |
| `PickerMatcher` | `Matcher` and its worker (`winter-picker/src/matcher.rs`) | `log` all commands given, of which the worker has `taken` and `applied` so many; `engine` its query, candidates, hits and completeness, with the history bit `astray`; `pc`, `pool` where it is; `answers` the channel back; `view`, `upTo`, `keys` what the picker took |
| `Debounce` | `winter-base/src/watch.rs`: a burst of changes and when it is due | no state: a record with ages for instants |
| `RepoWatch` | `winter-vcs/src/watch.rs` with the status view's use of it (`winter-git/src/lib.rs`, `reply.rs`) | `registry` is REPOS; `watches` each RepoWatch, `starts` each TreeWatch with the thread that makes it; `views`, `jobs` the status views and their reads; `disk` the repository and git's lock |
| `EditorJobs` | `OpenTabs`, the closing paths, `Jobs` and its delivery | `shows`, `kept`, `buried`, `nextTab` are OpenTabs'; `loaded`, `at`, `hidden` each buffer's editor; `running`, `stop`, `refused`, `nextAsk` are Jobs'; `worker`, `rx`, `batch` the threads, their channel and the answers being handed out; `asker`, `fate`, `where` are history |
| `MC...` | values for the constants TLC needs as definitions, and symmetry | |
| `...Proofs` | theorems: `MuxConnectionProofs` has those of `MuxSocket` and `MuxFrames`, `MuxSessionProofs` those of `MuxPanes` and `MuxScrollback`, each other one those of the module it is named after | |

Each request, event and thread step is one action, with the code's early returns as guards. An event of the server is split where other threads or a crash can come between its parts: the request itself, then one size arbitration per session it concerns (`arbitrating`), then the collection and removal of doomed clients (`reaping`), then the save. `MuxPanes` uses the server as a single step per request, which `MuxServer` justifies: nothing a pane sees depends on the steps within.

Definitions named `...Fault` are variants of the definition after them, each with a plausible mistake in it: a dropped guard, an off-by-one, a missing reset. Nothing uses them; they stand there so that each property can be shown to fail when its definition is replaced by one (`PROJECT.json`, "mutants").

## Runs

Every property is checked in a run small enough to finish in minutes and large enough for its case to happen.

| Run | Bounds | What it shows |
|---|---|---|
| streams | `MuxServer`: 1 client, 1 name in 2 incarnations, 3 chunks, history of 2, outbox of 2, 1 crash, resizes and saves that may fail | `ServesSessions`: the server implements `MuxService`, by which what a client is handed is one unbroken stretch of what one incarnation wrote. `StreamsAreComplete`: it is the newest once the client drained its queue. Two queued frames let one be refused with another in flight; three chunks evict one of a history of two; two incarnations let a late chunk of the first come under the second. `ClientsKnowTheGrid`: who has read its queue draws the grid the session has, also where the PTY refuses sizes. |
| clients | `MuxServer`: 2 clients, a wide and a tall size of which one knows its cells, 1 name in 2 incarnations | `SizeIsArbitrated`: the session is the smallest of the wishes once arbitrated; two clients suffice for a minimum to change by either's leaving, and the smallest of wide and tall is neither. `AttachmentsAreLive`, `SessionsMatchPrograms`: incarnations are never mixed up. |
| restart | `MuxServer`: 2 names, 1 client, 1 crash, fairness | `SavedAtRest`, `RecipesAreNotLost`: the defs file is the live sessions between events, also after a crash amid a startup; two names let one be saved while the other is still to respawn. `DroppedConnectionsEnd`: a connection that broke or was dropped ends and is forgotten. |
| socket | `MuxSocket`: 3 processes, starting together or not, fairness | `StartsSettle`: each start comes to serving or to its end. `OnlyTheSilentAreDisplaced`, `RefusedOnlyByServers`: as long as no two starts overlapped, what is removed is a dead process's socket, or that of the process which was asked and let 500 ms pass, and a start is refused only by one that serves. Three processes are a dead one, one that serves and one that starts. |
| panes | `MuxPanes`: 2 panes, sizes that differ each way, 4 layouts | `PanesSettle`: once all is delivered, a lone pane draws the session's grid even if it was laid out faster than the server answers, and so do panes that kept their places. `SessionFitsThePanes`: the session is the smallest of the kept places. |
| client | `MuxResilient`: either transport, 2 failures, 1 end of the session, 2 chunks, 2 retries, 1 doubling of the backoff, 2 sizes, a server of either version, fairness | `OutputIsNotRepeated`, `ConstraintIsRestored`: two failures make a reconnect fail in turn, also after the session ended and was started anew; two sizes tell a stale one apart. `Reattaches`: once failures cease, the client is attached for good, out of retries, closed, or of another version than the server. |
| scrollback | `MuxScrollback`: ring of 4, chunks of up to 6, 9 bytes | `KeepsTheTail`, `ReplaysWholeLines`: chunks shorter than, equal to and longer than the ring, with newlines everywhere. |
| frames | `MuxFrames`: either reader, 3 messages of 5 kinds, bytes of 3 values, limit 3, reads of up to 5 bytes, fairness | `MessagesComeWhole`: every way to cut a stream into reads, a prefix of two bytes so that it can be torn, bodies at the limit and one over it, one that does not decode and one that is empty. `ConnectionsEnd`. |
| lsp | `LspHub`: 2 servers one after the other, queues of 2, 1 edit, 1 message of a server's own, 2 events not drained | `DocumentsFollowInitialized`, `ServersHaveTheText`: the order of the first messages, which two threads send, and the editor's idea of what a server has, also when a queue was full; two places let `initialize` fill one and a document race for the other. `EditorsKnowTheServers`, `ShownAreTheProblems`: between deliveries the editor has the servers there are and shows what the store holds of them; two servers let the first's threads run on under the second. `NoServerOutlivesTheHub`, `StoppedServersAreReaped`: a server that is stopped, refused, unreadable or deaf is seen out. |
| picker | `PickerMatcher`: 2 rows, 4 queries, 4 commands, fairness; matching and narrowing as `PickerQuery` computes them | `KeepsThePromise`: the matcher implements `PickerPromise`. `EngineIsExact`, `KeysAreExact`: a query that was cut short leaves nothing to narrow from; keys saved are those of the moment they were asked for. `EveryCommandIsAnswered`. Four commands are a row, a query, one that narrows it, and one that cuts that short. Of the queries each is taken to narrow those before it, and the last misleads after the third (`ba aa`, `ba aab` and the row `baaab`), so that both sides of what the properties except are reached. |
| watch | `RepoWatch` with `Debounce`: 1 view opened twice, 2 changes, a lock, time passing in steps, lead 1, quiet 2, longest wait 3, fairness | `ChangesAreRead`, `GitChangesAreReadInFull`: every change told to a view is followed by a read that began after it, a full one where it was in git's directory. `BurstsAreReadTwice`: early once at most. `WatchedOnce`. Two changes make one arrive between any two steps of the first's reading. The two invariants also hold for two views and one change (2.4 million states). |
| jobs | `EditorJobs`: 2 buffers, 3 tabs, 2 requests, 1 job at a time, 2 places, fairness | `RequestsAreHeld`, `AnswersReachTheAsker`: an answer comes to a view of the buffer that asked while it is open and asks, and to no other. What the window does to views comes between two batches of answers, as in its loop; within a batch workers answer and editors ask again. `ViewsKeepTheirPlace`, `BuriedAreSetAside`. `DueAreAnswered`. Three tabs are two views of one buffer and one of another; two requests let one be refused while the other runs. |

Each module has its `TypeOK` (`SocketTypeOK`, `RingTypeOK`); they are proved below. `CHECK_DEADLOCK FALSE` stands in the configurations whose bounds let the system stop (no connection, program output, process, command or change left to come).

`MuxResilient` and `MuxFrames` choose the transport and the reader in their initial states and never change them, so that one run covers both; `PickerMatcher` chooses there whether rows come matched by their source. Symmetry is used for panes only, which no definition orders and whose runs have no liveness.

## Fairness

- `MuxServer`: weak fairness of `Finish`, as the loop's thread completes what it started; weak fairness of each `WriterStep`, as writer threads run and a blocked write fails after `CLIENT_WRITE_TIMEOUT`; strong fairness of taking `Closed` once a connection is shut, because the inbox is FIFO and the loop takes from it for ever, while the action is disabled each time the loop handles another event. No fairness of clients or programs.
- `MuxSocket`: weak fairness of each started process; the probe's time-out is a step of its own.
- `MuxResilient`: weak fairness of `Poll` and `Elapse`, as the window's timer polls a pane's terminal and time passes; strong fairness of `Close`, because each round of the window reaps what ended after it polled, while the action is disabled amid a poll; weak fairness of the pump thread's steps, of the server's handling of requests, and of `Restore`, whose counterpart is that failures, bounded in the model, cease. None of the loss of connections, or of the end of a session.
- `MuxFrames`: weak fairness of the reader thread, whose reads block until bytes or the end of the stream come.
- `PickerMatcher`: weak fairness of the worker thread and of scoring's end, which is a finite computation, and of `Poll`, as an answer wakes the window, whose loop polls. None of the user.
- `RepoWatch`: strong fairness of `Tick`, as time passes whatever happens; weak fairness of the watcher, of the threads that set watches up, of the reads, and of a view's looks when it asked to be ticked. None of changes, and none of git's releasing its lock, which a crash may leave behind.
- `EditorJobs`: weak fairness of draining and handing out, which the loop does at least once in every poll interval; of a worker only once it is told to stop, as it looks at its flag. A worker that was not may run for ever.
- `LspHub` states fairness of its threads; its run has invariants only.

## Proofs

TLAPS checks every theorem below for all values of the constants (any number of clients, names, processes, bytes, any limits), from the assumptions named in the modules: bounds are naturals, capacities positive, name sets finite.

| Theorem | Statement |
|---|---|
| `MuxServerProofs!TypeCorrect` | `[]TypeOK` of the server: no outbox over its limit, only tracked clients doomed |
| `...!Invariant` | `[]IInv`, below |
| `...!AttachedToLiveSessions`, `...!NoProgramRunsUnseen` | `[]AttachmentsAreLive`, `[]SessionsMatchPrograms` |
| `...!FreshIncarnations`, `...!EndsAreTold`, `...!RecipesSurvive` | the action properties `IncarnationsAreFresh`, `EndIsTold`, `RecipesAreNotLost` |
| `...!SizesAreArbitrated` | `[]SizeIsArbitrated`, assuming `~ResizeMayFail` |
| `...!FileMatchesSessions` | `[]SavedAtRest`, assuming `~SaveMayFail` |
| `...!ServerServes` | `Spec => Service!Spec`: the server implements `MuxService` |
| `...!StreamsUnbroken`, `...!StreamsComplete`, `...!GridsAreKnown` | `[]StreamsAreUnbroken`, `[]StreamsAreComplete`, `[]ClientsKnowTheGrid` |
| `MuxConnectionProofs!SocketType` | `[]SocketTypeOK`, with any number of starts at once |
| `...!OnlyTheSilent`, `...!RefusalsAreDeserved` | the action properties `OnlyTheSilentAreDisplaced`, `RefusedOnlyByServers` |
| `...!StartsDoSettle` | `FairSocketSpec /\ (\A s \in Server : CanGoOn(s)) => StartsSettle`, see below |
| `...!FrameTypes`, `...!BufferStaysBounded`, `...!BrokenIsGivenUp` | `[]TypeOK` of the frames, `[]BufferIsBounded`, `[]BrokenIsDropped` |
| `...!MessagesWhole` | `[]MessagesComeWhole` |
| `...!BrokenConnectionsEnd` | `FairSpec /\ ReaderCanGoOn => BrokenEnd`, the second part of `ConnectionsEnd` |
| `...!ClosedConnectionsComeToAnEnd` | the induction step of its first part: a reader whose peer is gone always comes to have less to do, or ends |
| `MuxSessionProofs!TypeCorrect`, `...!PanesAgree`, `...!SessionFits` | `[]TypeOK` of the panes, `[]PanesSettle`, `[]SessionFitsThePanes` |
| `...!HistoryIsTheTail`, `...!ReplaysStartAtLines` | `[](RingTypeOK /\ KeepsTheTail)`, `[]ReplaysWholeLines` |
| `MuxResilientProofs!RetriesBoundDials`, `...!ConstraintSurvives` | `[]DialsAreSpent`, `[]ConstraintIsRestored` |
| `...!TypeCorrect`, `...!OutputComesOnce` | `[]TypeOK`, `[]OutputIsNotRepeated` |
| `...!NobodyStaysStranded` | `[]NobodyIsStranded`: who is connected is attached, or about to be, or told that the session ended |
| `LspHubProofs!HubTypes` | `[]TypeOK` |
| `...!StoppedAreReaped`, `...!NoneOutlivesTheHub` | `[]StoppedServersAreReaped`, `[]NoServerOutlivesTheHub` |
| `...!DocumentOrder`, `...!TextIsHad` | `[]DocumentsFollowInitialized`, `[]ServersHaveTheText` |
| `...!EditorsKnow`, `...!ShownIsTheStore` | `[]EditorsKnowTheServers`, `[]ShownAreTheProblems` |
| `PickerMatcherProofs!PickerTypes`, `...!EngineExactness`, `...!KeysExactness` | `[]TypeOK`, `[]EngineIsExact`, `[]KeysAreExact` |
| `...!MatcherKeepsThePromise` | `Spec => Promise!Spec`: the matcher implements `PickerPromise` |
| `...!AllIsShownAtRest` | `[]ShowsAllAtRest`: with nothing left to apply or to take, the picker shows its matches, marked current, and every one unless a query asked misleads |
| `...!FirstWordNeverMisleads` | by the rules of `PickerQuery`, a query that narrows an empty one or a single plain word matches nothing that one does not, for all texts |
| `RepoWatchProofs!TypeCorrect`, `...!OneWatch`, `...!BurstsReadTwice` | `[]TypeOK`, `[]WatchedOnce`, `[]BurstsAreReadTwice` |
| `...!RecallsChanges` | `[]NothingIsForgotten` |
| `EditorJobsProofs!TypeCorrect`, `...!HeldRequests`, `...!PlacesAreKept`, `...!BuriedStayAside` | `[]TypeOK`, `[]RequestsAreHeld`, `[]ViewsKeepTheirPlace`, `[]BuriedAreSetAside` |
| `...!AnswersGoToTheAsker` | the action property `AnswersReachTheAsker` |

The server's inductive invariant is

    IInv == TypeOK /\ AttachmentsAreLive /\ SessionsMatchPrograms
                   /\ GenerationsAreUsed /\ RespawningIsAtBoot

Neither of the two middle properties is inductive alone. `AttachmentsAreLive` survives a kill or an exit only because the session's end forgets it at every client, and survives an attach only because what is attached to is current; `SessionsMatchPrograms` survives the start of a session only if the generation it takes was never used, which is `GenerationsAreUsed`: every incarnation at or past `nextGeneration` is unused, and no live one is past it. `RespawningIsAtBoot` says that recipes are left to respawn only during startup; it is what `RecipesSurvive` needs of the save. `EndsAreTold` and `FreshIncarnations` follow from one lemma that classifies every step by what it does to `sessions`: it starts a session, ends one, respawns, crashes, or leaves them alone.

Two more properties of the server are proved with a further part each. `Sized` says of every incarnation, not of the live ones only, that it has the size its clients ask for unless its turn in the arbitration is still to come, and that no turn is left when the next event is taken: it takes a resize, a detach and an end of a client alike through the loop that arbitrates one session after another. `Accounted` says that the file holds the live sessions and those startup has yet to respawn unless a save is due. Each is false where the step it depends on may fail, a program's resize or a write of the file, since neither is repeated: hence the two hypotheses, which are also the values the runs clients and restart give these constants.

What a client is sent is proved from a second invariant, over the first:

    Streams == ClientsAreCounted /\ ListenersKeepUp /\ TextsAreJoined /\ HistoriesAreWhole

It speaks of what a client will have drawn once it has read its queue, which is what the dispatcher can keep true when it queues a message and a writer thread leaves alone when it delivers one. `ListenersKeepUp` says of a client that is tracked, not doomed and attached that its view after its queue is the session's output to the last chunk and the session's grid: nothing is queued past a refused frame because the refusal dooms the client in the same step. `TextsAreJoined` says of every client, also one that is dropped or was never attached again, that what it has drawn and what is queued join without a gap: a late chunk cannot follow a newer incarnation's, since reports carry the incarnation. `HistoriesAreWhole` says that a replay is itself one stretch that ends with the last chunk taken. The two properties of streams (`StreamsAreUnbroken` has no run of its own, since `ServesSessions` implies it) and `ClientsKnowTheGrid` are `Streams` with an empty queue; none needs `Sized`, since a size that the program refused is neither kept nor sent.

`ServerServes` maps the server to `MuxService` (`Service` in `MuxServer`): sessions, attachments, what was written and the recipes are what they are, an incarnation has started if its program was ever used, and a client has drawn the text of its view. The service has no threads, queues, doomed clients, sizes or events: a detach, a hang-up and a reaping are one `Leave`, a kill and an exit one `End`, and the steps of the loop are not seen. Its promises are that a session starts only as an incarnation that never ran, that an end lets everyone go, that a client is handed a stretch of what one incarnation wrote or the chunk after its last, that the recipes are replaced only once all that were owed came back, and that a restart leaves nothing else. The proof has one lemma for each action, by which the step is one of the service's or a stutter, and needs one invariant more than `Streams`:

    Written == HistoriesAreWritten /\ ViewsAreWritten /\ QueuesAreWritten

Each chunk that is retained, queued or drawn under a name is one that an incarnation of that name wrote. Joined texts alone would also be kept by a server that made its output up. With it, an unbroken text counts up from its first chunk to one that was written (`UnbrokenCounts`, by the least counterexample), and so is a stretch.

The panes' invariant is

    IInv == TypeOK /\ Arbitrated /\ \A p : Asks(p) /\ AsksEnough(p) /\ Hears(p) /\ Draws(p) /\ KeepsPlace(p)

`Arbitrated` is the server's side: the session is what the wishes it counts come to. The others follow a connection both ways. A pane's requests are its attachment, sizes, and its end, in that order (`Asks`), and an open pane whose wish is not counted has a size on its way (`AsksEnough`). The last grid on its way to a pane is the session's, and only attached panes are sent any (`Hears`). A pane that none is on its way to draws what it last asked for or what the session has (`Draws`), and the latter if it kept its place (`KeepsPlace`). When nothing is on its way the ends meet. The wishes counted are then exactly the open panes'.

The socket's theorems rest on `SocketInv`, which follows bind_socket of the one process that starts: the file it found stays the file it asks and unlinks, whether its owner is dead or only late, since while starts do not overlap nobody else moves the path; and whoever the path names listens or is gone. Without that condition (the history variable `overlapped`) they are false: a second start may take a first one's new socket for the leftover it found.

`ConstraintSurvives` needs more of what is on its way than of what has arrived: an attach still to be handled has the pane's last size behind it, and once the server has the client attached it either holds that size or has it on its way (`SizeIsUnderWay`). The first part is what a session's end and its being started anew leave untouched. `OutputComesOnce` orders all output by where it is: what the pane shows, then what the bridge's thread has read, then what is on the wire (`Ordered`); and a history is asked for once, before anything is shown, with no other attach on its way (`HistoryIsFirst`), without which a second replay would repeat what is shown. `HistoryIsTheTail` is one lemma on appending to a ring; `ReplaysStartAtLines` finds the first newline of the ring's tail by well-founded choice and needs no more than `KeepsTheTail` of the ring; `BufferStaysBounded` needs only the types and the fact that a drain stops on an incomplete frame of an accepted length or with nothing left.

The hub's invariant is

    IInv == TypeOK /\ Lives /\ Greets /\ DocumentsFollowInitialized
                   /\ ServersHaveTheText /\ PortsAreTold

where `Lives` joins `StoppedServersAreReaped` and `NoServerOutlivesTheHub` with two facts about numbers not yet given out and about at most one server running, and `Greets` follows the handshake: `initialized` is queued once, by a reader that saw the answer, and only what is ready may be handed a document. `PortsAreTold` is what `EditorsKnow` and `ShownIsTheStore` need: where the editor's ports and the hub's servers differ, an event or the news of a start is still to be delivered. It is the only part that relates the two threads' ideas of each other, and neither property is inductive without it.

The picker's is

    IInv == Counting /\ Numbered /\ LastIsCurrent /\ RowsAreTold
                     /\ Exact /\ AstrayIsMisled /\ AnswersAreExact

The commands given are one log, of which the worker and the picker have seen prefixes; `Numbered` says that generations count the queries of such a prefix, `RowsAreTold` that the rows are those of it. `Exact` is `EngineIsExact` with what the worker holds while it scores, and `AnswersAreExact` carries that to the answers still on the channel. The refinement follows: a poll shows a view the promise allows because its generation is the last one only if the query applied is the last given, and a command changes only what the promise lets it. Matching and narrowing are parameters of which nothing is assumed. A query *misleads* after another if it is taken to narrow that one and matches a row which that one does not. `Exact` lets rows be missing while the engine is `astray`, from a query that misleads to the next that is scored against all rows, and `AstrayIsMisled` traces that to two queries that were asked, which is how the promise and the answers, who cannot see the engine, except it. `FirstWordNeverMisleads` says for the rules of `query.rs` how far the exception does not reach: while the query narrowed is a first word, or none.

The editor's is `TypeOK /\ ViewInv /\ JobInv`. `ViewInv` joins `ViewsKeepTheirPlace` and `BuriedAreSetAside` with what they rest on: buffers and tabs are numbered afresh, and what a buffer has loaded is one of its views. `JobInv` accounts for every request: it is a job of the map, a refusal, an answer in the channel, an answer being handed out, or settled, in one of these places exactly, and always under a tab that shows the buffer that asked. `AmendsKeeps` proves once that handing over and dropping a tab's jobs keeps these books, and every closing path cites it.

Repository watching has `IInv == TypeOK /\ TreesExist /\ \A s : Shares(s) /\ Settled(burst of s)`. `WatchedOnce` alone is not inductive: a thread takes a watch from the registry, sets one up and subscribes in steps between which others do the same or let theirs go. `Shares` adds that whoever subscribes, or has, does so to the watch the registry holds, so that none is replaced while someone follows it. `Settled` says that a burst has had at most one early read, and none while it is unread.

`NothingIsForgotten` is the part of `ChangesAreRead` and `GitChangesAreReadInFull` that needs no fairness: a change told to a view is on its way in a channel, waits in the view's burst, or has a read that began after it, a full one where it must be. It is proved from a further invariant, `Recall`, which says so of every tree with its view or without, and with it that whoever has messages to take in was woken for them or is about to be (`IsWoken`), that changes in a directory made under the watch reach it or join others on their way (`IsCovered`), and that no two views share a tree (`Owned`), without which one view's read would clear what another is owed. It stands in no configuration, as the two temporal properties that imply it are in the run watch; added there with `Recall` TLC finds it true, and false under the mutants of those two properties.

Two more theorems are the parts of liveness properties that need no fairness. `ShowsAllAtRest` belongs to `EveryCommandIsAnswered`: a worker that is idle has applied what it took, and its last answer is of all of that (`HasSaidAll`); since the last query given has the current number (`LastIsCounted`), that answer is not dropped as stale when it is polled. `NobodyIsStranded` belongs to `Reattaches`: an attach is lost only with its connection, and the session's end, which detaches a client, sends it an `Exit` on the same connection. TLC finds both true with the bounds of the runs picker and client.

`MessagesWhole` needs to know where in the messages sent the reader is:

    FramesInv == TypeOK /\ Decoding /\ Drained

`Decoding` says that for some number k the first k messages, none of them too large, are what was decoded, and that what is buffered followed by what is on the way is the rest, encoded; or that the buffer broke at a next one which is too large. Both are concatenations of any number of parts, so `Decoding` states each as a function of partial results (`TakenTo`, `LeftFrom`) whose neighbours differ by one message: a send extends one of them, a drained frame the other, and a read only moves bytes between the stream and the buffer. `FrontFrame` is the step where a prefix is read back: the bytes at the front of the buffer can be cut in one way only (`FrontOf`). `Drained` says that a reader which reads again has less than a frame left, so that an empty stream leaves nothing to come. That the recursive function `ExpectedFrom` has the values its definition gives it is shown from the end by a least counterexample (`LeastNumber`).

### What is proved of liveness

The prover's temporal steps are propositional: it can derive a leads-to from weak fairness when the steps of the other actors are known to keep the state and the fair step to leave it, and chain such leads-tos, but it takes `ENABLED` for a symbol without meaning and cannot use induction for a temporal formula. The liveness theorems therefore have a hypothesis that says where the fair action is enabled, and are about what needs no induction.

- `StartsDoSettle`. `Onward` gives for each stage of a start the stages it can be followed by, and no chain of them comes back: `StagesArePassedInOrder` and `StartsGoOn` are the two step lemmas, `StagesEnd` the leads-to for one stage, `StartArrives` the chain. The hypothesis `CanGoOn(s)` says that a process under way has a step to take. It holds by the guards of `Startup`, each of which is a stage; of the two that share one, waiting for an answer, the time-out is always possible.
- `BrokenConnectionsEnd` rests on `BrokenIsDropped` and on a broken buffer's being empty, which leaves a drain one step. `ClosedConnectionsComeToAnEnd` counts what a reader has left to do, `ToDo`: three for each byte on the way, one for each that is buffered, one for a drain under way. Every step of it ends the connection or leaves less (`ReadersDoIt`), and the peer's steps, once it closed, leave `ToDo` alone. The hypothesis `ReaderCanGoOn` says that it has a step in every drain, and with bytes or an end of the stream to read: a drain breaks, takes a frame or ends according to the front of the buffer.

TLC finds both hypotheses true in every state of the runs socket and frames.

Model-checked only: `DroppedConnectionsEnd`, `Reattaches`, the first part of `ConnectionsEnd`, `EveryCommandIsAnswered`, `ChangesAreRead`, `GitChangesAreReadInFull` and `DueAreAnswered`. Each is by induction over the length of a queue, or over a number of retries. Every invariant and every action property of the runs has a theorem, and so have both refinements.

## What the checks found

Properties that a comment of the code suggests and the models violate. They stand in the modules, in no configuration; TLC finds each when its name is added to the run named.

- `NoOneStaysDoomed` (`MuxServer`; an outbox of 1 and 2 clients): a client that is doomed while the doomed are being removed stays until the next event (`dispatch.rs:138`).
- `ServersStayReachable` (`MuxSocket`, run socket): a refused `winter mux serve` deletes the socket of the server that refused it, through `Drop` (`server/mod.rs:134`).
- `ServingAreNotDisplaced` (`MuxSocket`, run socket): `bind_socket` "fails rather than displacing a server that is still serving" (`server/mod.rs`), but its probe is a deadline of 500 ms on the server's one event loop (`server/mod.rs:44`, `client.rs:181`), which also starts programs, resizes them and writes the defs file. A server that answers later is taken for a leftover and unlinked, without any overlap. After a crash the slower of two starts at once unlinks the faster's socket too.
- `PanesDrawTheSession` (`MuxPanes`, run panes): `Terminal::resize` snaps the grid to the pane's place even if the session stays smaller (`winter-terminal/src/session/mod.rs:886`).
- `NothingIsSkipped` (`MuxResilient`, run client): output written while a client is away is never shown (`resilience.rs:205`).
- `RefusalsAreFinal` (`MuxResilient`, run client): the refusal of a client's version is a message, which resets its retries and backoff (`resilience.rs:154`), so that it redials for ever at the shortest pace. Over ssh the attach is ahead of the version (`proxy.rs:63`), so that each dial even starts the session before it is refused.
- `EndsAreFinal` (`MuxResilient`, run client): a pane that was told its session ended and loses its connection before it is closed redials, and its attach starts the session again.
- `CurrentIsComplete` (`PickerMatcher`, run picker): `query.rs:223` says of `narrows` that "every row `new` matches `old` matched too". It does not hold for queries of several words, as `match_indices` tries places that do not overlap and each word needs a place of its own: `xa aa` does not match a row `xaaay`, `xa aay` does, and `narrows` says yes. Nor with a word that leaves rows out, since a row that is the whole query matches whatever its `!` words are (`query.rs:195`): the row `a !b c`, first `a !b`, then `a !b c`. The row is then missing from an answer marked current, and until a query that does not narrow (`matcher.rs:504`). Both examples are evaluated by `MCPickerMatcher`.
- `ProblemsAreOfServers` (`LspHub`, run lsp): `diagnostics.rs:88` forgets what a stopped server found, but its reader, amid a message, publishes once more, and what it publishes stays.

The models also have behaviours that other comments exclude; the properties of the runs are stated so as not to exclude them.

- A failed write of the defs file is not repeated, since the changed flag is taken first (`server/mod.rs:159`): hence `SavedAtRest` is checked with writes that succeed.
- `Terminal::resize` compares the pane's place with its grid, where the size last reported would be meant (`winter-terminal/src/session/mod.rs:882`): a pane letterboxed to a smaller session that shrinks to just that grid reports nothing, and the session outgrows it when the other pane leaves. Hence `layouts = 0` in `SessionFitsThePanes`.
- A repeated attach replays the history again, though `proxy.rs:60-62` relies on its being ignored.
- The ssh bridge's last output is dropped if it arrives between recv's look at the channel and its look at eof (`resilience.rs:164`), and input does not reconnect first (`resilience.rs:124`, which its comment says).
- A history whose first newline is its last byte replays nothing (`session.rs:416`).
- Clients never drop a connection whose frame was too large (`client.rs:150`): hence the reader in `BrokenIsDropped`. A hang-up noticed by a write has unread messages dropped (`client.rs:244`).
- A session that cannot be started is answered by an error alone (`dispatch.rs:303`), and the client stays connected and attached to nothing. `MuxResilient` has sessions that start.
- Picker: keys asked for under a query that is then superseded, or cut short, are of what was matched before it (`matcher.rs:304`). Hence the condition of `KeysAreExact`.
- Watching: a top-level directory made while the watch is being set up stays unwatched until another event (`winter-vcs/src/watch.rs:306`); one that is removed and made again stays in `watched` and is not watched anew; changes between a view's first read and the set-up of its watch are missed (`winter-git/src/lib.rs:2004`); an older status answer may land after a newer one. The properties are of changes the watch was told. `docs/usage-guide.md:543` says "three seconds after the changes go quiet", where the code waits 200 ms or 750 ms.
- Tabs: a new view starts where the loaded view was when it is first loaded, not "where that view is" (`open_tabs.rs:289`). Hence `where` is recorded from then on.
- Jobs: `cancel_for` leaves the refusals of the tab, though its comment says "discard their answers" (`jobs/mod.rs:220`); `CancelJobs` in one view leaves the jobs another view of the buffer started (`window/editor/keys.rs:365`); cancelled jobs leave the map while their threads run on, so that more than `MAX_IN_FLIGHT` run (`jobs/mod.rs:44`); a worker that panics leaves its entry in the map for ever, which is why `DueAreAnswered` excepts it.

## What is not modelled

Within the mux: the contents of listings, base64 and JSON, the choice of a shell and its environment, permissions of the socket, the stdio proxy's two pumps, Windows. Messages are whole in `MuxResilient`, and cut from bytes in `MuxFrames`; a session that cannot be started is in `MuxServer` only. `MuxServer`'s inbox is the threads' own order, each thread's events in sequence. Sizes have a few values, cells one dimension. Time is only the order of time-outs and answers.

Language servers: closing and saving documents, servers of extensions, starting by itself on the first file, which editor's request an answer is for, the server's error output. A `didOpen` that a full queue dropped is tried again only with the next tick that something else asks for (`has_unsynced_edits` looks at edits alone), which `ServersHaveTheText` allows.

Picker: regular expressions, fields of a row besides its label, scores, the order of rows, the slice on screen, and the session around the matcher (selection, sources, resuming). Watching: reads that fail, the listing's own watch of directories, popups that hold a look up, a refresh the user asks for. Tabs and jobs: terminals and pages, parked workspaces, the companions of a commit message, labels and progress, the times of ticks, outcomes of a job other than its answer (they open editors, pages and prompts; no editor's `on_job` closes a tab or calls jobs off), and an editor that is dropped when its last view closes, which here is one always closed for good.

Outside of these: everything else of the inventory. The build runner, the quota monitor, the control socket and the extension host have a process or a thread each and little state; the PDF worker and one-off work (`Background`) come first in the plan. Rendering, the emulator's interpretation of escape codes, syntax and spelling are sequential data processing that tests reach better.

## Plan

What would come next, the most interactive first:

1. `PdfWorker` (`winter-pdf/src/worker.rs`): pages of the newest layout are drawn, none of an older one is shown. `Background` (`winter-model/src/background.rs`): a result, or the work's end without one, comes to whoever polls.
2. `MuxResilient`: sessions that cannot be started, so that a client which waits in vain can be told from one that is attached.
3. `RepoWatch`: failing reads, the directory listing's watch; a composition with `EditorJobs`, whose jobs its reads are.
4. `LayoutTree` (`winter-model/src/layout.rs`), and undo (`winter-model/src/textedit/buffer.rs`): splits and edits as pure algorithms against a reference over bounded inputs.
