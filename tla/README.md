# DoorSwitchSvr: specifications, model checks and proofs

DoorSwitchSvr opens doors. A camera node recognises a person and publishes an
open-door request over MQTT; the server finds the switch (a relay box on the
network) and the channel (one door) the request names, sends an *open* command,
waits for the time the request grants and sends a *close* command.

This directory holds TLA+ modules for the server and for the parts of its test
programs that have behaviour of their own, the TLC configurations that check them on
small instances, and the TLAPS proofs of what holds for every instance. Paths below
are relative to the repository's `src/`.

## 1. The system

| Component | State | Operations | Threads |
|---|---|---|---|
| `DoorSwitchSvr` | configuration, map of switches | `parseConfiguration`, `loadSwitchSetting`, `main` | main |
| `DoorSwitchMqttProxy` | MQTT connection | constructor, `on_connect`, `on_message`, destructor | network thread of libmosquitto, main |
| `DoorSwitchEngine` | `m_mapOidSwitchHandler` | `onRecvMqttMessage`, `createSwitchHandler`, destructor | network thread, main at the end |
| `DoorSwitchHandler` (one per switch) | socket, `m_isConnected`, `m_isTimerOn`, `m_interval`, `m_reconnTimer`, `m_mapControllers` | `connect`, `openDoor`, `handleRWError`, `onReconnTimer`, `close` | network thread, io thread, timer thread, every worker, main |
| `DoorSwitchChannelController` (one per door) | `m_taskNotiQue`, `m_channel`, `m_stop`, reply deadline; `bNotiInQ` and `realWait` of `run()` | `Init`, `Start`, `addTask`, `run`, `sendData`, `close`, reply handlers | its worker, network thread, io thread, main |
| mock switch | none that outlives a receive | answers `OK!` to what it receives | separate program |
| mock stream node | rows of a test file, threads | reads the file with `csv.h`, starts a publisher per row | separate program: main, the reader's second thread, a pool |

How they interact: the network thread calls the engine, the engine calls `openDoor`
of a handler, the handler puts a task into the queue of a controller; the controller's
worker writes to the handler's socket and calls back `handleRWError`; a read or
write error starts a `Poco::Timer` whose thread connects again. Nothing in a
handler is protected by a lock: two flags are atomic, the queue and the timer lock
themselves. At shutdown `main` destroys the MQTT proxy first (its thread is joined)
and the engine second, whose destructor closes every handler.

What makes each part correct, and what is hard about it:

* **A door** is open while a person is granted time, is not closed before, and does
  not stay open. Hard: tasks expire in the queue, a follower inherits an open door,
  commands get lost, shutdown comes in the middle.
* **A request** reaches the door it names, at most once and in order. Hard: handlers
  and controllers are created on demand in ordered maps while workers run; the broker
  forgets the subscription; numbers are narrowed on the way to the command bytes.
* **A lost connection** comes back, one timer at a time. Hard: several threads report
  errors at once, an unlocked flag, a timer that is stopped while its callback runs.
* **A reply** that is missing is noticed, one that came is not missed. Hard: one read
  and one deadline per controller, one socket per switch, answers without a name.
* **Shutdown** ends. Hard: it stops a timer that may be connecting, an io thread, and
  workers that may be anywhere in their loop.
* **The test file** is read line by line as it is written. Hard: a second thread fills
  the buffer the lines are cut from.

`PROJECT.json` lists the components, and as *hazards* the places in the code where
these can go wrong, each with the properties that cover it.

## 2. Modules

| Module | Models |
|---|---|
| `DoorSlot` | what one door promises (abstract) |
| `ChannelWorker`, `MCChannelWorker`, `ChannelWorkerProofs` | the worker of one controller, its queue, its relay, `close()` |
| `SwitchRouting`, `MCSwitchRouting`, `SwitchRoutingProofs` | engine, handlers and controllers as maps; network thread and workers |
| `Reconnect`, `ReconnectProofs` | `handleRWError`, the reconnect timer, `Poco::Timer`, `close()` of a handler |
| `ReplyWatch`, `ReplyWatchProofs` | reply deadlines, controllers sharing a socket, the mock switch |
| `RelayCommand`, `RelayCommandProofs` | the command bytes and the relays they name |
| `SwitchSettings` | `loadSwitchSetting` (extends `RelayCommand` for the widths) |
| `MqttProxy` | the proxy, its network thread, the broker |
| `DoorSwitchSvr`, `MCDoorSwitchSvr`, `DoorSwitchSvrProofs` | `main`, composed of the three above |
| `LineReader` | `LineReader` and `AsynchronousReader` of `csv.h` |
| `StreamNode`, `MCStreamNode`, `StreamNodeProofs`, `StreamNodeLines` | `main` of the mock stream node on top of it |

The MC modules give constants their values and, for the routing, bound the instance;
they replace no definition.

### ChannelWorker

| Model | Code |
|---|---|
| `pc` | the place of the worker in `run()`: `check` line 76, `dequeue`/`waiting` line 81, `taken` line 92, `opening`, `sleeping` and `closing` the commands and the sleep of lines 104-124; `openFailed` and `closeFailed` in `handleRWError`, called from line 23 |
| `queue`, `left` | for each waiting task and for the one in hand, `getCloseAfterMs() - getElapsed()`; while it sleeps, the rest of `realWait` |
| `bNotiInQ`, `m_stop` | the variables of that name |
| `door` | the position the last command that arrived brought the relay into |
| `connected` | the handler's `m_isConnected`, the guard of `openDoor` |
| `closer` | main's progress in `close()`, after the handler has closed the socket |
| `excuse` | history, read by properties only: since the last command that arrived, was a task dropped, a command lost, or the queue cleared with tasks in it |

Time is discrete and passes for every waiting task at once. A task whose time is up
counts as 0, whether it is 0 or less, because line 93 treats them alike. `Tick` is
not urgent: a worker may be late by any amount, as a thread may. `AddTask` hands a
task to a waiting worker directly, as `Poco::NotificationQueue` does. A command may
get lost in two ways: the write fails, and `handleRWError` clears `m_isConnected`, or
it succeeds and the connection breaks before the relay acts. From `handleRWError` the
worker returns (`ReportReturns`), is ended by the assertion of `Timer::start`
(`ReportThrows`), or, as neither is fair, never comes back. `m_isConnected` also
changes by itself (`LinkChange`): what the other threads of the handler do to it is
the subject of `Reconnect`.

### DoorSlot

The promise: `Serve` opens the door for a positive time, `Tick` uses it up, `Close`
closes it only when it is used up, and fairness says it is. `ChannelWorker` maps to it
with `slot` = the remaining sleep.

### SwitchRouting

| Model | Code |
|---|---|
| `handlers`, `controllers` | the keys of `m_mapOidSwitchHandler` and of each `m_mapControllers`; oids and channels are numbers because only their order matters |
| `IsLast` | `crbegin()` |
| `mqtt` | the place of the network thread: `connect` line 59 of the engine, `openDoor` line 64 or 68, `init` and `start` lines 78 and 84-87 of the handler |
| `m_channel`, `started` | per controller |
| `taskQue`, `serving`, `bNotiInQ`, `open` | the workers of `ChannelWorker` without their clock: number of waiting tasks, which controllers sleep, their flag, the doors that are open |
| `m_isConnected`, `retry` | per switch the connection and its reconnect timer: `off`, `trying`, or `ending`, when it has connected and `m_isTimerOn` is not cleared yet (line 44) |
| `reporting`, `ended` | the workers that are in `handleRWError`, and those an exception has ended |
| `aborted` | an exception has left the network thread or the io thread |
| `disorder`, `excused`, `missed` | history: where a map entry was inserted below another one; doors whose close command was lost, whose last follower was dropped or whose worker was ended; switches whose last report was dismissed |

The network thread is cut where a worker can see a difference: inserting, `Init`
(which writes `m_channel`) and `Start` with `addTask`. A worker reads `m_channel` when
it writes a command. `Receive` covers only requests that pass the checks; the checks
themselves are `DoorSwitchSvr!Passes`. A handler whose address cannot be parsed throws
in its constructor, in the network thread, and that is the end of the program
(`BadAddress` sets `aborted`); so is the assertion of `Timer::start`, when it fails in
the io thread or in the network thread, once several threads use the timer of a
handler (`StartFails`). In a worker the assertion only ends the worker
(`ReportThrows`). The connection is coarser than in `Reconnect`: `handleRWError` is one
step, which clears `m_isConnected` and starts the timer unless it is on. A timer that
is just `ending` dismisses the report (`missed`). A command is lost with its
connection, behind a write that succeeds, or with a write that fails.

### Reconnect

`caller[r]` walks through `handleRWError` and `startReconnectTimer` one shared
access at a time, and for the network thread through `connect()`, which is called
again on a handler at work (`CallConnect`; `DoorSwitchEngine.cpp:59`) and starts the
timer without testing `m_isTimerOn`; `timer` through `Poco::Timer::run`, `onReconnTimer` and
`reconnect`, `main` through `DoorSwitchHandler::close`. `hasCallback`, `period`,
`wakeUp` and `done` are the timer's `_pCallback`, `_periodicInterval` and its two
events, which reset themselves when a wait succeeds; this part is external and
modelled from how Poco implements the calls the handler makes. Facts it rests on:
`stop()` sets the period to zero, wakes the thread and waits for `_done`; `start()`
asserts that there is no callback; the thread goes round as long as it reads a period
above zero; connecting an open socket fails; an event wakes one of its waiters.
`start()` is one step: the few instructions between its assertion and its lock are
not split. A report may come at any time, on a sound connection too (a reply that is
late). The initial states are those after the first `connect()`. `close()` may begin
at any moment the network thread is not in the handler, because `main` joins that
thread first: it closes the socket, stops the `io_service`, stops the
timer, joins the io thread and then, in the controllers' `close()`, the workers.

### ReplyWatch

| Model | Code |
|---|---|
| `place`, `Write`, `Test` | `sendData` of each worker, cut between the write and the test of the deadline (line 28) |
| `expires` | `m_write_ret_deadline_timer.expires_from_now()` of each controller, `Infinity` for `pos_infin` |
| `reads`, `failed` | the `async_read`s that wait at the socket; those that have ended with an error whose handlers the io thread has not called yet |
| `io` | the controller whose `check_read_ret_deadline` has reported and not yet set its deadline to infinity |
| `due`, `replies`, `mute` | commands the relay has not answered, answers at the socket, commands that will never be answered |
| `InitAgain` | line 11 of `Init`, called again on a controller at work (`DoorSwitchHandler.cpp:78`): its deadline becomes infinite |
| `conn`, `m_isTimerOn` | the handler's connection; `handleRWError` is one step here |

The relay is the one of `testsuite/SeetaMockSwitch`: one answer for all it finds in
one receive. Deadlines, reads and the socket are boost::asio's: reads wait in one
queue, the first takes everything that is there, closing the socket ends all of them.

### RelayCommand, SwitchSettings, MqttProxy, DoorSwitchSvr

`RelayCommand` gives the ten bytes at the width of their integers. A channel reaches
it through `short`; `pow` of a channel from 16 on does not fit `int16_t`, which C++
leaves undefined, so there the command is a set of possible frames. `Selected` and
`Opened` are the relay's reading of a frame.

`SwitchSettings` reads the collection document by document: incomplete ones are
skipped, one with a number of another type ends the load with an exception, values
are cut to 16 bits, `std::map::insert` keeps the first entry of an oid.

`MqttProxy` has the client (`trying`, `connected`, `accepted`, ...), the packets under
way and the callback the network thread is in. libmosquitto and the broker are
external: a clean session, QoS 0, no retained messages, a loop that connects again,
`loop_stop` that joins the thread. `connect()` refuses a port that is not positive,
and the code ignores that result. The network thread does nothing while it is in its
callback.

`DoorSwitchSvr` composes them: `main` goes through parsing, loading, engine, proxy,
serving, and destroys proxy and engine in the reverse order; the proxy's callback is
the engine's, which checks each request (`Passes`) against the switches that were
loaded. What an accepted request does next is `SwitchRouting`; here it ends in its
two commands. `DestroyEngine`, which closes the handlers, may wait for ever: when it
does not is the subject of the two `CloseReturns`.

### LineReader, StreamNode

`LineReader` keeps the buffer of three blocks byte for byte, because its properties
are about bytes: `next_line` is cut into the shift of the second block (`NextLine`),
the wait for the second thread (`FinishRead`), the copy of the third block and the
next request (`StartRead`), and the search for the newline (`Scan`); `Fetch` and
`Leave` are the second thread. `next_line` copies the
third block without holding the lock the second thread fills it under. A byte nobody has written (`Unset`) may be a newline or
not. The assertions of `csv.h` abort: `testsuite/SeetaMockStreamNode/CMakeLists.txt`
leaves them on unless CMake is told to build for release.

`StreamNode` is `main`: header, rows (`Columns`, `Order`, `Row` are the column
splitting of `csv.h` as instantiated here: trim blanks, separate by commas, no
quotes, no comments), the first exception ends the reading, then one thread per row.
Of the four columns the model has two, one for each kind of conversion.

## 3. Runs

| Run | Question | Bounds | Result |
|---|---|---|---|
| `worker_direct` | do flag, door and person agree for a directly controlled door, does `close()` return if reports do | queue of 2, close times -1, 1, 2, link failures, shutdown | holds |
| `worker_indirect` | does an indirectly controlled door keep the promise of `DoorSlot` | queue of 3, close times -1, 1, 2, sound link | holds |
| `worker_in_time` | does everyone in time find the door open | queue of 2, close times 1, 2, sound link | violated |
| `worker_closed_after` | is the door closed when there is nothing to do | same | violated |
| `routing` | who controls which door, who is connected, which doors are open, does a lost handler stay lost | 3 switches of both types, one with 2 doors; a behaviour uses the second door or the third switch; queue of 1; one worker at a time, of switch 1, in a report or ended by one; switch 3 is connected by `connect()` only and loses no close command; no exception ends the program | holds |
| `routing_three_doors` | is an accepted task taken; is a controller that missed its start ever started | 1 switch with 3 doors, one with an unusable address; queue of 1; one report at a time, lost close commands of door 1 | holds |
| `routing_one_door` | does a controller keep its door | as `routing` | violated |
| `routing_one_switch` | is a handler connected to its switch | as `routing` | violated |
| `reconnect` | which parts of the protocol survive any interleaving, and does `close()` | 2 reporting threads, one the io thread, the network thread and main; periods 2 to 5 | holds |
| `reply_watch` | what is a deadline good for on a shared socket | 2 controllers, deadline of 1 tick, 2 commands or answers under way | holds |
| `server` | start, subscription, delivery, commands, end of the proxy | 4 messages of 6 kinds, 3 collections of up to 3 documents, 2 ports, one beyond 32767 | holds |
| `stream_node` | are the lines, rows and threads of the file right | blocks of 5 bytes, files of up to 6 blocks: 5 headers, 3 kinds of rows, 8 last rows, with and without final newline | holds |

Why the bounds are enough. A queue of two holds an expired task and one behind it;
three tasks add one behind a follower. Close times of -1, 1 and 2 ticks give tasks
that are born expired, expire while another one is served, and survive it. Two
switches and two channels are the least for which an insertion can be out of order,
and the switches that sort last have fewer channels, so that a channel number can be
valid for one and not for the other; with three of a kind there is an insertion
after the one that went wrong. Two reporters are the least that can overlap; 5 is
no power of 2, so that the limit of the pause is met off the exact value. Two
controllers are the least that can take each other's answers, and two commands under
way the least that can be answered together. Rows of three lengths put line ends at
every place of a block of 5; six blocks move every byte through all three places and
ask the second thread for blocks behind the end of the file.

What the runs show:

* The flag `bNotiInQ` is right about the door between two tasks, the worker never
  sleeps for somebody in front of a closed door and never waits beside an open one,
  **except** after a task expired in the queue, a command got lost or shutdown
  discarded followers, up to the next command that arrives.
* Without the first exception both statements fail (`worker_in_time`,
  `worker_closed_after`): skipping an expired task sets the flag without looking at
  the door, and leaves the door to nobody when it was the last follower. On a
  directly controlled door, two simultaneous requests of the same length suffice.
* An indirectly controlled door does not have this problem: it implements `DoorSlot`.
* `close()` of a controller returns, unless the worker was between its test of
  `m_stop` and its queue when `m_stop` was set, when nobody wakes it, or is kept by
  the report of a failed write.
* Requests find their doors as long as switches and channels are asked for in
  ascending order. Otherwise `crbegin()` is not the new entry (`routing_one_door`,
  `routing_one_switch`), and what went wrong is never repaired: a controller that was
  not started is never started, a handler that was not connected never is.
* The timer never has two threads, and its assertion fails only if two threads were
  on the way to `start()` together. A `connect()` that comes alone, even while the
  timer runs, waits for it and does no harm but one: the old thread may clear the
  flag of the new one. A lost connection comes back, up to the exception `missed`
  below. `close()` of a handler returns unless one of its exceptions keeps it.
* A deadline always has its read. On a connection that starts clean, and as long as no
  new door initialises a controller at work, every read has its deadline, so that no
  read waits for ever. The other direction holds with one command at a time: while an
  alarm is due, the answer is missing or lies unread at the socket, and no deadline
  means that nothing is owed.
* The engine outlives the thread that calls it, and the proxy stops unless a request
  keeps that thread; requests are handled at most once and
  in order; the subscription comes back after every loss, with the same exception and
  unless the configured port is above 32767; what is loaded is all or nothing; up to channel 15 the commands
  move exactly the door that was asked for.
* The two threads of the reader never touch the same bytes at a wrong time, and the
  lines are those of the file, except behind a last line without newline.

Deadlock checking is off where the system stops: after `close()` (`worker_direct`,
`reconnect`), after the end of the program (`server`, and by an exception
`routing_three_doors`), and when main has joined the
reader and waits for nodes that never end (`stream_node`).

Every property is checked a second time with a mutated definition (`PROJECT.json`,
*mutants*), under which it fails.

### The named exceptions

Some properties hold only outside situations that the code allows. Each is a history
variable that no action reads, set exactly where the situation arises.

* `excuse` (`ChannelWorker`), `excused` (`SwitchRouting`): an expired task was
  skipped, a command was lost, followers were discarded by shutdown, a worker was
  ended by an exception.
* `disorder` (`SwitchRouting`): a new key was not the greatest of its map.
* `missed` (`Reconnect`, and per switch `SwitchRouting`): a report finds `m_isTimerOn` set after the timer's attempt
  has succeeded and before it clears the flag. The report is dismissed, the timer
  ends, and the switch is marked disconnected with nobody to retry.
* `overlapped`: two threads are on the way to `start()` at once, two reports that pass
  the test of `m_isTimerOn` before either sets it, or a report and a `connect()`; the
  second `start()` may fail its assertion or restart
  the timer on a sound connection.
* `unasked`: a `connect()` starts the timer while `m_isTimerOn` is set.
* `late`: a report is acted on while `close()` runs; it may start the timer after
  `close()` has stopped it.
* `contended`: main and a reporter wait in `Timer::stop()` for the same event, which
  wakes one of them.
* `crowded` (`ReplyWatch`): a command is written while another one's answer is
  outstanding. Then the read at the head takes all answers that are there, also those
  of other controllers, or one answer stands for two commands, and the controller
  that gets nothing closes a sound connection when its deadline passes.
* `stale`: something of the last connection is on its way when the next one is made:
  the handler of an aborted read that has not run, a deadline that was reported and
  not yet reset, a worker between write and test. A late handler sets a new read's
  deadline to infinity, or reports an error of the old connection on the new one.
  The same mark is set when a report is dismissed because `m_isTimerOn` is still set
  although the connection is up.
* `initAgain`: `Init` has made the deadline of a controller infinite while it ran.
* A report that never returns (`ReportsEnd` in `ChannelWorker`, `reporting` and `ended`
  in `SwitchRouting`, `CallbackReturnsAlways` in `DoorSwitchSvr`) and a program that
  has been aborted: these are not histories but premises of liveness properties.
* `~Whole` (`LineReader`): the last line has no newline. `next_line` tests
  `buffer[data_end]` before it compares the position with `data_end`
  (`csv.h:458`); if that byte, left by an earlier block or never written, is a
  newline, `data_end` is not moved, `data_begin` ends up behind it, and the
  next call fails the assertion of `csv.h:442`.

## 4. Fairness

The operating system runs threads that can run, and time passes: that is weak
fairness of every thread's steps once it is inside an operation. Requests, reports,
failures and shutdown are never fair: nobody has to send a request or lose a link.

* `ChannelWorker`: weak fairness of the clock, of the worker, and of main once it has
  begun to close. `handleRWError` need not return (see `Reconnect`), so neither
  `ReportReturns` nor `ReportThrows` is fair, and `CloseReturns` has `ReportsEnd` as
  its premise.
* `SwitchRouting`: weak fairness of every worker that can go on; not of the network
  thread, which may wait in `Timer::stop` too, of reports, link failures or the timer.
* `Reconnect`: weak fairness of the timer's thread, of a thread inside
  `handleRWError` or `connect()` and of main inside `close()`; strong fairness of
  `ConnectOk`, which is the assumption that a switch that is tried again and again is
  reached some day (no code can do without it). There are finitely many switches and
  so finitely many first requests: `connect()` is not called without end. Nothing
  makes a worker leave its loop, so `Leave` is not fair: `CloseReturns` names the
  worker that stays in it.
* `ReplyWatch`: weak fairness of the io thread, of the clock, of a worker between its
  write and its test, and of the step in which the timer clears its flag. Neither the
  relay nor the network has to do anything. A tick, 30 seconds in the code, does not
  pass between the timer's connecting and its clearing of the flag.
* `DoorSwitchSvr`: weak fairness of main up to the destructor of the engine and of the
  network thread's next attempt, but not of that destructor or of the callback; strong fairness of `OnConnect` and `Subscribe`: a broker that is asked
  again and again accepts some day.
* `StreamNode`: weak fairness of main and of the second thread.

## 5. Proofs

All theorems hold for every value of the constants under the modules' named
assumptions, which say what kind of values they are. Beyond that:
`ReconnectAssumption` says that the factor is at least 2, not above the maximum, and
that the io thread is a reporter; `ReplyAssumption` that a deadline is at least one
tick; `DocumentAssumption` and `FilesAssumption` that documents and files are finite
sequences; `RequestAssumption` that the channel of a request is an integer
(`getValue<int>`); `BlockAssumption` that a block has at least two bytes. The other ones are
`WorkerAssumption`, `RoutingAssumption`, `PortAssumption`, `PublishedAssumption` and
`PoolAssumption`. The listed theorems are in `PROJECT.json`.

**ChannelWorkerProofs.** `WorkerType` is the type invariant. `FlagIsRight`,
`ServedIsOpen` and `IdleIsClosed` prove the three invariants of `worker_direct`. None
is inductive: that the door is open when the worker sleeps was decided when the task
was taken, and that a waiting worker has a closed door, two commands earlier. `IInv`
adds where the door is at each place of the loop, that a task being opened for or
closed after does not follow another one, that a worker goes back for a task with
the flag set only if the task is in the queue, and what is left of this while a
failed write is reported (`FailedInv`); that is what keeps the flag right
while the network thread only appends. `WorkerKeepsPromise` is the refinement: for an
indirectly controlled door on a sound link every step of `ChannelWorker` is a step of
`DoorSlot` or leaves it alone. It needs `Undisturbed`: nothing was lost and the task
being opened for has time left. `ShutDoorIsClosed` carries the
flag through `close()`: a worker leaves its loop with the flag set only if somebody is
in the queue (`ShutInv`), and clearing a queue with somebody in it is an exception.

**SwitchRoutingProofs.** `InOrderControllers` comes from `ControllersInv`: while a
controller is being created in order it is the last one, new and not running, and the
greatest key of a set of numbers is unique. The invariant also says that the last
controller of a switch runs *in any order* (`LastRuns`), which gives `LostForEver`: a
controller that missed its start is not the last one, keys are only added, and only
the last one is ever started. `InOrderHandlers` and `OrphansStay` follow the same
argument one map higher (`HandlersInv`): the last handler is attended to in any order,
which means that it is connected, tries to be or has had a report dismissed, and
`connect()` is only called on the last one. `ReportsInv` says what reports leave
behind: a timer that is ending has connected unless a report came since, only a switch
with a worker has had one dismissed, and a handler that creates a controller is linked
or has a worker; so an orphan, which has no worker, was never the last one. `OpenDoorsHaveWorkers` needs `DoorsInv`, which gives each
open door its reason, for the two types of switches separately, and that a running
controller of a switch set up in order names its own door.

**ReconnectProofs.** `ReconnectType` includes that the pause stays below its maximum,
whether or not the maximum is a power of the factor. `TimerHasOneThread` follows from
`ThreadInv`: the event `_done` is set only between the end of a thread and the removal
of the callback. `AssertedUnlessOverlapped` follows from `InTurnInv`: as long as nobody
overlapped, at most one thread is on the way to `start()`, be it a report or a
`connect()`, and past `stop()` it finds the callback gone (`AloneInv`).
`HonestUnlessOverlapped` adds `FlagInv`: without an unasked start the timer is at its
end while a thread is on the way to start it, and the flag is up whenever it tries.
`DisconnectedIsRetried` is the hardest one: it must hold *with* overlaps, when the
flag and the timer are in disagreement. `StopInv` says that a period of zero is always
somebody's doing who will set it again or start the timer, and `RetryInv` carries the
report through the windows of the timer. `TimerEndsWithHandler` follows from
`QuietInv`, for which the network thread must be through with the handler.

**ReplyWatchProofs.** `DeadlinesHaveReads` is inductive by itself. For
`ReadsHaveDeadlines`, `Fresh` says what a connection looks like with nothing left over
on it: no handler of an ended read, each controller at most one read, and each with
its deadline until `InitAgain` takes one away. `AlarmsAreTrue` and `SilenceIsGood` come from `Alone`: with one command
at a time, one controller owns whatever is due, answered or mute, and its place and
the reads agree with it; `Cleared` says that a closed connection carries nothing over.

**RelayCommandProofs.** `CommandsMoveOwnDoor`: for channels 1 to 15 every frame that
a build can make opens or closes exactly the channel's relay. The powers of two are a
table of sixteen values (`PowersOfTwo`); `OneBit` says that the *n*th power has the
*n*th bit and no other, `WordOfBytes` that the two bytes of the frame put together
are the number they were cut from.

**DoorSwitchSvrProofs.** `EngineOutlivesCallback` comes from `Lifetimes`, which
gives the states of client and engine at every place of main: the engine's life
contains the client's because the join of the network thread lies in between.
`HandledOnceInOrder` needs `Order`: the numbers rise from what was handled over the
callback to what is under way, and none is beyond what was published. `SettingsLoaded`
needs `Prefix`, the same statement about the documents read so far. `ServerTypes` has
the widths of port and channels. `AcceptedMoveOwnDoor` brings `CommandsMoveOwnDoor` to
the server: `AcceptedInv` says that what passed the checks would still pass them
(`AcceptedStaysAllowed`), because the switches are read before the first request can
come. `Listening` ties the subscription to the connection: the client is accepted
exactly when the subscription stands or has been asked for. It gives the safety half
of `SubscribedAgain` (`ServedIsSubscribed`), and the other side of its exception
(`RefusedPortIsDeaf`): with a refused port the server runs and never gets a request.

**StreamNodeProofs.** `ThreadsDoNotMeet` is about every block length and every file.
`Reader` follows the bytes: a byte of the window at place *i* is byte `Base + i` of the
file, what the second thread has fetched lies in the third block and follows it, and
the window ends with a block unless the file has been read to its end. Only then can a
missing newline move `data_end`, which is why that quirk does not harm the window.
`ThirdBlockIsNotShared` looks at the one block both threads use: while the second
thread may be writing there, `next_line` only ever tests its first byte, and the
result of that test changes nothing.

**StreamNodeLines.** `ReturnsLinesInOrder` is `LinesOfTheFile` for every file. The
property counts: line *n* ends at the *n*th end of a line. The recursion this looks
like is avoided with two facts about finite sets of numbers: each that is not empty
has a least element (numbers are well-founded), and the next element above a position
raises the number of those below by one (`NextCount`), so that the end with *n* others
up to it is unique (`FoundByCount`). `LinesInv` says how far the scan has come:
`Scanned` bytes of the text lie behind, an end of a line is the last of them, and
`file_line` is the number of ends among them. `WindowIsText` and `ScanFindsLine`
transport this through the window of `Reader`: the newline the scan finds first is the
next end, and the bytes in front of it are the raw line. Behind a last line without
newline the scan may have gone one byte too far (`LastLine`), and only there an
assertion fails.
`NodesAreGoodRows` is the safety half of `EveryRowRuns`. `RowsInv` has main at most
one line behind the reader, every row so far good and the nodes equal to them; at the
first bad row, a line that is too long or the end, the good rows are counted
(`GoodRowsAre`). `StreamNodeTypes` needs both: only counting ends bounds `file_line`,
and only the text in front of it bounds `data_begin`.

Only model-checked: the liveness properties `OpenIsTemporary`, `CloseReturns`,
`AcceptedIsTaken`, `ConnectionComesBack`, `StopReturns`, `ReadEnds`,
`SubscribedAgain`, `ProxyStops` and `EveryRowRuns`, and the fairness half of
`DoorPromise`: fairness and `ENABLED` are beyond the prover. Every invariant and every
action property of the runs is proved. What a bounded run shows beyond the theorems is
that these liveness properties hold, and that the four violated ones do not.

## 6. Results worth a look in the code

The four violated runs are listed as *findings* in `PROJECT.json`: the stale flag of
line 98 and the lost close command of line 99 of `DoorSwitchChannelController.cpp`,
and `crbegin()` in `DoorSwitchHandler.cpp:78` and `DoorSwitchEngine.cpp:59`. The
exceptions of section 3 are situations the code allows; they are stated in the
properties and have no run of their own.

Met while modelling and not a matter of any property: `m_write_ret_buffer` is
appended to with every answer and never emptied; `test_file/test_csv.csv` has no
column `interval`, so that the mock stream node leaves its `try` block after the
header and starts nothing.

## 7. Not modelled

* `USBSwitchHandler`, `TCPSwitchHandler`: empty classes.
* The rest of `csv.h`: the numeric conversions, quotes, escapes and comment policies.
  They are pure functions or templates this repository never instantiates; which text
  is a number is abstracted to its first byte.
* Parsing of the JSON message and of the configuration file, the command lines,
  logging: no state that outlives a call. Their outcomes (a field is missing, a number
  does not fit, a message is no request) are choices of the models.
* Configuration and TCP server of the mock switch, and the proxy of the mock stream
  node, which only publishes: its effect is `Publish` of `MqttProxy`.
* Data races on the plain members of a handler beyond what the models interleave: `ReplyWatch` treats an access to a deadline timer as
  atomic, `SwitchRouting` an access to a map.
* What a timer that runs after `close()` does to a handler that is being destroyed:
  `late` marks where it begins.
* The exit code of a failed load, which is that of success (`DoorSwitchSvr.cpp:12`).
* The growth of `m_write_ret_buffer`: see section 6.
