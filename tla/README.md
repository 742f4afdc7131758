# A verification of the handling module

The repository is a gripper that takes part in a modular robot. A Linux board
(ODROID) runs a C++ program, `src/handling-module-ODROID`, that a *brain* commands
over socket.io; it drives a microcontroller (MSP430G2553,
`src/handling-module-MSP430G2553/main.c`) over a serial line, which moves the servo of
the gripper. This directory holds TLA+ modules of that program, the TLC
configurations that check them, and TLAPS proofs of theorems about them.

Source paths below are relative to `src/handling-module-ODROID/libs` unless they start
with `src/`.

## 1. Inventory

| Component | State | Operations | Runs on |
|---|---|---|---|
| Service registry, `AIO/Services.cpp` | `services` (name → service), `commandsInfo` (group → FIFO of commands), `working`; static `creators` (name → constructor) | `assessWork`, `isEmptyCommands`, `getNextWork`, `setWorking`, `isWorking`, `createFromString`, `addService`, `registerClass`, `getInfo` | any thread; no lock of its own |
| Communication channel, `AIO/CommunicationChannel.cpp` | the mutex and condition of `connection_listener`, `connect_finish`, `current_socket`, static thread pointer `t` | `start`, the handlers of `bind_events`, `all_begins`, `consumeService`, `on_close`/`on_fail` (exit) | main thread, network thread, one thread per ALL_BEGINS and one per command |
| Module identity, `AIO/ModuleInfo.cpp`, `AIO/CommunicationEvents.cpp` | `module_id` | set by REGISTRATION_REPLY, read by every answer | network thread |
| Gripper services, `HandlingModule/OpenService.cpp`, `CloseService.cpp` | a file descriptor per call, the reply read so far | `execute` → `handlingService` | `consumeService` threads |
| Firmware, `src/handling-module-MSP430G2553/main.c` | `LineBuffer`, `bufferlength`, `bracketsCount`, the UART's one-byte receive register, the servo's duty cycle | `USCI0RX_ISR`, `messageProcessing`, `uartSend`, `moveServo` | receive interrupt |
| Module and startup, `AIO/Module.cpp`, `HandlingModule/*Info.cpp`, `HandlingModule.cpp`, `main.cpp` | construction of the above | `main`, `Module::start` | main thread |
| socket.io socket, `socket.io/src/sio_socket.cpp` | `m_client`, `m_connected`, `m_packet_queue`, `m_packet_mutex`, event bindings, `m_acks` and the static `s_global_event_id`, `m_connection_timer` | `emit`, `send_packet`, `send_connect`, `close`, `timeout_connection`, `on_connected`, `on_close`, `on_disconnect`, `on_message_packet`, `on_socketio_ack` | network thread and every emitting thread |
| socket.io client, `socket.io/src/sio_client.cpp`, `internal/sio_client_impl.cpp` | `m_con_state`, the network thread, timers for ping, pong and reconnection, `m_reconn_made`, listeners | `connect`, `close`, `sync_close`, `on_open`, `on_close`, `on_fail`, `ping`, `timeout_pong`, `timeout_reconnect`, `send_impl` | network thread and the caller's |
| socket.io packets, `internal/sio_packet.cpp` | the binary packet being assembled | `encode`, `put_payload`, `parse`, `parse_buffer` | network and emitting threads |
| Others: `ToggleService.cpp` (not compiled), `mainTest.cpp` (no target), `src/handling-module-MSP430G2452` (a servo demo), `AIO/json.hpp` and the vendored libraries | | | |

**How they interact.** `main` builds the module, whose constructor fills the registry, and
starts the channel. The channel connects the client, waits on a condition for the
connection, binds four events and emits REGISTRATION. From then on:

    brain --WORK_ASSIGNATION--> handler: lock, assessWork, emit reply, unlock
    brain --ALL_BEGINS-------> handler: lock, create all_begins thread, unlock
                                 all_begins: working := true; while the queue is not empty,
                                   take a command and create a consumeService thread;
                                   working := false            (no lock)
                                 consumeService: execute (serial line, servo), lock,
                                   emit ACTION_FINISHED, unlock
    brain --WORK_STATUS------> handler: lock, read working, emit reply, unlock
    brain --REGISTRATION_REPLY-> handler: lock, store module_id, unlock

An emit goes into the packet queue of the socket, or to the client, which writes it to the
connection on the network thread or drops it when there is none. `execute` opens
`/dev/ttyS1`, writes one request, and reads until an answer's braces balance.

**What is hard.** Three kinds of threads share a registry of which only one locks;
commands of one group execute at the same time over one serial line; the board does not
listen while it answers; nothing times out; the socket has an unlocked flag beside a locked
queue, and one timer for two purposes that handlers already ready to run outlive. `PROJECT.json` lists each such place under `hazards`, with its line.

**What makes each component correct.**

- Registry and channel: a command that was accepted is executed once and reported once,
  after the report that it was accepted; the threads of a group's commands are created in the order
  of assignation; no queue is taken from while empty, no two threads touch the map at once.
- Gripper services and firmware: a call that returns has had its request executed; the
  buffer never holds anything but one request; every call returns.
- Socket: no packet is lost unaccounted for or sent twice; what was queued is sent; the
  replies of a handler keep their place before what is emitted later.
- Client: it reconnects until told to close, a close ends in a closed state, a connection on
  which messages arrive is not closed for a missing pong.
- Packets: encoding and parsing are inverse, binary parts meet the packet they belong to.
- Startup: `start()` is woken by the connection it waits for and returns; when REGISTRATION reaches
  the brain, every event has its handler and every command offered has a constructor.
- Channel and gripper together: ACTION_FINISHED means that the servo has been moved.
- A namespace: it closes once, for a reason, and whenever it was asked to; an ack reaches the
  callback that was given with its packet.

## 2. Modules and how they correspond to the code

| Module | Models | Notes |
|---|---|---|
| `Services` | `Services.cpp` | one operator per method; the caller's action supplies the thread. `keys` is the set of nodes in the map `commandsInfo`: `operator[]` inserts one. `Conflict` says which accesses of two threads are taken to be undefined behaviour |
| `CommunicationChannel` | `CommunicationChannel.cpp` once it is registered | extends `Services`. One action per critical step of each thread |
| `WorkProtocol` | what the channel promises the brain | abstract: no threads, no lock |
| `SerialLine` | the tty and the UART line | bytes are tokens: braces, and the words between them |
| `HandlingService` | `OpenService.cpp`, `CloseService.cpp` | per call: where it is, the last char and brace count of its reply |
| `Firmware` | `handling-module-MSP430G2553/main.c` | the interrupt routine, a byte at a time |
| `Gripper` | both ends of the line | composes the two above |
| `Handling` | from the brain's events to the servo and back | composes `CommunicationChannel` and `Gripper`: a command is a call |
| `SioSocket` | `sio_socket.cpp` for the namespace `/` | with `client_impl::send`/`send_impl`, `on_open`, `on_close` as far as a packet meets them |
| `Startup` | `main`, `Module`, `HandlingModule`, `CommunicationChannel::start` | extends `SioSocket`, through which REGISTRATION goes |
| `SioNamespace` | `sio_socket.cpp` for any other namespace | its life from CONNECT to the close listener, `close()`, the timer; the callbacks of acks |
| `SioClient` | `sio_client_impl.cpp`: the connection | the user's thread, the handlers of the network thread, and what the websocket library does to a connection |
| `ClientSession` | what the client promises whoever calls `connect` | abstract: no threads, no timers, no queue of handlers |
| `SioPacket` | `sio_packet.cpp` | packets and payloads in both directions, with what threads and lost connections do to the payloads between them |
| `SioMessage` | `accept_message` and `from_json` of `sio_packet.cpp` | messages and JSON values as trees; given to `SioPacket` as parameters |
| `CommunicationChannel_proofs`, `WorkProtocol_proofs`, `Gripper_proofs`, `Handling_proofs`, `Startup_proofs`, `SioClient_proofs`, `SioNamespace_proofs`, `SioPacket_proofs` | | theorems. `WorkProtocol_proofs` extends the channel's proofs, `Startup_proofs` holds those of `SioSocket` too; `Handling_proofs` instantiates those of the channel and of the gripper |
| `MCCommunicationChannel`, `MCGripper`, `MCHandling`, `MCStartup`, `MCSioPacket` | | instances for TLC; `SioClient` and `SioNamespace` need none |

Definitions called a *slip* (`PopNothing`, `AssessWorkUnlocks`, ...) are not part of any
specification. Each is a plausible mistake in the action after it; putting it in
that action's place makes TLC report a violation of the property paired with it in
`PROJECT.json` (`mutants`), which shows that the property depends on that code.

### CommunicationChannel

A handler is `Take...` (with the `lock()`), the call of the registry, and `EmitReply` (with
the `unlock()`); the network thread is in one handler at a time (`net`). An `all_begins`
thread goes `setWorking`, then `check`/`front`/`pop`/`spawn` for each command, then `clear`:
`isEmptyCommands`, `front()` and `pop()` are three steps because nothing locks them
together. A `consumeService` thread goes `execute`, `lock`, `emit`, `done`.

Undefined behaviour ends a run: `fault` becomes "empty queue" at a `front()` or `pop()` of an
empty queue, and `DataRace` may set it to "data race" in any state in which two threads
are each about to make one of two conflicting accesses to the map of queues. After that nothing is claimed.
`Conflict` is narrower than the standard, for which `operator[]` of a non-const map is always a write: with an existing
key the library this is built with only searches the tree, so two of them on existing keys are harmless, and an insertion of a
node, or two accesses of one queue of which one changes it, are not.
`OnClose` is the `exit(0)` of the listeners.

The brain is not in this repository. It sends each event of `Messages` once, in any order
that `Discipline` allows: "any" is no restriction. With "all first" (every assignation before the first
ALL_BEGINS) the model says what the brain must keep to for a property to hold, because the
code checks nothing.

Left out: the text and JSON of events; `working` and the static pointer `t` are read and
written without a lock, but `working` is one byte and `t` is never read; a malformed event (its
exception would end the handler without `unlock`). `outbox` is what was handed to the socket;
what happens to it there is `SioSocket`.

### Handling

One instance of `CommunicationChannel` and one of `Gripper`, whose calls are the commands. The
thread of a command is in "execute" from its creation until its call of `handlingService` has
returned (`Execute` waits for `Returned`): that it returns is a result here, and not assumed in the channel alone
either, where nothing forces `Execute`; and `call`, `reply` and the rest of the host's state change only for a command in
that state (`Move`). `execute` gives true whatever `handlingService` gave, and so ACTION_FINISHED is emitted even when
the tty could not be opened or wiringPi not set up: `ReportsTheMove` has to allow for it. The brain begins
a group when the one before is reported (`OneByOne`); what is left when calls overlap is
`Gripper`'s run.

### SerialLine, HandlingService, Firmware, Gripper

A call writes its request in one piece (`serialPuts`) and loops over `CheckReply`, `DataAvail`
and `GetChar`; between `serialDataAvail` and `serialGetchar` another call may take the byte, and
then `serialGetchar` returns -1 after ten seconds, which the code appends as a char
(`GetCharTimesOut`). All calls read the same tty. `serialClose` is commented out in the code,
so `fds` only grows, and `OpenFails` once it is at its limit; `SetupFails` (`wiringPiSetup` gives -1) may
happen to any call, leaves its descriptor open too and writes nothing. `written`, a history variable, counts the requests.

The board stores each byte in its interrupt routine (`ReceiveByte`) and answers inside it
(`SendByte`, waiting for CTS), so bytes that arrive meanwhile overwrite each other in the
one-byte receive register: `ByteArrives` may overwrite only while `sending` is not
empty. This rests on time: at 9600 baud a byte takes about 1 ms and the rest of the routine
less than two of them. Assumed as well: `serialOpen` does not flush, and the line itself loses nothing.

### SioSocket and Startup

`send_packet` is `TestConnected` (the NULL check and the unlocked read of `m_connected`),
then either `PushPacket` or the loop `TakeQueued`/`SendQueued` and `SendOwn`: the mutex covers
the take but not the send. `on_connected` is `OnConnected` and the loop
`NetTakeQueued`/`NetSendQueued`, `on_close` is `OnClose`, `ClearFlag`, `ClearQueue`, because other
threads may run between the writes. A send from the network thread is immediate, from any
other it is posted (`io_service::dispatch`). A send without an open connection drops its
packet: `lost`. `fault` is set when a member of a NULL `m_client` is called, which
happens when the server disconnects the namespace during an emit.

`Startup` has one variable for where the main thread is. `AddService` is a constructor with its
`registerClass` and the `addService` after it. The test of `connect_finish` and the wait are two
steps (`CheckFinished`, `Wait`) with `_lock` held between them (`LockTaken`), and `Open`, the listener on the
network thread, needs that lock; `wait()` itself gives the lock back and joins the waiting threads in one
step. `WakeSpuriously` is the wake-up without a notify that the standard allows and the `if` does
not look into; no fairness makes it happen. `Bind` is one handler of `bind_events`, `Subscribe`
the emit of REGISTRATION. A connection that cannot even be made ends the process
(`OnFail`). From `Run` on, the other threads emit. Two things are assumed of the server:
it does not disconnect the namespace before the module has used it (the code would then
dereference a null pointer in `subscription`), and it answers a connection with CONNECT.

Emits of different threads may overlap here even though the channel's mutex keeps most of
them apart, so what is shown does not depend on that mutex.

### SioNamespace

`ready` is again the queue of the network thread. `send_connect` starts a wait of 20 s whose handler is
`timeout_connection`, `close()` a wait of 3 s on the same timer, whose handler is `on_close` itself.
A wait that is cancelled (by a new wait, or because the timer is deleted) leaves its handler
in `ready` with an error code, "timeout_aborted" or "closed_aborted": the first looks at the code and
does nothing, the second cannot, and closes the socket at once. A wait that has run
out cannot be cancelled any more. `close()` is three steps (`Close`, `CloseTimer`, `CloseArm`), between which
the network thread may delete the timer or forget the client: `fault`, after which nothing is
claimed. `s_global_event_id++` is a read and a write (`ReadEventId`, `WriteEventId`); the
callback is stored under `m_event_mutex` with the second.

`socket()` may be called while the client is open, or before; or when `on_open` has already set the state and not yet
gone through the sockets, and then both the constructor and `on_open` send a CONNECT (third case of `Init`). A CONNECT sent
while there is no connection is dropped.

`emit` for a namespace is otherwise that of `SioSocket`. The user keeps its pointer to the socket, so that
no handler runs on a deleted one.

### SioClient

`ready` is the queue of the io_service: the handlers that may run, in their order. The network
thread takes one at a time (`Handles`) and ends when nothing is left to wait for (`run_loop`).
`link` is the connection inside the websocket library and `code` its local close code.
`connect` is `ConnectCall` (the test of `m_reconn_timer`), perhaps `ConnectCancel` and `ConnectReset`, `ConnectTest`, perhaps `Join`,
and `ConnectStart`: handlers run between these, and nothing locks `m_con_state` or the timer. A handler that resets the timer
between the test and the `cancel()` makes it a call through a null pointer: the process ends ("crashed"), and nothing is claimed after that. `close` and `sync_close` set the state (`Close`) and post
`close_impl` (`PostClose`); `sync_close` then joins.

A timer has three states where it matters: waiting, expired with its handler in `ready`, and
gone. A handler that is in `ready` is not undone by cancelling the timer; that is where
`timeout_pong` and `timeout_reconnect` get their races from. A connection that is dropped has the close
code 1006 even if this side had begun to close it, which is what the library does; so
a client that is closing may still reconnect.

`ClientSession` says what is left of this for a caller: after `connect` the client is trying, connected, or done, each end of an attempt or of a
connection is followed by one more attempt or by the listener, and the listener is called at most once per `connect`, when nothing is left that could
connect. Its `Cancel` ends a session in silence, and does not say who cancelled: `close()` or `connect()` should, but a late pong timeout can
(`client_end`).

`closed`, `heard`, `tries` and `beside` are history variables of the properties. The ping timer is a step
`ping` that may happen whenever there is a connection; the handshake, which sets its interval,
is left out, and so is `next_delay`: the wait for a reconnection ends at any time. Single reads and writes of
`m_con_state` and of the timers are atomic in the model; in the code they are data races, and so are the test, `cancel()` and
`reset()` of `m_reconn_timer` inside one handler, which the model runs in one step. `on_open` writes `m_con_state` and `m_con` in one step
because only the network thread reads `m_con`. A close packet of the server (`CloseByServer`) cancels the timer and closes nothing: its
code, `abnormal_close`, is one that the websocket library refuses to send.

The handling program calls `connect` once, and exits in the fail and close listeners. `close`
and `sync_close` are the library's interface, and so in the model.

### SioPacket

A payload is a sequence of tokens (`Payload`), so that `parse` looks for the first token of a kind as the
code looks for the first of some characters, and reads the id only between two such places.
`wire` holds which payload it is: the emitter, the packet, the place in it. An emitter hands over the text and the
parts of a packet one by one (`HandOver`), and others may come between, because `encode` holds no lock. `PutText`
and `PutBinary` are the two halves of `put_payload`. A lost connection takes the payloads that are on their way
(`Lose`), what is handed over before the next one is dropped by `send_impl`, and the next one
begins with `reset` (`Reset`). The peer is external; it is taken to encode and decode as
this code does, so that one model has both ends.

What `accept_message` and `from_json` make of a message is a parameter (`AcceptMessage`, `FromJson`), which lets theorems speak
of any messages. The runs give it the definitions of `SioMessage`, where messages are trees: `accept_message` numbers
the binary parts across all levels of a message, `from_json` puts them back. `Encodable` is what the constructors of a packet, their callers and this
codec give: only events and acks have parts, only with a message is there an id, and `from_json` undoes
`accept_message`.

## 3. Runs

| Run | What it asks | Distinct states |
|---|---|---|
| `all_first` | With every assignation before the first ALL_BEGINS, one ALL_BEGINS for each group: `NoUndefinedBehaviour` (no race on the map, no empty queue), `TypeOK` | 687 147 |
| `any_order` | One ALL_BEGINS per group, at any moment, and a connection that may close: `EachCommandOnce`, `PopsWhatItRead`; `ImplementsWorkProtocol`, that the channel is a refinement of `WorkProtocol`; under `FairSpec`, `EveryAssignationAnswered` and `EveryBegunCommandStarts`; `StartedInOrder` | 44 139 |
| `begin_twice` | Two ALL_BEGINS for one group, a command without a service: `AcceptedBeforeFinished`, `WorkingOnlyWhileDraining` | 89 160 |
| `handling` | From the event to the servo, groups begun one by one, descriptors for two calls of three, a set-up that may fail: `ReportsTheMove`, `ReturnsAfterMove`, `NeverError`, `ServesAtMostMaxFds`, `EveryBegunCommandFinishes`, `TypeOK` | 23 310 |
| `overlapping` | Three calls that overlap: `BufferHoldsOneRequest`, `EachReturnUsesAnAnswer` | 933 047 |
| `socket` | From `main` on, four packets, two lost connections, a closed namespace: `NoLostWakeup`, `StartReturns`, `RegisteredIsReady`, `EachPacketOnce`, `RepliesFirst`, `QueuedIsDrained`, `TakenAlong` | 37 065 |
| `socket_ready` | Expected violation: `ReadySocketSends` | about 1 600 |
| `client` | Three calls of `connect`, `close`, `sync_close`, two lost and two refused connections: `OpenedHasConnection`, `OneConnection`, `NoStalePongTimer`, `LostConnectionReturns`; `ImplementsClientSession`, that the client is a refinement of `ClientSession`, which bounds the reconnections | 892 387 |
| `client_end` | Expected violation: `EndIsHeard` | about 230 |
| `client_close` | Expected violation: `SyncCloseReturns` | about 4 200 |
| `packet` | Three packets with parts and three without, from two threads, one lost connection: `DecodedWasEmitted`, `DecodedInOrder`, `NothingMissing`, `TypeOK` | 619 670 |
| `namespace` | Three calls of the user, of `close()` and of two acknowledged emits, one CONNECT or two, one lost connection, a server that may never answer: `ClosedOnce`, `ClosedForAReason`, `CloseCloses`, `OpensOrCloses`, `AckToItsEmitter`, `TypeOK` | 414 488 |

A violation ends the search: how many states come before it depends on TLC's workers.

What they show, beyond the names:

- The channel is sound exactly as far as the brain is disciplined. With assignations that may
  follow ALL_BEGINS, a race on the map of queues is possible (so `any_order` does
  not check `NoUndefinedBehaviour`); short of that race, commands are still neither lost nor doubled.
  With two ALL_BEGINS for one group they are, and a later command may start before an earlier one, whose drain stands between
  its `pop` and the creation of the thread; what survives is listed in `begin_twice`.
- A command that waits for a drain gets its thread (`EveryBegunCommandStarts`), whether or not the commands before it ever come back
  from `execute`. That they come back is claimed only in `handling`, for calls that do not overlap.
- ACTION_FINISHED means that the servo stands where the command asked, if groups are begun one by one, a
  descriptor was left to open the tty and wiringPi could be set up; when none is left, every further command is reported done and
  nothing moves. That is in the code for good: descriptors are never closed.
- Calls that overlap on the serial line lose bytes, steal each other's answers, and may never
  return. It still holds that `LineBuffer`, which is written without a bound check, keeps the
  beginning of one request, and that an answer ends at most one call.
- **Finding** (`socket_ready`): an emit that reads `m_connected` false just before `on_connected`
  sets it may queue its packet just after `on_connected` has drained the queue. It stays there
  until another emit. The module's own REGISTRATION is emitted by `start()` while the CONNECT
  packet is on its way, and nothing else is emitted before the brain has answered it:
  the module then stays silent for good. The run begins in `main` and shows the steps from the open
  listener to that queue.
- **Finding** (`client_end`): if a pong timeout is ready to run when the connection is lost, it runs
  after `on_close`, and its `close_impl` cancels the reconnection that `on_close` has just
  arranged. The network thread ends, no listener is called, and the module neither reconnects nor
  exits. `LostConnectionReturns` shows, within the bounds of its run, that a connection that was refused or lost, opened or not, is
  otherwise made again or reported, or the user has closed, or the process has ended in `connect` (below).
- **Finding** (`client_close`): `sync_close` while the connection is being opened closes nothing, and
  waits for the thread of the connection that then opens.
- `close()` of a namespace may meet a null timer or a null client (`fault`): the network thread sets both while
  `close()` is between its lines. A CONNECT handled just after the 20 s were over does not save the socket: the
  handler that is ready closes it, although the comment there speaks of no connected message. Two emits that meet
  in `s_global_event_id++` share an id, and an ack calls the wrong callback; `AckToItsEmitter` excepts
  that case, which the run reaches. The module itself uses only `/` and no acks.
- `connect` may call `cancel()` through a null pointer: it tests `m_reconn_timer`, and the `close_impl` of a late pong timeout, of a
  `close()` or of the server's close resets it. The run `client` reaches this; nothing is claimed after it.
- Two paths of `connect` go wrong that no run is about. After an address of which no connection
  can be made, `m_con_state` stays `con_opening`, and every later `connect` returns although nothing is
  connected. A `connect` that finds the state closed while a reconnection is ready to run waits until
  the new connection ends, although the comment in the code says that the join returns at once.
- Parts of two packets are never put together as long as one thread sends parts. With two
  such threads they are; this program's emits have no binary parts.
- `m_packet_queue` does not keep the order of emits of other threads when a connection is lost
  between them (a posted packet is overtaken by a queued one), so no property claims it;
  the replies of handlers do keep theirs.

**Bounds.** Three commands in two groups, so that one group has a queue of two and the other is
touched at the same time; two drains, which is the least number that can share a queue; one
or two events in flight (`MaxInFlight`), enough because a handler takes one at a time and the
brain's choice of the next is free. Three calls, because a third can take what two leave
behind. In `handling` three groups of one command each, so that opening follows closing, closing follows opening,
and the third finds no descriptor. `BufferSize` is 8 in place of 200: the longest request is four tokens, so that the check has
twice that before it is at the limit, as in the code (the longest is some 30 bytes of 200).
`MaxFds` is 2 or 3 in place of about a thousand: it is met in `handling`. Four
packets: one that everything waits for, two of other threads and one of the network thread; one
or two lost connections, so that packets can be queued, cleared and queued again.
For a namespace: three calls of the user, so that two emits, the least number that can share an id, meet a close, and two closes, of which
one cancels the wait of the other, meet an emit; one loss, so that a second CONNECT and a second wait of 20 s come about.
For the client: one reconnection in place of 2^32 - 1, so that the limit is met; two drops, so
that a connection made again is lost again. For packets: a message with two parts on two
levels, one with an id and a namespace, one with leaves on both sides of its part, a text of each
kind that comes between them.
`Quiescent` and `Finished` are steps that change nothing in states where everything has been
done, so that TLC's deadlock check, which is on in every run, reports only real ones.

**Fairness.** `CommunicationChannel`: weak fairness for the network thread and for each thread the
code creates; they are scheduled by the system, and one that waits for the mutex gets it. The brain, a
race, `exit` and the return of `execute` are never forced: calls that overlap on the tty may not return. `Handling`: the same per kind of
thread, and weak fairness of the calls, of the line and of the board, and strong fairness of `SendByte`,
for which P2.0 must be low again and again (the code waits for it without limit and nothing in it
says who drives the pin). `Gripper` alone needs none. `Startup` and
`SioSocket`: weak fairness for the main thread, for each thread inside an emit and for
the network thread, which includes that the client reconnects and that the server answers with
CONNECT (the default number of attempts is the largest unsigned number); emits
other than REGISTRATION are not forced, nor is any wake-up without a notify. `SioNamespace`: weak
fairness of the threads, of time (a wait runs out) and of the client's reconnection; the server is never
forced to anything. `SioClient`: weak fairness of both threads, of the reconnect
timer, and of a connection's opening or being refused and of the answer to a close, for which the
websocket library has timeouts; drops, pongs and calls are not forced.

## 4. Proofs

For any values of the constants: any sets of commands, groups, events, packets and emitters, any
discipline of the brain, any number of lost connections and calls. They assume the named assumptions of the
modules (`CommandsAssumption`, `ChannelAssumption`, ...), which say that the constants have their types. Beyond those:

- `OneBegin`, at most one ALL_BEGINS per group, for four theorems whose properties are false without it,
  and `Disciplined` for one;
- `BufferSuffices` for the gripper: `LineBuffer` has more entries than a request has tokens (`BufferSize > 4`; in the
  code 200 bytes, the longest request some 30);
- `OneAtATime` for `Gripper_proofs!ReturnsMeanMoved`, an assumption about the behaviour: a call starts when none is under
  way. In `Handling` it is not assumed but proved of the channel;
- `OneSendsParts` for three theorems of `SioPacket_proofs`: one thread only sends packets with binary parts. Two would mix them, and the
  properties would be false. The handling program sends none;
- in `PacketAssumption` of `SioPacket`, that the packets are `Encodable`, of which one conjunct is a fact of the codec: `from_json`
  undoes `accept_message` on each message sent. With the operators of `SioMessage` TLC evaluates it for the messages of the run;
- in `Handling`, what its assumptions say of the brain: assignations first, one command in a group, one ALL_BEGINS per group.

| Module | Theorem | States |
|---|---|---|
| `CommunicationChannel_proofs` | `TypeCorrect` | `Spec => []TypeOK` |
| | `MutualExclusion` | `Spec => []LockInv`: one thread between `lock()` and `unlock()`, and the mutex is taken then |
| | `ReportsInOrder` | `Spec => []AcceptedBeforeFinished`, with any number of drains per group |
| | `DrainOwnsItsQueue` | `Spec => []PopsWhatItRead`, assuming `OneBegin` |
| | `FlagNeedsADrain` | `Spec => []WorkingOnlyWhileDraining`, with any number of drains per group |
| `WorkProtocol_proofs` | `CommandsKept` | `Spec => []EachCommandOnce`, assuming `OneBegin` |
| | `ChannelImplementsWorkProtocol` | `Spec => ImplementsWorkProtocol`, assuming `OneBegin` |
| | `DrainsKeepTheOrder` | `Spec => []StartedInOrder`, assuming `OneBegin` |
| | `DisciplineSuffices` | `Spec => []NoUndefinedBehaviour`, assuming `Disciplined` |
| `Gripper_proofs` | `TypeCorrect` | `Spec => []TypeOK` |
| | `OneRequestInTheBuffer` | `Spec => []BufferHoldsOneRequest` |
| | `NoErrorAnswer` | `Spec => []NeverError` |
| | `OneReturnPerAnswer` | `Spec => []EachReturnUsesAnAnswer` |
| | `AtMostMaxFdsServed` | `Spec => []ServesAtMostMaxFds` |
| | `ReturnsMeanMoved` | `Spec /\ [][OneAtATime]_vars => ReturnsAfterMove` |
| `Handling_proofs` | `TypeCorrect` | `Spec => []TypeOK` |
| | `NoErrorAnswer`, `AtMostMaxFdsServed` | the same of the whole module |
| | `ReturnsMeanMoved` | `Spec => ReturnsAfterMove`, without `OneAtATime` |
| | `ReportsMeanMoved` | `Spec => ReportsTheMove` |
| `Startup_proofs` | `TypeCorrect` | `Spec => []TypeOK`, of `Startup` and of `SioSocket` in it |
| | `NoWakeupIsLost` | `Spec => []NoLostWakeup` |
| | `ReadyWhenRegistered` | `Spec => []RegisteredIsReady` |
| | `NoPacketTwice` | `Spec => []EachPacketOnce` |
| | `RepliesKeepTheirPlace` | `Spec => []RepliesFirst` |
| `SioClient_proofs` | `TypeCorrect` | `Spec => []TypeOK` |
| | `OneConnectionAtATime` | `Spec => []OneConnection` |
| | `OpenedIsConnected` | `Spec => []OpenedHasConnection` |
| | `PongTimerIsOfTheConnection` | `Spec => []NoStalePongTimer` |
| | `ReconnectionsAreBounded` | `Spec => []AttemptsBounded` |
| | `ClientImplementsSession` | `Spec => ImplementsClientSession` |
| `SioNamespace_proofs` | `TypeCorrect` | `Spec => []TypeOK` |
| | `ToldOnce` | `Spec => []ClosedOnce` |
| | `GivenUpForAReason` | `Spec => ClosedForAReason` |
| | `AcksFindTheirEmitter` | `Spec => []AckToItsEmitter` |
| `SioPacket_proofs` | `TypeCorrect` | `Spec => []TypeOK` |
| | `PartsMeetTheirPacket` | `Spec => []DecodedWasEmitted`, assuming `OneSendsParts` |
| | `PacketsKeepTheirOrder` | `Spec => []DecodedInOrder`, assuming `OneSendsParts` |
| | `NothingIsMissing` | `Spec => []NothingMissing`, assuming `OneSendsParts` |

*ReportsInOrder.* `AcceptedBeforeFinished` looks only at `outbox` and is not inductive.
`ReportInv` adds: `LockInv`; `ReplyInv`, that a reply under way says ACCEPTED until assessed and is
never ACTION_FINISHED; and `HeldInv`, that each command in a queue, in a drain's hands or in a thread of its
own is in `takenOn`: its ACCEPTED has been sent, or is the reply that the network thread is about
to send. When a thread emits ACTION_FINISHED it holds the mutex, so by `LockInv` no handler is
between its lock and its unlock; so by `HeldInv` the ACCEPTED has been sent.

*DrainOwnsItsQueue.* Handlers only append, which leaves the head of a
non-empty queue as it is; with one ALL_BEGINS per group no other drain removes it.

*FlagNeedsADrain.* A drain sets the flag on its way in, and every step out of the
draining states clears it, whichever drain does. That a drain is not created anew in the midst
of draining needs `BeginOnceInv`: an ALL_BEGINS event is delivered once.

*CommandsKept.* `EachCommandOnce` counts the places a command is in. Counting is not inductive by
itself: `ProtocolInv` says where those places can be. `AnsweredOnceInv`: an assignation is
on its way, being answered, or answered, and only one of these, so that `assessWork` pushes a
command once. `PlacedInv`: a command taken on waits in its own group's queue, once, or has started, never both.
`OneThreadInv`: one drain has it in hand, one thread executes it and reports it once. `PopsWhatItRead` is what makes `Pop` move a
command from the queue to the hands of the drain instead of losing one and doubling another.

*ChannelImplementsWorkProtocol.* Every step is mapped to one of the protocol's or to a
stutter: `AssessWork` to `Enqueue`, `Pop` to `Start`, an emit to `Accept`, `Refuse` or `Finish`, `TakeAllBegins` to `GroupBegins`, a
race or an exit to `Stop`. That `Pop` is a `Start` needs `PopsWhatItRead`; that an emit is the
protocol's needs `ReportInv` (accepted before finished) and `PlacedInv` (finished once).

*DisciplineSuffices.* `Disciplined` is what keeps the brain clear of the races that the unlocked drains allow:
all assignations before the first ALL_BEGINS, `OneBegin`, and in each begun group one command whose
service exists. `FirstInv`: events keep their order, so once a drain exists no assignation is on its way
or being assessed, and only drains touch the map. `KeysInv`: a command that was assessed has left the node
of its group, so no drain inserts one. By `OneBegin` two drains name different groups, and nothing conflicts. The
run `all_first` is an instance that meets the assumption; `any_order` gives up its first part. A drain of a group
without a command would insert the group's node in `empty()` while another drain looks for its own.

*DrainsKeepTheOrder.* `AcceptOnceInv`: a command has one ACCEPTED, so it has one place in the order of assignation. `assessWork`
appends a command that nothing of its group was taken on after, and `pop` removes the head, which by the order is the
command whose later ones are all still there: `QueueInOrder`, which holds whichever drain pops. Between the `pop` and the creation of the
thread the command is in the drain's hands only, so the queue says nothing of it. `NotOvertakenInv` does: no later command of the group has a
thread by then, because with one ALL_BEGINS per group (`BegunInv`) only this drain could create it. So when it creates the thread of a command,
those before it, which are neither in the queue nor in another drain's hands (`PlacedInv`), have theirs.

*Gripper_proofs.* The line is a queue of tokens of several calls, of which the board loses some while it answers. `WireInv`
says what survives that: what is left is the end of what was written, so each token follows the one before it in some request, a `}` is followed
by a `{`, and the last is a `}`. The rest of a request whose beginning was lost is ignored until the next `{`.
`BufferInv`: while the board is idle the buffer holds the beginning of a request, and the next token goes on with it. So `messageProcessing` always
finds a whole request, and with `BufferSuffices` the unchecked write has room. `NoErrors`: since that is a
request that the board knows, no ERROR is sent. `HeardInv` counts openings of answers: those on their way, one for each
request that the board has still to answer, and one for each call that has kept one are together no
more than the requests written, and those no more than the descriptors opened (`WrittenInv`); that gives `EachReturnUsesAnAnswer` and `ServesAtMostMaxFds` whoever steals what. `ExchangeInv` is the one exchange of
calls that do not overlap, token by token: the board has kept n of the request and the rest is on its way (`Awaits`), or
the call has read n of the answer and the rest is (`Reads`); when no call is under way nothing is (`AllQuiet`).

*Handling_proofs.* The two parts are instances, and so are their theorems: each step of the composition is a step of each part or
leaves it alone (`ChannelStep`, `GripStep`), and `BothParts` gives both specifications. What is new is the joint
invariant. `BegunInv`: a thread executes only commands of the group of its ALL_BEGINS. `OneActive`: at most one
command has been begun and not yet told of, which the brain achieves by waiting (`OneByOne`), because what it was told stays told. `CallInv`: a
call under way is that of a thread in `execute`, and a thread that is past `execute` has its call returned. A call under way is therefore of an active
command, there is only one, and `NoOverlap` discharges `OneAtATime`. `MovedInv`: from the return of a call until
its ACTION_FINISHED the servo stays, since only another call's request could move it. The lemmas at the
beginning (`Same...`) say that a name of the one instance of the channel or the gripper means what it means in the other.

*Startup_proofs.* `NoLostWakeup` is inductive: `Open` needs the lock that the main thread holds between
the test and the wait. `RegisteredIsReady` speaks of the wire only; `ReadyInv` adds what `main`
has done by the time it is at each step (`Prepared`), and that REGISTRATION is in none of the places
from which a step could put it on the wire (the queue, what is posted, the hands of a thread) before
`Subscribe` (`NotBeforeSubscription`).

*`NoPacketTwice`, `RepliesKeepTheirPlace`.* `EachPacketOnce` counts the places of a packet. `FrontInv` adds that a packet which was taken from the queue is in one
thread's hands only, and `HandlerAlone` that the network thread is not in a handler's emit and in `on_connected` at
the same time; each step then moves a packet from one place to another, or to the lost ones. For `RepliesFirst`: a handler runs on a connected
socket, so that its reply is never queued or posted (`ReplyDirect`), and while it is being handed over nothing that began after it is
where a step could put it on the wire (`AfterReply`).

*SioClient_proofs.* `m_con_state`, `m_con`, the timers and the handlers in `ready` agree only together. `ReadyInv`: the
handlers of one connection are in `ready` at most once, and `on_open` before `on_close`. `LinkInv`: which handlers
may be ready for which `link` and state. `ThreadInv`: without a network thread nothing is ready but
`close_impl`, which is what `ConnectTest` and the join give `ConnectStart`. `RetryInv`: a reconnection is arranged
once, only without a connection, and only while `m_reconn_made` is below the limit. `HeardInv`: when a listener has been called there
is no connection, and nothing that could begin one.

*ClientImplementsSession.* An attempt is `Arranged` while `connect_impl` or `timeout_reconnect` is ready or the reconnect timer waits, and a
connection is an attempt until `on_open` has run, whatever the library knows of it by then. `ConnectStart` is mapped to `Begin`, `Connect` and `timeout_reconnect`
to `Attempt`, `CannotTry` or, when `close()` came first, `Cancel`; `on_open` to `Open`, `on_fail` and `on_close` to `Ends`; the calls and handlers that cancel the timer to `Cancel`
when it waits. Everything else is a stutter. That a `Begin` finds the session at rest is `ThreadInv`; that an `Attempt` has no connection beside it and is within
the limit is `LinkInv` and `RetryInv`; that each listener is the first since `connect` is `HeardInv`.

*SioNamespace_proofs.* `OnceInv`: the step that tells the listener is the one that forgets the client. `ReasonInv`: a wait of
`close()`, or its handler, due or cancelled, is only there after `close()` armed it, and "timeout" only after
the wait ran out; a cancelled wait of `send_connect` is another handler, which closes nothing. `AckInv`: an emit being
written has the present id, emits that are done have smaller ones, all different, as long as no two overlap; an ack that is on
its way carries the id of its packet. `TypeOK` bounds the ids by the number of emits, which `CountInv` makes
inductive: an id that was read is at most one more than the emits that have been stored, and a late write can only set the counter
back to such a number.

*SioPacket_proofs.* First the codec: where each token of `accept(p)` stands (`TextShape`), what the searches of `parse` find there
(`TextFound`), and so that `parse` of a text is the packet, or the packet without its parts (`TextParsed`); `parse_buffer` with the next part is the packet with one part
more, and with the last the packet whole (`PartParsed`). A decoded packet says which one was encoded, and one only (`SaysOne`).
Then the payloads. `Earlier` is the order in which one thread hands them over. `WireInv`: they come in that order and without gaps, so that
after each payload that is not a packet's last the next is on its way or in the hands of its thread. `PartialInv`: a packet that waits is one that was emitted, all that comes of its
thread comes after what it has, and, while the connection is open, its next part does (`Waits`). As one thread only sends parts, a part or text with parts at the front of
the wire is that next part (`WaitsForFirst`), whatever texts of others went ahead: that is `PartsMeetTheirPacket`. `DecodedInv`: nothing of a decoded packet or of an earlier one of its thread is still to
come, and since a packet is encoded once (`EmittedInv`) order follows. `NoLossInv`: without a lost connection no part comes but
after the payload before it, which is on its way or is had by the packet that waits, so that no part is dropped
(`NotDropped`); and each packet is decoded or has something to come. `TypeCorrect` needs none of this and holds for any threads.

Only model-checked: the liveness properties (ENABLED and fairness are beyond the proof system), and that `from_json` undoes
`accept_message`: an induction over trees, which the installed provers cannot instantiate. Every safety invariant and action property
that a run checks is a theorem. `TypeOK` of `SioClient` and of
`Startup`, and `ReturnsMeanMoved` of `Gripper`, are proved of modules whose runs do not check them; nor does one check `AttemptsBounded`, which
`ImplementsClientSession` implies.

## 5. Not modelled, and why

- Third-party code: websocketpp, rapidjson (with googletest), `AIO/json.hpp`. These are most of the repository's
  lines. The files of the program itself, and of the socket.io client it is built on, that the modules are about have
  some 3 050 lines, of which the definitions stand for about 1 610; what the client needs of websocketpp is the environment of
  `SioClient`.
- JSON and message layout: events are records. Logging.
- `getInfo`, whose text REGISTRATION carries, and the sensor services, of which the module has none.
- `endConnection`, `executeTask`, `addSubscribed`, `removeSubscribed`, and in the firmware `blink`,
  `changeDutyCycle`, `uart_tx`, `uartnSend`: nothing calls them.
- The sweep that the firmware makes for TOGGLE: the host never sends it (`ToggleService.cpp` is in no target), and
  its floats have no counterpart in TLA+.
- The tables of event bindings of a socket and its error listener: set before anything arrives, only read after that.
- In the client: setters, the fields of the handshake, the table of sockets, TLS, and `next_delay`, which is the
  length of a wait that the model leaves open. In the codec: what
  `encode` never produces (a type out of range, a count of no parts, malformed JSON).
- `mainTest.cpp` and `ToggleService.cpp`: in no target. `src/handling-module-MSP430G2452`: another board's demo, one
  endless sweep without input.

## 6. Plan

Done, in this order:

1. `Services`, `CommunicationChannel`, `WorkProtocol`, the proofs of the first two.
2. `SerialLine`, `HandlingService`, `Firmware`, `Gripper`.
3. `SioSocket`, `SioClient`, `SioPacket`.
4. `Startup`, composed with `SioSocket`; `Handling`, which composes the channel and the gripper; `SioNamespace`.
5. The refinement and the absence of races as theorems; the proofs of `Startup`, `SioClient` and `SioNamespace`.
6. The order of drains, the socket's packets, the gripper and its composition with the channel as theorems.
7. `SioPacket` with its messages as parameters (`SioMessage`), and its properties as theorems of any messages that the codec
   restores.
8. `ClientSession`, and that `SioClient` implements it.

Left: a composition of `SioClient` with `SioSocket`, whose connection is simpler.

## 7. How to run

    tlc -workers 2 -config AnyOrder.cfg MCCommunicationChannel
    tlapm WorkProtocol_proofs.tla

`PROJECT.json` names the module and configuration of each run and maps each definition to the
lines of the source that it models.
