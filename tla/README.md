# A TLA+ model of the mcu_test firmware and the umqtt compliance test

This project specifies, model-checks and proves correct in large part the two programs of this
repository with logic of their own: `mcu_test`, an MQTT client for an LM3S6965
microcontroller that runs `umqtt` over lwIP, and the compliance test, which runs
`umqtt` over a socket against a broker. The rest of the repository is unit tests of
`umqtt`, whose source is an (empty) submodule; of these the mocks, the life of a test and
what each body does with the mocks are modelled.

## 1. Inventory

| Component | State it keeps | Operations | Talks to |
|---|---|---|---|
| receive queue (`net_client.c`) | `idx`, `odx` (uint8_t), `queue[8]` | enqueue, dequeue, length of the next packet | lwIP context puts, application takes |
| net_client (`net_client.c/.h`) | `hNet`, `isConnected` | `net_Init/Connect/Disconnect/ReadPacket/WritePacket/IsConnected`; callbacks `net_ErrorCb/PollCb/ReceiveCb/SentCb/ConnectedCb` | lwIP calls it back from interrupts; it calls `net_EventCb` |
| swtimer and `SysTickHandler` | `ticks`, `msPerTick`, each `SwTimer_t`; `msTicks`, `subseconds`, `upTime` | tick, set period, set timeout, test | interrupt writes, `main` and umqtt read |
| `main` (`mcu_test.c`) | `runState`, `netWasDisconnected`, two timers | the six states of its loop, the transport callbacks | net_client, umqtt, swtimer |
| startup code (`startup_gcc.c`, `lm3s6965.ld`) | vector table, `.data`/`.bss` | `ResetISR`, three endless loops | calls `main`; interrupts come through the table, which is also read through a null pointer |
| lwIP (external; `lwipopts.h`) | control blocks, their callbacks and argument, one refused pbuf each; receive window, segments behind a lost one, pbuf pool | connect, error, receive, redeliver, give up, FIN, poll, sent | calls net_client |
| umqtt (external) | connection status, packet list, keep-alive | connect, run, publish, subscribe, disconnect | called by `main`, calls the transport |
| compliance harness | a socket, callback records, time of day | socket transport, `RunUntil`, test cases | umqtt and a broker |
| unit test mocks and wrappers | globals: staged results, recorded arguments | four mocks and their resets, eight wrappers | umqtt; set up and torn down by each test |

What is hard here. Two contexts share the instance: lwIP's callbacks run in
interrupts between any two statements of the application. Only the queue uses a
critical section. `hNet` is read afresh for every lwIP call and an interrupt may
have set it to NULL; `net_Disconnect` takes a connection apart in nine unprotected
statements; `netWasDisconnected` is tested and cleared in two steps; a connection
may be lost at each of these points and is then lost *twice* (once by the error
callback, once by recovery). Received data outlives its connection in the queue, holding
pbufs and acknowledged on the next one. Startup works in words on sections that end
anywhere, and a reset may interrupt it. The mocks' globals outlive the tests, the buffers
they point to do not. Memory may run out in `tcp_write`, `tcp_close`,
`tcp_new` and `app_malloc`. Counters wrap. The full list, with lines, is in
`PROJECT.json` under `hazards`.

What makes each part correct:

- queue: nothing lost, repeated or reordered; full and empty never confused;
- net_client: every accepted pbuf freed exactly once after being read, packets
  whole and in order, the handle always a live connection, old connections mute;
- timers: exact across the wrap; clocks in step;
- main: no loss unnoticed, no notice applied to the next connection, everything
  down before reconnecting, recovery always completes;
- receive path: every byte of the window accounted for, the pool not exhausted by in-order
  data of one connection, no refused data waiting for ever;
- startup: `main` starts with initialised data whatever came before, and every enabled
  interrupt reaches its handler;
- mocks: no call, buffer or pointer of an earlier test reaches a later one, no packet
  buffer has two owners, and no test asks for more buffers than it staged;
- compliance harness: a test is judged by its own answers, talks to its own socket,
  frees each read buffer once, and the group ends whatever the broker does.

## 2. Modules

| Module | Models | Notes |
|---|---|---|
| `PbufQueue` | the ring and its three functions | state functions used by the next two |
| `BoundedFifo` | what the ring promises | abstract specification |
| `NetQueue` | the ring under arbitrary calls | refines `BoundedFifo` |
| `NetClient` | all of `net_client.c`, the transport callbacks and `net_EventCb` | extends `PbufQueue`; lwIP is its environment |
| `McuApp` | `main()` | extends `NetClient`; refines `NetSpec` |
| `SwTimer` | `swtimer.c` and `SysTickHandler` | |
| `Compliance` | `compliance/test_connect.c` and `umqtt_compliance_test.c` | stands alone; TLC runs it directly |
| `RecvPath` | lengths: `lwipopts.h`'s window and pool, the queue, `net_ReadPacket` | the queue is the FIFO of `BoundedFifo`; TLC runs it directly |
| `Startup` | `startup_gcc.c`, the sections of `lm3s6965.ld`, `main` up to its loop | ends where `McuApp` starts |
| `UnitMocks` | `umqtt_mocks.c/.h`, `umqtt_wrapper.c`, set-up and tear-down of the unit tests | the bodies are parameters |
| `UnitTests` | the bodies of the unit tests | extends `UnitMocks`; TLC runs it directly |
| `PbufQueue_proofs`, `NetQueue_proofs`, `McuApp_proofs`, `RecvPath_proofs`, `SwTimer_proofs`, `Startup_proofs`, `UnitMocks_proofs`, `Compliance_proofs` | theorems about the module of that name | `NetQueue_proofs` and `McuApp_proofs` build on `PbufQueue_proofs`; `McuApp_proofs` has the theorems about `NetClient` too, as its first part |
| `MC*` | instances for TLC | constants only |

### State and actions

**PbufQueue / NetQueue.** `idx`, `odx`, `queue` are the fields of
`NetClient_Instance_t`. Each function is one step because it runs inside
`SYS_ARCH_PROTECT`. `NetQueue` adds variables for the values the functions return.
`Contents` is the sequence of pbufs between the indices; it is the refinement
mapping to `BoundedFifo`, whose capacity is one less than the array's size.

**NetClient.** Variables `hNet` and `isConnected` are the instance;
`netWasDisconnected` is the flag of `mcu_test.c`. A callback of lwIP is one step
(interrupts do not nest here). An application call is one step up to the next point at
which an interrupt can make a difference; `call` names what it will do next, e.g.
`"disc_recv"` for `tcp_recv(this->hNet, NULL)`. lwIP's control blocks are numbered in
the order in which they are allocated; `pcb[c]` has the state, whether the callback
argument is the instance (`arg`), and the registered callbacks (`cb`). The connected
callback, which is never cleared, is there whenever the state is `"connecting"`.
`refused[c]` is the pbuf lwIP offers again after `ERR_MEM`, or gives up and frees
(`LwipGivesUp`).
`accepted`, `consumed`, `leaked` are history. `NetSpec` is the component under any
application that connects only when `hNet` is NULL.

`fault` records that the processor is stuck. A callback with a null instance ends in
the vector table at address 0: `pfnCb` is at offset 44, the SVCall entry, which is
`IntDefaultHandler`, an endless loop. An lwIP function given a null or a freed block
either stops the processor (`FaultISR`) or has no effect; both are explored.

**McuApp.** `runState` is the variable of that name, `pc` the place in the loop. Every
read of shared state is a step of its own (`CheckDisconnected` and
`ClearDisconnected` are the test and the clearing of the flag). umqtt is reduced to
its status (`umqtt`), the packets it reads and writes, and the outcomes `main` tells
apart. The two timers count down, which is what `SwTimer` shows them to do as long as
they are looked at within 2^32 ticks.

**SwTimer.** `Modulus` stands for 2^32, so that TLC reaches the wrap; the theorems
hold for every modulus. `age` and `asked` are history.

**Compliance.** Each test of the group is a sequence of steps: what it resets and
requires beforehand, whether it sends, which record `RunUntil` waits for and what the
assertions after it require (`Tests`). `record` holds, for each `..._h` variable of the
callbacks, the number of the test in which it was set. `fd` is the process's descriptor
table, because `DisconnectServer` closes `sock` whatever its value. A failing assertion
goes to the tear-down, as Unity's does; one in the tear-down skips the rest of it. The
broker answers in any order or not at all, the connection drops, and every call that can
fail does. `trouble` is history: it says that a failure of the test has a cause outside
the program. Time runs in half seconds, since `time()` counts whole ones. A read returns
any number of the packets that have arrived; `DecodeSeveral` is the packet error umqtt
reports when that is more than one (`umqtt_decode_test.c`, `LengthMismatch`).

**RecvPath.** What `NetClient` cannot tell, because its pbufs are indivisible: a segment is
a chain of pool pbufs, `net_ReadPacket` copies and acknowledges the first and frees all
of them. `rcv_wnd` and `refused` are lwIP's, `items` is the queue. `ooseq` is what lwIP keeps
behind a lost segment (`LaterArrives`; `TCP_QUEUE_OOSEQ` is left at its default, on): it holds
pbufs of the same pool and is handed over in one chain with the segment that fills the gap
(`SegmentArrives` with `more = ooseq`). There is one gap at a time. A refused chain is offered
again (`Redeliver`) or freed (`GiveUp`). A loss marks what is queued as not `current` and changes
nothing else of it, because neither `net_ErrorCb` nor `net_Disconnect` nor `net_Connect` empties
the queue. `cut`, `dropped` and `credit` are history: bytes freed unread, bytes lwIP gave up, and
window the connection got for bytes of an earlier one.

**Startup.** `sram` is a function from byte addresses to bytes; `dest` is `pulDest` and
then `r0`. Each iteration of the two loops is a step, so that a `Reset` may come between
any two. The vector table is a sequence in the order of the source; `Handle(n)` calls entry
n as the processor does. The calls of `main` before its loop are steps of their own, with
the interrupts each of them enables; a program that runs writes any byte of its static
data, so that a reset finds anything there. `hang` records the endless loop the processor
is in and the exception that led there.

**UnitMocks / UnitTests.** Each mock is a record of its globals; `mock_...` and `mock_..._Reset`
are functions on it. A test is set-up, body and tear-down, any of which may be cut short by an
assertion. A body is a `script`, a sequence of steps: entries of `mock_malloc_shouldReturn` are
written (`StageMalloc`, which neither resets the count nor looks where the buffer is), mocks are
reset, the transport is staged, a wrapper or a function of umqtt is called. `UnitTests` has one
script for each way a test uses the mocks, in the order of the test's statements. `held` is what
the test has from `wrap_newPacket` or a dequeue, `this.pktList` is umqtt's list. What a call of
umqtt does to the mocks and to the list (how many buffers it asks for, what it writes, lists and
frees) is what the tests assert of it. `mock_malloc` returns `Wild` from its fourth call on.
`TearDown` turns every pointer the mocks hold into `Freed`. `called` is history.

### Abstractions and assumptions

- Payloads are a packet kind (`connack`, `other`, `bad`); topics, messages and
  printing are left out. The length of a pbuf matters and is kept.
- `net_Connect` is one step: no callback concerns the new block before `tcp_connect`,
  its last call, has succeeded. lwIP's functions are atomic, as lwIP itself has to see to.
- The block is taken to be still allocated while lwIP calls `net_ErrorCb`.
- `tcp_close` on an established connection may fail and then leaves it up.
- `umqtt_Disconnect` writes whatever the status (`umqtt_connect_test.c`). A DISCONNECT
  that was written ends the session; when the write failed the session may stay, and
  both outcomes are explored. `umqtt_Run` reads one packet, then pings, retries or times out
  (`umqtt_run_test.c`).
- DHCP is a nondeterministic answer to "is there an address".
- In the compliance test a read returns whole packets, and umqtt pings at most once
  in a test.
- In `RecvPath` the calls of `net_client.c` are atomic; `NetClient` has what happens inside
  them. A segment that finds no pbuf is dropped and sent again by the peer, i.e. it does not
  arrive yet. lwIP's other uses of the pool, frames that are processed and freed at once, are
  left out.
- The comment in `net_ReceiveCb` (`net_client.c:233-235`) says that lwIP will "eventually give up"
  and free a pbuf that was refused; lwIP itself is not in the repository. The models let it do so
  after any number of attempts, and also let it go on for ever, so that nothing rests on either.
- In `Startup` interrupts are let in as soon as they are enabled: the processor does not mask
  them after a reset, so `IntMasterEnable` changes nothing.
- In `UnitTests` all packets have one length, calls that umqtt rejects for their parameters before
  it uses a mock are left out, and tests that differ in the contents of packets share a script. The
  tests may run in any order.

## 3. Runs

| Run | Result | What it shows |
|---|---|---|
| `queue` | pass | `TypeOK`; `ImplementsFifo`: the ring is the FIFO |
| `timer` | pass | `FiresExactly`, `FiresInTheLastTickBeforeDue`, `ClocksAgree` across the wrap of every counter |
| `net_client` | pass | `AcceptedPbufsAccountedFor`, `PacketsInOrder`, `PacketsAreWhole`, `HandleIsLive`, `StrayConnectionsAreMute`; the dangers of `net_Disconnect` are confined to it (`FaultsOnlyWhileDetaching`, `PbufsLeakOnlyWhileDetaching`) |
| `mcu_app` | pass | `LossIsNoticed`, `NoticeIsNotStale`, `DownMeansDown`, `ConnectIsNeverRefused`; `MainIsANetClient`: `main` is a client `NetSpec` allows, so the `net_client` results apply to it |
| `mcu_live` | pass | `EveryLossIsRecoveredFrom`, `WaitForNetEnds` |
| `compliance` | pass | `AnswersAreOfThisTest`, `ReadBuffersAreFreedOnce`, `TestsHaveASocket`, `WaitsLongEnough`; `FailuresHaveACause`: two flaws of the tests and that there is no third; `AllTestsEnd`, for which no answer of the broker is needed |
| `startup` | pass | `MainStartsInitialised`, `StartupWritesOnlySections`, `HangsHaveACause`; `StartupEnds` |
| `recv_path` | pass | `WindowAccountedFor`; `PoolSuffices` for data that comes in order; `RefusedIsTaken`: refused data is taken, given up by lwIP or lost with its connection |
| `unit_mocks` | pass | on the scripts of all tests: `PacketsHaveOneOwner` (with which no test makes a fourth call of `mock_malloc`), `OnlyLiveMemory`, `CallsAreOfThisTest` |
| `null_pcb` | violation | recovery after an error gives lwIP a null control block |
| `stale_connack` | violation | queued packets outlive their connection; an old CONNACK completes the new connect |
| `truncated` | violation | a segment longer than one pool pbuf is cut off when it is read |

A violation run states what a comment of the program says and shows a behaviour of the
code that contradicts it; `PROJECT.json` quotes the comment.

Other disagreements are in the models without a run of their own:

- A callback that interrupts `net_Disconnect` runs with a null instance and hangs
  (`FaultsOnlyWhileDetaching` says that it happens nowhere else), and data that arrives
  then is accepted and never freed (`PbufsLeakOnlyWhileDetaching`).
- `compliance/README.md` says that all tests pass against any compliant broker. SubPub fails
  when the PUBACK comes before the PUBLISH, and any test when one read returns two packets
  (`FailuresHaveACause` says that nothing else makes a test fail).
- A set-up that fails before it has a socket makes the tear-down close descriptor 0
  (`TearDownClose`); the next socket is then 0 and rejected.
- Segments of lost connections keep their pbufs. Six chains of three pbufs and one of two,
  left by connections lost before `main` read from them, fit into the queue and are the whole
  pool of 20; then no connection can be opened, and `main` reads only when it has one. (It
  happens in `recv_path` too; `PoolSuffices` excludes such queues.)
- Small segments behind a lost one hold a pool pbuf each and do not pass through the queue: within
  a window of 1024 bytes there is room for far more than 20 of them, so one connection can take the
  whole pool until the gap is filled, and after that until the joined chain has been read. It
  happens in `recv_path`; `PoolSuffices` is stated for queues without such data.
- If lwIP does give up refused data, as the comment in `net_ReceiveCb` says, the peer has had its
  acknowledgement: the bytes are missing from the stream and from the window for good (`dropped` in
  `WindowAccountedFor`).
- Read after the next connection is up, such segments raise its window, by up to 200 bytes each.
  The peer may then send more than `TCP_WND`, and in-order segments of one connection can hold 19 of
  the 20 pbufs, where a connection without this credit holds at most 13. `PoolSuffices` tells
  the two cases apart.
- `net_client.h` calls `NETCLIENT_QUEUE_SIZE` the number of packets that can be queued, and
  the ring holds one fewer (`Capacity` in `ImplementsFifo`).
- `netReadPacket` of `mcu_test.c` returns the length of a packet it could not allocate a
  buffer for, where its comment promises the number of bytes copied (`ReadMalloc`).
- `TEST_TEAR_DOWN` asserts the result of `umqtt_Disconnect` before it closes the socket, so a
  failing one leaves the connection open for the next test (`TearDown`).
- `umqtt_Run` is called in the compliance set-up while `sock` is still 0, and a topic is copied
  without a terminator (`test_connect.c:71`); both are harmless as long as umqtt does not read
  without a connection and packet ids stay small, which is not decided here.
- The unit test Connect/Pending stages a buffer that umqtt still lists, without a reset
  (`umqtt_connect_test.c:316-317`). Nothing hands it out, because the count of `mock_malloc` is past it
  and umqtt refuses the second connect before it allocates (`PacketsHaveOneOwner`).
- The unit test Decode/PublishQos1 asks `mock_NetWrite` to copy 1024 bytes of a packet of four.

### Bounds

- `queue`: 4 slots and 3 pbufs of different lengths: the indices wrap, the ring fills
  and empties at every position. The theorems cover every size.
- `net_client`: 3 slots (so 2 queued pbufs), 3 deliveries, 2 connections: a pbuf is
  refused and offered again, and an old connection lives beside the new one. A third
  connection would meet nothing a second does not.
- `mcu_app`: 2 slots, 2 deliveries, 2 connections, timers of one tick: the second
  connection starts with what the first left behind.
  `mcu_live` has one delivery, which is enough for a CONNACK.
- `timer`: counters of three bits, 3 ticks per second, 2 ms per tick: every counter wraps
  at a different moment, and timeouts include zero, a multiple of the period plus one and the largest value.
- `compliance`: limits of 2 seconds, so that `time()` changes between the start and the
  end at every phase; 5 descriptors, so two sockets: one may be left behind while the next
  test has its own, and with both taken `socket()` fails.
- `startup`: words of 2 bytes and sections that both end inside a word, so that both
  loops store past the end of their section. The theorems cover every layout.
- `recv_path`: the queue, the window and the pool are made smaller together, with the smallest
  pool that `PoolAssumption` allows: 2 queued chains, a window of 8, pbufs of 2 and then 3
  bytes, 8 pbufs. A segment fits into its first pbuf, or needs a second for its last byte, which
  is the worst use of the pool, or a third. Queue and window fill, in-order segments of one
  connection come to hold all pbufs but one, and small segments that came out of order
  hold all of them.
  The theorems cover the sizes of `lwipopts.h`.
- `unit_mocks`: three buffers, as many as a test has; every script, after every other. The number
  of tests is not bounded.

`MaxConn` and `MaxPkt` bound the exploration only; after the last connection `main`
still goes on, with `net_Connect` failing.

### Fairness

`FairSpec` asks for weak fairness of three things. `main` runs whenever no interrupt
does: it is the only thread. SysTick keeps coming: it is periodic hardware. A
connection attempt is answered or given up: lwIP retransmits a SYN a bounded number
of times. Nothing is asked of the network, and nothing of data arriving. The two liveness properties
of `main` allow the processor to hang, since the violation runs show that it may.

For the compliance test the process is scheduled and the clock runs; nothing is asked of
the broker or the network. `Startup` asks that the processor runs. `RecvPath` asks that `main`
reads while it has a connection (`umqtt_Run` reads on every pass through STATE_RUN_MQTT and
an allocation that fails is tried again) and that lwIP's timer offers refused data again,
which SysTick drives.

## 4. Proofs

`tlapm` checks all of these for every value of the constants. Each module has one inductive
invariant; TLC has checked it on the instance of the run before it was proved. The step
theorem goes action by action, and every property follows from the invariant.

**Queue.** `QueueWellFormed`: `QueueOK` is inductive as it stands: besides the ranges of
the indices it says that the slots between them hold pbufs, without which a dequeue could
return NULL. `QueueIsFifo`: `PbufQueue_proofs` shows what each function does to `Contents`:
enqueue appends, dequeue takes the head, a full ring has `NETCLIENT_QUEUE_SIZE - 1`
elements. The modular arithmetic (`Size` after a step, the slot of the i-th element) is in
lemmas of its own, by cases on whether the index wraps.

**net_client** (`NetInvariant`; eight properties of the run `net_client` follow from it). `NetInv`
adds to the types:
- `ConnInv`: where the handle, the argument and the callbacks of the control block are at
  every point of every call. `HandleIsLive` is about the time outside `net_Disconnect` only and
  says nothing of the eight stages in which the callbacks go one by one (`StillSet`); without
  them nothing is known when the call returns. It also needs that a block other than the
  instance's is not being established, since its connected callback is never cleared.
- `ReadInv`: between the measuring of a packet and its dequeue the packet stays the next
  one. Interrupts enqueue behind it only, by the queue's lemmas.
- `OrderInv`: what lwIP offers again on the instance's own connection is younger than
  everything accepted; a refused pbuf of a mute connection is not.

**main** (`AppInvariant`). `Coordinated` says in which states of the loop there is a handle, in
which a missing one has been reported, in which the notice has been cleared and in which a
session has ended. `MainUsesNetClientProperly` is the refinement of `NetSpec`; its one obligation
that is not plain is that `main` connects only without a handle (`NoHandle`). By it everything
proved of `net_client` holds in the program (`NetClientInMain`). `LossesAreNoticed`,
`NoticesAreNotStale`, `RecoveryTakesDown` and `ConnectsAreNotRefused` are the run's properties.

**Timers.** `TimerFiresExactly` and `TimerTypes` from `TimerInv`: until `age` reaches `Modulus`, it is
the unsigned difference `(ticks - startTicks) % Modulus` (at `Modulus` that difference has
returned to 0). `TimerFiresInTime` adds that a timeout is the quotient of the milliseconds and
the period of the moment it was set (`TimeoutIsQuotient`). `ClocksStayTogether`: `ClocksAgree` is
inductive with the types; the lemmas say how a remainder grows with each tick.

**Startup.** `MainIsInitialised` and `HangsOnlyForACause` from `StartupInv`, which has the loop
invariants: below `dest` the bytes of `.data` have their initial values, the copy loop's
overshoot lies in what the zero loop clears later, below `dest` the bytes of `.bss` are zero;
no interrupt is enabled before `main` has started, so nothing else writes. The table's
entries at the five exception numbers that occur are lemma `VectorEntries`.
`StartupStaysInSections` adds `InStep`: `dest` is a whole number of words from the start
of its section, so that the last word a loop stores is the one the section ends in.

**Unit tests' mocks** (`UnitMocksTypes`, `BodiesUseLiveMemory`, `FlagsAreOfThisTest`). They hold for
any bodies, not only for those of `UnitTests`: also for scripts that stage a buffer twice or call
`mock_malloc` too often. `MocksInv` adds to the types (every pointer but NULL, `Freed` and `Wild` is a
buffer of the test) that in a body no mock has a pointer of an earlier test (`NoneFreed`); what a
body holds or umqtt lists came from a mock, so it is none either.
`RemoveAtProperties` says what taking a packet out of the list leaves. `PacketsHaveOneOwner` is not
true of any bodies: it says that those of the tests use the mocks with care, and TLC checks it on
their scripts.

**Compliance test** (`HarnessInvariant`; six properties of the run `compliance` follow). What makes
`FailuresHaveACause` inductive is what each step may rely on from the steps before:
`AnswersWereAsked` (in a body an answer is on its way or recorded only when a step has asked for
it, `FirstStep`), `EarlierStepsHeld`, and `TroubleIsNoted` (a reset connection, a refused
connect, an answer that did not come in time and a closed stdin have been noted as trouble). With
them no record a step requires to be null is set (`BeforeIsClear`) and the assertions after
`RunUntil` hold but for one case (`VerifyFails`). `AnswersComeOnce` bounds the inbox, hence what
a read returns. The table of the tests is used through lemmas (`TestTable`, `StepKinds`,
`...Fields`).

**Receive path** (`RecvInvariant`; `WindowAccounting` and `PoolIsSufficient` are the two invariants
of the run `recv_path`). `PoolIsSufficient` bounds what
segments of one connection that came in order take from the pool; it claims nothing while segments
wait behind a lost one. Both are about sums over the queue. The first part of `RecvPath_proofs`
shows that the sum of a sequence is the last of its prefix sums, that these exist and are
unique, and from that what appending an element and taking the first one does to the sum and
that a bound on the elements bounds it (`TotalAppend`, `TotalTail`, `TotalBound`). What needs
induction is proved by the least counterexample (`NoLeastCounterexample`), which rests on
the well-founded order of the numbers and needs no induction scheme. `WindowAccountedFor` is
inductive with `OnlyOfThisConnection`: without a connection nothing in the queue is of the one
that is up, so the next one starts with its whole window. `dropped` and
`ooseq` enter the sum and the types; what waits behind a gap has not used the window yet. For the
pool it has to be known how far data of earlier connections can raise the window: `CreditIsBounded` says that each stale
segment does so once, so that the credit and what the stale segments still queued can add to it
are never more than a full queue of them could have given.
`PartsBound` says how many bytes a chain of pbufs has at least; the sizes then have to satisfy
`PoolAssumption`. Those of `lwipopts.h` do, with hardly a pbuf to spare: 4912 < 5120 = 20 * 256
for the first inequality, and 4335 < 5376 for the second with segments of `TCP_MSS`.

Assumptions: the queue has 1 to 256 slots (its indices are `uint8_t`), NULL is not a
pbuf, no pbuf is empty or longer than a `uint16_t` can say; the modulus is positive and
the tick rate and period are between 1 and the modulus; `.data` comes before `.bss` and both
lie in SRAM; the bounds of the exploration are natural numbers; the bodies of the unit
tests are sequences of `Step`, and the pointers NULL, `Freed` and `Wild` differ from each other and from
every buffer; a time limit is positive
and a process may have more than the three standard descriptors; no segment is longer than the
window, the first pbuf of a chain holds no more than the others, and the pool is as large as
`PoolAssumption` says (only `PoolIsSufficient` uses it). TLC evaluates them in the runs.

Only model-checked are liveness (`EveryLossIsRecoveredFrom`, `WaitForNetEnds`, `AllTestsEnd`,
`StartupEnds`, `RefusedIsTaken`), which is out of the prover's reach, and `PacketsHaveOneOwner`, which is
about the finitely many scripts of the tests. Every other invariant, action property and
refinement that a passing run checks is stated by a theorem.

## 5. Not modelled

- The notification callbacks of `main`, which only print (`PublishCb` also allocates).
- Clock, UART and ethernet setup: register writes without state of the program.
- umqtt's encoding and decoding, keep-alive and retry counts: not in the repository. Its
  packet list is in `UnitMocks` as the wrappers and the tests show it.
- What the unit tests assert of umqtt.
- The contents of the messages the compliance tests compare, a packet split over two reads,
  and the millisecond ticks.
- The depth of the stack, 1 KB of `.bss` that the interrupt handlers share.
- `PublishCb`'s `uint16_t` buffer length (`mcu_test.c:182`): `net_ReadPacket` returns at most one
  pbuf of 256 bytes, far from its wrap.
- Options of `lwipopts.h` for parts of lwIP the program does not use.

## 6. Plan

1. *(done)* `PbufQueue`, `NetQueue` and their refinement, `SwTimer`, `NetClient`, `McuApp`,
   `Compliance`; first theorems about the queue and the timers.
2. *(done)* `Startup` with its theorems, `RecvPath`, `UnitMocks`; reads of several packets and
   the causes of failing tests in `Compliance`.
3. *(done)* Theorems for all safety properties of `NetClient`, `McuApp`, `SwTimer`, `Startup`,
   `UnitMocks` (but one) and `Compliance`, and for the refinement of `NetSpec` by `main`.
4. *(done)* Theorems for the two invariants of `RecvPath`, with `PoolSuffices` restated after the
   proof had shown that reading data of an earlier connection uses up the reserve it claimed.
5. *(done)* lwIP's out-of-sequence queue and its giving up of refused data; the unit tests as
   scripts.
6. Shorter proofs where several actions share an argument.
