# dpdklibs in TLA+

A verification project for the NIC reader of dpdklibs: the DAQ module that
receives detector data with DPDK and hands it to the readout. The modules here
are translated from the C++ sources (paths below are relative to the root of the
repository), model-checked with TLC on small instances, and proved with TLAPS
for instances of any size where that is within the prover's reach.

## The system

`DPDKReaderModule` (`plugins/`) is run by the application framework. It owns

* the **sources** (`m_sources`, `src/SourceModel.hpp`), one per output of the
  module, each with a sink: a queue, or a callback acquired from a registry when
  the run starts;
* the **interface wrappers** (`m_ifaces`, `src/IfaceWrapper.*`), one per
  connection to a network device;
* the **run marker** (`m_run_marker`), shared with every wrapper.

Four kinds of threads meet in this state, and none of them takes a lock:

| thread | code | reads | writes |
| --- | --- | --- | --- |
| command thread | `do_configure`, `do_start`, `do_stop`, `do_scrap`, destructor | all | run marker, flow flags, quit signals, callbacks, wrappers |
| GARP thread, one per wrapper | `garp_func` | run marker | the GARP mbuf |
| lcore, one per polled core | `rx_runner` | flow flag, quit signal, maps of the wrapper | bursts, counters, sinks |
| monitoring thread | `generate_opmon_data` | NIC counters, counters of the queues | statistics, the maximum burst (cleared) |

The NIC is the fifth actor: it fills the receive rings from the mbuf pools and
counts what it receives.

### Inventory

| component | state | operations | what is hard | what makes it correct |
| --- | --- | --- | --- | --- |
| commands (`plugins/DPDKReaderModule.*`) | run marker, wrappers, sources, device maps | conf, start, stop_trigger_sources, scrap, destruction | commands in any order, commands that fail half-way, EAL that can be initialised once, threads that outlive a command | nothing runs outside conf..scrap, callbacks are acquired before use, every command returns |
| life cycle of a wrapper (`src/IfaceWrapper.cpp` 159-169, 263-299) | flow flag, quit signal, GARP thread, lcores | start, stop, enable_flow, disable_flow, destructor | flags tested and used in two steps, join and wait | queues polled while running, a bounded number of frames after stop |
| receive path (`src/detail/IfaceWrapper.hxx`, `src/IfaceWrapper.cpp` 402-420) | rings, pools, bursts, counters, map of unexpected ids | rx_runner, handle_eth_payload, handle_payload | bounded pools, full sinks, callbacks of other modules, several queues per lcore, an unlocked map | mbufs conserved, order kept, frames reach the source of their stream, the lcore waits for nothing but its callbacks |
| queue assignment and flow steering (`src/IfaceWrapper.cpp` 59-156, 213-250, `src/FlowControl.cpp`) | ip_to_stream_src_groups, m_rx_core_map, m_stream_id_to_source_id, rules of the NIC | constructor, setup_flow_steering | repeated streams, repeated cores, empty lists | every stream steered to a queue that knows its source, one lcore per queue |
| monitoring (`src/IfaceWrapper.cpp` 301-384, `include/dpdklibs/XstatsHelper.hpp`) | NIC counters, copies of them, counters of the queues | setup, poll, reset_counters, generate_opmon_data | poll and reset are two steps, max and exchange are two steps, registered before it is set up, calls that fail and are only logged | each packet published at most once, values written before they are published, no burst missing from the maximum |
| sources (`plugins/DPDKReaderModule.cpp` 91-126, `src/SourceModel.hpp`, `src/CreateSource.hpp`) | sources, sinks, callbacks, dropped packets | init, set_sink, acquire_callback, handle_payload | repeated ids, unknown data types, a callback registered late, a full sink | frames reach the sink configured for their source, null pointers have a known cause, never blocks |
| EAL and device set-up (`src/EALSetup.cpp`, `src/IfaceWrapper.cpp` 172-250) | EAL, devices, names of the mbuf pools, receive queues | init_eal, get_mempool, iface_init, wait_for_lcores, finish_eal | failures that throw and failures that exit, a device used by two connections, rules of an earlier process | every queue of a device that is ready has its pool, its lcore and its senders; a device is set up once |
| GARP packets (`src/arp/ARP.cpp`) | one mbuf | pktgen_send_garp | one mbuf for all addresses, in the ring while it is rewritten; three reversals of bytes | what is sent for an address announces it |
| test sender (`plugins/NICSender.cpp`, not built at this commit) | run mark, array of mbufs, transmit bursts | configure, start, stop, lcore_main | a burst transmitted in parts, freeing what was sent, waiting for one lcore, commands after a clean-up or a configuration that threw | messages handed over whole and once, only unsent mbufs freed, stop returns or the process ends |
| packet utilities (`src/udp/`) | buffer, index, packets found | reading and splitting a capture, construction | lengths taken from the data, limits, ends of buffers | the packets found are the frames of the capture |
| payload sizes, dumps, `src/CyclicDataGenerator.cpp` | none, or an index | conversions | widths, ends of buffers | not modelled |

`PROJECT.json` lists the components again with their status, and the hazards of
the code, each at its line with the properties that would catch it.

## The modules

| module | models | proofs in |
| --- | --- | --- |
| `ReaderControl` | commands, GARP threads, life cycle of the lcores | `ReaderControlProofs` |
| `RxPath` | receive path | `RxPathProofs` |
| `FrameDelivery` | what the receive path promises (abstract specification) | `RxPathProofs` |
| `QueueAssignment` | constructor of a wrapper, flow steering | `InterfaceSetupProofs` |
| `QueueLists` | how receive queues may be shared among lcores: what `RxPath` assumes and `QueueAssignment` brings about | |
| `InterfaceSetup` | what conf does for one connection: device, wrapper, pools, device configuration, flow steering (extends `QueueAssignment`) | `InterfaceSetupProofs` |
| `OpmonStats` | monitoring of an interface | `OpmonStatsProofs` |
| `SourceSetup` | init, the sources and the registry of callbacks | `SourceSetupProofs` |
| `GarpSender` | what the GARP thread sends | `GarpSenderProofs` |
| `NICSender` | the test sender: commands, launch, transmit loop | `NICSenderProofs` |
| `CaptureSplit` | reading a capture, splitting it into packets, sizes of constructed packets | `CaptureSplitProofs` |
| `MC...` | values of the constants for TLC | |

How they fit: `QueueAssignment` computes what `RxPath` takes as the constants
`QueuesOf` and `StreamMap`. `RxPath` assumes of `QueuesOf` what `QueueLists` states, and the theorem
`ListsAsAssumed` says that the outcome of the constructor meets it, for any senders and any list of cores. `InterfaceSetup` puts it into the
configuration of a device and adds what comes between the maps and the rules; it implements
`QueueAssignment` (a theorem), so what holds of the maps holds there. `ReaderControl`, for which an interface is configured
in one step that succeeds, throws or exits, sees its outcome. `ReaderControl` models when the flow
flag and the quit signal change relative to the commands; in `RxPath` they change
at any time, so what holds there holds under every sequence of commands. In turn
`ReaderControl` does not look into a frame: it delivers it to any source.
`OpmonStats` keeps of the lcore what the statistics read. `SourceSetup` is the part of the
module that comes before all this, the sources, up to the null pointers a later
call can meet; `ReaderControl` takes every source as having its model and the registry
as filled when the run starts, which `SourceSetup` shows to be what the code relies on
(`CrashHasCause`). `GarpSender` looks into the step `GarpSend` of `ReaderControl`.
`CaptureSplit` and `NICSender` stand alone: the reader uses neither.

### ReaderControl

`cmd` is the place of the command thread: `idle` between commands, else the loop it
is in (`conf`, `launch`, `acquire`, `enable`, `disable`, `stop`, `join`, `wait`,
`destroy`), with `todo`/`todoL` the elements that loop has left. The framework
runs the commands one after the other; nothing in the module checks their order,
so every order is explored, the second `conf` (which leaves the process, as
`rte_eal_init` cannot be called twice) included. With `ExitWithoutScrap` the module may also be
destroyed while it runs: `control` has orderly destruction only, `control_destroy` any, and
the theorems hold for both.
`ConfIfaceThrows` is a configuration that fails half-way, `ConfIfaceExits` the
calls of `rte_exit`.

`flowOn`, `quit`, `runMarker` are the flags; `garp` the GARP thread of each wrapper
(none, at its test, sending, exited but not joined); `lpc`, `owner` and `left` an
lcore: what it executes, for which wrapper, and how much of its burst remains. The
test of the flow flag (`AcceptFrame`) and the hand-over (`Deliver`) are two
steps, as they are in `rx_runner`. `late` is a history variable. `proc` says
how the process ended: `exited` (rte_exit), `nullcall` (a null callback was
called), `terminated` (a joinable `std::thread` was destroyed or assigned to), `crashed` (EAL was torn
down under running threads), `gone` (destroyed in an orderly way). `Destroy` is the body of the destructor, which
tears EAL down first; the wrappers go away after it, with the members (`DestroyIface`, `Destroyed`).

`ScrapIsFinal` says of every behaviour that once a command has returned with EAL
initialised and the run marker clear, the marker stays clear: no order of the commands that follow launches
an lcore or a GARP thread again.

Left out: a pass of `rx_runner` that finds no frame, the one-second sleep of the GARP
thread, and what scrap does when the run marker is clear (nothing). A callback returns at once here; how long it
may take is a question for `RxPath`.

### RxPath and FrameDelivery

A frame is its number in the order of arrival of its queue; `wire` keeps its stream
and whether it is longer than 7000 bytes, the only data the code branches
on. One pass of `rx_runner` takes a burst off every queue of the lcore (`RxBurst`, phase
`burst`), then processes queue by queue (`frames`) and frees each burst. A frame
is skipped when short, discarded when the flow is disabled, handed to the source
its stream leads to, or counted as unexpected: the test for the key, the
insertion and the increment of the unlocked `std::map` are separate steps
(`FindUnexpected`, `InsertUnexpected`, `CountUnexpected`). `SourceOf` answers 0 for an
unknown stream, as `operator[]` does. `handle_payload` has both its branches: a source with a queue drops when that is full
(`try_send` does not wait, `HandlePayload`), a source in callback mode holds the lcore from `CallCallback` to
`CallbackReturns`, for as long as its owner likes.

Every access of the unlocked map goes through `AccessMap`. One that falls between two steps of another lcore's insertion, or comes
after the map was damaged, may do what it would do alone, or lose its result or every node; `tree` says whether that has happened
(`raced`), or whether the process died of it or an lcore never came out of the map (`fatal`, after which the model says nothing more).
`UnexpectedIdRecorded` speaks of the time before, `EveryFrameProcessed` of the time before `fatal`; the others are proved through it all.

`Arriving` says which frames a queue gets from the network, to keep a run to the frames that matter for its
question.

`StepsLeft` counts the steps an lcore may still take before it tests the quit signal, three at most for a frame,
whatever its stream and its sink. `PassesEnd` says that each step of the lcore lowers it and no step of anybody else changes it:
a sink that is full, or another lcore in the same map, cannot keep scrap waiting in `wait_for_lcores`; a callback, or an access to the
damaged map that never ends, can.

The pool, the ring and the NIC are external: a ring of `RingSize` slots each with
an mbuf, and `rte_eth_rx_burst` re-arms the slots it empties from the pool, so it takes
at most as many frames as the pool has free mbufs.

`FrameDelivery` is the promise to the sources: frames are handed over in their
order of arrival, each at most once, only long ones, and only to the source
configured for their stream. `RxPath` implements it with the identity mapping on
`wire` and `handed`.

### QueueAssignment

The nested loops over senders and streams are the sequence `conns`; `groups` is the map
of maps `ip_to_stream_src_groups`. `AssignQueue` is one round of the loop that deals
addresses to queues and cores, `CreateRule` one round of the loops over
`m_rx_core_map` (in any order). A core listed twice is allowed, as the code does not
forbid it. `NoCore` is the read of `m_rte_cores[0]` when the list is empty.

### InterfaceSetup

`step` is the place of `do_configure` in its loop over the connections. `FindDevice` looks
the addresses up in the maps (the keys are the addresses that could be read), the constructor is `QueueAssignment`, `AllocatePool` and
`AllocateGarpPool` are `allocate_mbufs`, `ResetDevice` to `CheckDevice` are `iface_init`,
where any call may fail and throw (`InitThrows`), and `Steer` is `CreateRule`. `earlier` are the devices of
connections before this one, `poolNames` the names DPDK has given out; a name is refused a second time and
`get_mempool` leaves the process. `left` are rules the NIC still has after a flush that failed, an
outcome the code does not look at; `flushed` is a history variable.

### OpmonStats

`conf` is the place of `do_configure`, from the registration of the wrapper with the monitoring through the steps of
`setup_xstats` (names, allocation of the values, first fill, `m_allocated`, reset) to `start()`; `opc` that of
`generate_opmon_data` (publish the basic counters, poll, copy the extended ones, reset, publish them, publish the queue); `lpc` that of
the lcore around `m_max_burst_size = max(...)`. A publication may begin after any step of `do_configure`. `poll` and
`reset_counters` look at `m_allocated` (`PollUnallocated`), the loop that copies the values does not: `CopyValues` reads `m_len`
and the two arrays in whatever state they are, which may crash, or give memory nobody wrote (`Garbage`, as `m_eth_stats`
is before its first poll). One queue stands for all of them, one extended counter for all of them.

DPDK may fail in every call, and the code goes on as if it had not: the names may not be had (`names` is `none`, or `unwritten`
if the second call fails), a read that fails leaves the old values, a reset that fails leaves the counters. After such a failure packets
are published twice or never, so the properties of the extended counters have `~failed` as a premise; `failed`
is a history variable, and no state of the code.

A publication during `start()` may insert into a map that is being inserted into or looked up (`InsertQueue`, `QueueInserted`), which
may crash. `begun` is a history variable, by which `CrashBeganBeforeStart` says that no publication begun after
`start()` can crash, and `GarbageBeganBeforeSetUp` that none begun after the first fill publishes values nobody wrote.

### SourceSetup

`next` is the place of `init` in the list of outputs; `keys` and `model` are
`m_sources`, whose values may be null (`NoModel`, a data type without a specialisation).
The commands are reduced to the acquisition of callbacks and the flow. `Register`
is some other module of the process entering a callback, at any time; nothing orders
it before `start`. `acquired` and `callback` are separate, as
`m_callback_is_acquired` is set whatever the registry answered. An output may have several data types (the error is
only reported, the first one counts), or none: `FirstOfNoTypes` is the read of the first of an empty set, which ends `init` or the
process, or gives a type nobody knows. The sender a queue needs may be refused (`InitThrows`). What the other end of
`register_node` does with a null pointer is not in this repository; it is taken to accept it.

### GarpSender

The address fields of the one mbuf are written in steps (`ClearArp`, `WriteSip`, `WriteTip`), and the ring
holds, for each descriptor, the address it was queued for. `Transmit` sends what the mbuf
holds when the NIC gets to it. A number is the sequence of its bytes, so that the
reversals of the constructor, of `rte_cpu_to_be_32` and of `htonl` are what they are.
`SleepDrains` is an assumption, not a fact: that the NIC empties its ring in the second between two rounds.

### NICSender

`cmd` is the place of the command thread, `lpc` that of each lcore in `lcore_main`. The array
`pkt` is allocated once and filled again for every burst; an mbuf is the message written into it last. `TxBurst`
hands over the first mbufs of the array, each time, and `Freed` those from the last
`nb_tx` on, as the code does. A burst that is taken in parts is therefore offered again from its start and
its end is never sent (`short` records that a call took less than it was offered, and `HandedOverOnce` says what holds as long as that does not
happen), and mbufs the driver has are freed (`misfreed`; the finding `sender_free`). `Return` ends the process: the
thread that prints the rate is destroyed without a join.

`CleanUp` is `rte_eal_wait_lcore(1)` and `rte_eal_cleanup`; `do_stop` then returns and the module lives on. `cleaned`
records it: lcores other than 1 run on with mbufs and a device that are gone, and start, conf or stop may come
again, all of which may crash from then on. `ConfigureThrows` is an address that cannot be parsed: its core is in `m_core_map` but has no addresses
(`ips`), and EAL is not initialised. A start after it is `LaunchWithoutEal`, which may crash or not return; a start after a further conf
launches an lcore that reads the first of no addresses (`StartBatch`).

Left out: time stamps, the addresses but for whether there are any, the rate limiter, and what the NIC does with an mbuf it has, freed or not.

### CaptureSplit

A buffer is a sequence of frames with their sizes, `byte_index` a real index. A header read at the
start of a frame says what the frame says; one read elsewhere, or past the end, is any
header. `construct_packet` gives the sizes of constructed packets at their width.

## The runs

| run | configuration | bounds | shows |
| --- | --- | --- | --- |
| `control` | `MCReaderControl.cfg` | 2 interfaces, 3 lcores (2+1), 2 sources, bursts of up to 2, 124 000 states | `TypeOK`, `NoNullCallback`, `AtMostOneLateFrame`, `QuietWhenNotRunning`, `EveryQueuePolled`, `StoppedWhenDestroyed` under every order of commands in which destruction comes only when not running; every command returns (`CommandsReturn`); nothing runs again after scrap (`ScrapIsFinal`) |
| `control_destroy` | `MCReaderControlDestroy.cfg` | 2 interfaces with one lcore each, destroyed at any time | **violated**: threads outlive their wrapper |
| `rx` | `MCRxPath.cfg` | 2 lcores with 2 queues and 1, rings of 2, pools of 4, bursts of 2, 2 frames, 1 and 1 on the queues, sources with queues and one with a callback that need not return, 164 000 states | `TypeOK`, `MbufsConserved`, `FramesCounted`, `UnexpectedIdRecorded` until an access to the map is damaged, `DeliversInOrder` (refinement of `FrameDelivery`), `EveryFrameProcessed` by an lcore whose callbacks return, `PassesEnd` |
| `rx_source_zero` | `MCRxPathSourceZero.cfg` | a source with id 0 | **violated**: a frame of an unknown stream reaches source 0 |
| `queues` | `MCInterfaceSetup.cfg` | every list of up to 3 streams (3 addresses, 2 streams, 2 sources), up to 2 cores, 2 devices used before or not, 386 000 states | `TypeOK`, `RoutedAsConfigured`, `OneLcorePerQueue`, `QueuesBalanced` of `QueueAssignment`; `SetupTypeOK`, `SteeredAsConfigured`, `DeviceSetUpOnce` |
| `opmon` | `MCOpmonStats.cfg` | bursts of up to 2, 3 packets, 1 006 000 states | `TypeOK`, `XStatsCountedOnce`, `GarbageBeganBeforeSetUp`, `MaxBurstCovered`, `CrashBeganBeforeStart`, `PacketsPublished` |
| `sources` | `MCSourceSetup.cfg` | every list of up to 2 outputs (2 queues, 2 ids, both modes, known, unknown and no types), 16 000 states | `TypeOK`, `DeliversToConfiguredSink`, `CrashHasCause` |
| `garp` | `MCGarpSender.cfg` | 3 addresses, ring 3, drained between rounds | `TypeOK`, `LastAddressAnnounced`, `LastAddressAnnouncedAgain` |
| `garp_reuse` | `MCGarpSenderReuse.cfg` | the same | **violated**: what is sent for an address is not its announcement |
| `sender` | `MCNICSender.cfg` | 2 lcores with a board each, bursts of 2, batches of 4, 660 000 states | `TypeOK`, `HandedOverOnce`, `StopEnds`, `LaunchedEndsInTerminate` |
| `sender_free` | `MCNICSenderFree.cfg` | 1 lcore, a burst of 3 | **violated**: an mbuf the driver has is freed |
| `capture` | `MCCaptureSplit.cfg` | captures of up to 3 frames of 7 kinds | `TypeOK`, `WholeFramesFound` |

Deadlock is not checked: in every module the system may stop. The process
exits or is destroyed (`ReaderControl`), the lcores return (`RxPath`), the device is set up or its
configuration failed (`InterfaceSetup`), the packets are used up or the process crashed
(`OpmonStats`), init threw or a null pointer was called (`SourceSetup`), the thread has joined
(`GarpSender`), the capture is split (`CaptureSplit`), the process ended or waits for ever in a launch without EAL (`NICSender`).

Why the bounds are enough. `ReaderControl`: two interfaces make the loops of the
commands interleave with threads of an interface already visited and one not yet
visited; two lcores on one interface are what a launch loop or a wait can miss one
of; bursts of two are what distinguishes a flag read per frame from one read per
burst. The counters need no bound: `late` is bounded by a property. `RxPath`: a pool of twice the
ring allows bursts of two, after which the pool is empty; a sink of one frame fills; two frames on the first queue make one burst or two passes, a
sink that is full for the second, and an order to keep. Either lcore may meet a frame of an unexpected stream, so that both are in the map at
once; the second lcore also has short frames and the source in callback mode. `MaxFrames` bounds
arrivals only, and `Arriving` says which streams and lengths each queue gets. A ring that is too full for a frame needs three of them on a queue and is not reached
here; it is in the theorems, which cover every property of this run but `EveryFrameProcessed`. `QueueAssignment`: three streams allow one repeated for its address and
another one between; three addresses on two cores wrap `core_idx`. `MaxConns` and
`MaxCores` bound the lists. `InterfaceSetup`: one device used before and one not; `MaxEarlier` bounds the queues an
earlier connection had. `OpmonStats`: three packets are one published, one in the window between a poll and its reset and
one after it, with bursts of two in between; `MaxFrames` bounds arrivals.
`SourceSetup`: two outputs suffice for an id listed twice and for a source that crashes beside one
that does not. `GarpSender`: three addresses give a first, a middle and a last one, none
of which reads the same backwards; the ring takes a whole round. `CaptureSplit`: three frames put a frame that is not whole
before, between and behind whole ones; `Totals` are the lengths arbitrary bytes may show, on both sides
of the limits, and `MaxFrames` bounds the buffer. `NICSender`: bursts of two may be taken in parts and need two turns for a
batch; lcore 1 is waited for and lcore 2 is not. A burst of three is the smallest that can be taken in two parts such that an mbuf
taken by the first call is freed after the second. A batch, 64 messages in the code, is the constant `Batch`.

Symmetry is used in `queues` only, which checks invariants: streams, sources, cores and devices are compared
and nothing else. Addresses are dealt to queues in the order of the map and are not permuted.

### Fairness

`ReaderControl!FairSpec`: weak fairness of the command in progress, of each GARP
thread and of each lcore. They are threads of the operating system, an lcore with a core of
its own, and none of their steps waits for anything but what its guard says (the join
of a GARP thread, the wait for the lcores). No command need ever arrive.
In `ReaderControl` that includes the call of a callback, which is taken to return: a callback that does not keeps scrap waiting.
`RxPath!FairSpec`: weak fairness of each lcore only, and not of the return of a callback. Nothing is assumed of the readers of the
sinks, of the callbacks, of the NIC or of the commands: `EveryFrameProcessed` holds although no
reader ever reads, for an lcore that is outside callbacks again and again, whatever the others are held up by. Nothing is assumed
once an access to the damaged map is `fatal`.
`GarpSender!FairSpec`: weak fairness of the thread, which belongs to the operating system, and of the
NIC, which sends what is in its ring as long as its link is up. `LastAddressAnnouncedAgain` needs both.

`OpmonStats!FairSpec`: weak fairness of `do_configure` and of the monitoring thread, which publishes at regular
intervals. `PacketsPublished` says nothing of packets counted between a poll and its reset, nor once a call for the counters has failed.
`NICSender!FairSpec`: weak fairness of the command in progress and of each lcore, and strong fairness of the calls in
which the driver takes a packet: a link that is up drains its ring, so it is not full at every call. Only a device that
was started and an EAL that was not cleaned up take any, which is why `StopEnds` and `LaunchedEndsInTerminate` have `devUp` and `~cleaned` as premises: a
second stop may wait for ever.

### Findings

* `control_destroy`: the destructor of `IfaceWrapper` announces a stop and a close, but the calls
  are commented out; destroyed without scrap, a wrapper goes away under its threads.
* `rx_source_zero`: a stream nobody configured is looked up with `operator[]`, which
  answers 0; with a source of id 0 its frames are handed over, not counted.
* `garp_reuse`: one mbuf serves all addresses of an interface, and is rewritten for the next while
  the transmit ring still points to it. Only the address listed last is announced reliably.
* `sender_free`: after a burst that was taken in parts, the test sender frees mbufs as unsent that the driver has,
  as it counts from the answer of the last call alone.

Seen while modelling, without a run of its own as nothing has to interleave for it: `generate_opmon_data` publishes the basic statistics before
it polls them (`src/IfaceWrapper.cpp:315`, 326), so the first publication is what the memory held and later ones are a cycle old.

## The proofs

All theorems are about the specifications without fairness, for every value
of the constants that satisfies the named assumptions of the modules.

`ReaderControlProofs` (assumptions: the lcores of an interface are lcores, `CallbackSources` are
sources, a burst holds at least one frame). No property is inductive by itself. The invariant `IInv`
adds to `TypeOK`: a frame in hand while delivering, `CallbacksFirst` (an open flow, or a frame
past its test, implies that all callbacks are acquired: they are never
released, and `enable` comes after `acquire`), `LateInv` (a late frame implies the flow is
closed, and a frame past its test has no predecessor that was late: this is why there is at most one), `PhaseInv` (run marker, `cur` and
the place of the command agree), `OwnerInv`, `WrappedInv` (threads belong to wrappers that exist) and `QuietInv` (what scrap
has visited is quiet). From it follow `TypeCorrect`, `CallbackBeforeFlow`,
`LateFramesBounded`, `ScrapLeavesNothingRunning` and `StopsBeforeDestroy`, the
last for modules destroyed only when they are not running. `ScrapFinal` needs that EAL is never initialised
again, so that the run marker, once cleared between two commands, meets no step that sets it. `QueuesPolled` needs `LaunchInv` in addition, and
that no lcore serves two interfaces (`DisjointLcores`): the code does not check it, and
does not look at the answer of `rte_eal_remote_launch`.

`RxPathProofs` (assumptions: sizes are positive, the ring is smaller than the pool, and each queue
belongs to exactly one lcore, which `ListsAsAssumed` proves of the constructor). `NoMbufLost` rests on
`MbufInv`: pool, burst and ring add up, and a burst is non-empty only for a queue the
lcore has taken and not yet freed in this pass. `ImplementsFrameDelivery` rests on an order: what was handed over is older than what remains
in the burst, that is older than what is in the ring, and that is ascending. It
assumes that no source has id 0, and fails without it (`rx_source_zero`). `UnexpectedIdsRecorded` rests on
`UnexpectedInv`: for each id the count and the lcores between its test and its increment are together at most the frames found, and
not both none if one was, which holds as long as `tree` is `sound`; an access that may be damaged ends the claim, not the proofs of the other
theorems. `FramesCountedOnce` rests on `CountInv`: a frame is away (lost, in the ring or ahead in the burst)
until it is processed, the order above keeps it from being ahead twice, and each processed long frame adds one to the set counted
and to the counter; an lcore that counts an unexpected frame has a long one in hand.
`PassesOfLcoresEnd` needs `PassInv`: an lcore that handles a frame has one ahead of it in the burst of the queue it is at, so that
`StepsLeft` never falls below what is left to do. The lemma `PassStepsFall` is the arithmetic of it. Together with the weak fairness of an lcore, which
stays with TLC, it is why an lcore told to quit returns, if its callbacks do.

`InterfaceSetupProofs`, first about `QueueAssignment`: `GroupInv` (each group holds the source listed last so
far), `QueueInv` (addresses that have been dealt have exactly one queue, those in `todo`
none, and each queue holds the streams of its address), and for the rules that each leads to the queue of its address. They
give `QueuesPolledOnce` and `FlowsReachTheirSources`. `BalanceInv` says how far the dealing has come: for some r the cores before
`core_idx` have r + 1 queues and the others r; `QueuesShared` follows, for lists without a core twice. `ListsAsAssumed` is
about every way to list the queues of the cores that poll some: the list of an lcore enumerates its part of `m_rx_core_map`, and
the lists have no queue in common because `QueuesPolledOnce` holds. That such lists exist is part of the theorem.

Then about `InterfaceSetup`: every step of `SetupSpec` is a step of `QueueAssignment` or leaves its variables alone
(`SetupImplementsAssignment`), so what holds of `Spec` holds of `SetupSpec`. `SetupInv` adds the rest: while the constructor
runs nothing of the device is touched, the pools and
the receive queues are numbered from 0 without a gap, and all of them are there when the loops end; nothing is left on the NIC
once a flush has succeeded; and the names of the pools of a device used before stay taken, so that the GARP pool
at the latest is refused. They give `SendersSteered` and `DevicesSetUpOnce`.

`OpmonStatsProofs`: `PacketsPublishedOnce` needs what holds between a poll and its reset, when a
packet is in the hand of the monitoring and in the NIC at once, and it claims nothing once a call has failed; `FilledBeforePublished` needs that
`m_xstats_values` are written once `setup()` has filled them and stay so, and that a publication keeps what it copied; `RecordedBurstsCovered` needs
that the value the lcore loaded, which it will store over the exchange of the monitoring, covers the bursts recorded so far. `CrashesBeginBeforeStart` needs that the queue is entered once `start()` is over, and that a
publication that inserts began before that.

`SourceSetupProofs` (assumptions: the lists are lists of outputs, the null pointer is no model):
`ModelInv` (each source has the model of the last output `init` has seen with its id), `FlowInv` (with the flow on, `start` has been at
every source, found a model there, and set the flag of every callback source) and `GotInv`. They give
`FramesReachConfiguredSinks` and `CrashesHaveACause`.

`GarpSenderProofs` (assumptions: there is an address, and the ring takes a round): `RingInv` (while an
address is written the ring holds only addresses before it, and it is empty when a round begins, so the last address is in the ring only while the
thread sleeps) and `MbufInv` (what the mbuf holds at each place of the thread). `LastOneAnnounced` has `SleepDrains` as its premise.
`SingleAddressAnnounced` draws the line of the finding `garp_reuse`: with one address, and a ring drained between rounds, what was
violated there holds.

`NICSenderProofs` (assumptions: sizes are positive, the cores are among those with a transmit queue): the invariant says what
each mbuf of the array holds in terms of `batch_count` at each place of the lcore, and, as long as no call was short, which messages
were handed over how often. They give `MessagesHandedOverOnce`.

`CaptureSplitProofs` (assumptions: the files hold frames, arbitrary bytes show lengths of 16 bits): where a frame
starts is a recursive sum. Its equations, and that frames start one after the other, are proved from the definition of a function by
a least counterexample, as the provers cannot instantiate induction. `FoundInv` says that as long as
whole frames have been read `byte_index` is the start of the next one, where, and only where, its header is what the loop
reads. It gives `WholeFramesAreFound`. `ConstructedPacketsAreFound` puts writer and reader together: what `construct_packet` makes with a payload of up to
9956 bytes is a whole frame, 16-bit lengths included, and a capture of such packets is always split into exactly them.

Model-checked only: the liveness properties (`CommandsReturn`, `EveryFrameProcessed`, `PacketsPublished`, `StopEnds`,
`LaunchedEndsInTerminate`, `LastAddressAnnouncedAgain`), which the prover does not reach. Every other property of a passing run is a
theorem, `StoppedWhenDestroyed` for modules destroyed only when they are not running.

## Not modelled

* Contents of packets, formatting, logging, names of counters, configuration generators and schemas.
* Offloads, RSS, MTU and the numbers of descriptors of a device; the assembly of the EAL arguments.
* Payload sizes, the dump of a packet (`get_udp_packet_str`) and `CyclicDataGenerator`: sequential, and nothing in the repository calls
  the last two. The dump counts in a `uint8_t` to a 16-bit length (`src/udp/Utils.cpp:159`), the generator uses `strcpy` on an
  array it may have filled to the end (`src/CyclicDataGenerator.cpp:34`); both are known and unmodelled.
* The functions of `RTEIfaceSetup.hpp` that repeat those of `EALSetup.cpp`, which nothing calls.
* Undefined behaviour beyond its first effect: an mbuf freed twice by the driver, a read past the end of a capture that faults; a process that called a null pointer, destroyed a
  joinable thread or followed a wild pointer has ended in the models. Of a `std::map` damaged by two
  accesses at once `RxPath` says that nodes may be lost or the process end, and nothing finer.
* `generate_drop_flow` and `pktgen_process_arp`, which the reader does not call, and the test
  applications.

## Plan

What would come next, in this order:

1. For `CommandsReturn` and `StopEnds` what `PassesEnd` is for `EveryFrameProcessed`: measures that the steps of a command lower, as theorems.
2. That the maps `QueueAssignment` leaves give `RxPath` its `StreamMap` as well, with the streams of each queue.
3. The remaining utilities, as functions with reference definitions, if anything comes to call them.
