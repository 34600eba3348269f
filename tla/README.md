# Verification of radiostream-gnuradio

TLA+ models, TLC configurations and machine-checked proofs for the programs of
this repository: two GNU Radio blocks in C++ (`gr-custom_dpdk`) and the DPDK
bridge in C (`dpdk_bridge`) that stream a slotted radio link between a flowgraph
and an FPGA, and the Python programs that carry the documentation of the blocks
from the C++ headers into the Python bindings. Contents: [the system](#1-the-system),
[the modules](#2-the-modules), [the runs](#3-the-runs),
[fairness](#4-fairness), [bounds](#5-bounds), [proofs](#6-proofs),
[findings](#7-findings), [what is not modelled](#8-what-is-not-modelled),
[plan](#9-plan).

Paths: `sink.cc` is `src/gr-custom_dpdk/lib/dpdk_downlink_sink_impl.cc`,
`source.cc` is `src/gr-custom_dpdk/lib/dpdk_uplink_source_impl.cc`, `bridge.c`
is `src/dpdk_bridge/dpdk_slot_transmission.c`. The Python files are under
`src/gr-custom_dpdk/docs/doxygen/`.

## 1. The system

```
 flowgraph process                                bridge process            FPGA
 +----------------------------+                 +-----------------+
 | upstream blocks            |                 | main loop       |
 |   -> work() -> d_ring[8]   |  dl_data.sock   |  parse_slot_tick|  DL control
 |        dpdk_downlink_sink  |                 |   recv_frame_   |  DL data
 |      sender thread  -------+---------------->|   fast()        +---------->
 |                            |   (no answer)   |                 |
 |   <- work() <- d_ring[128] |  ul_data.sock   |  ul_data_to_    |  slot ticks
 |        dpdk_uplink_source  |                 |  socket,        |  UL data
 |      reader thread <-------+-----------------+  send_frame()   |<----------
 +----------------------------+                 +-----------------+
        |  constructors write                      ^ main() reads once
        +----------> /dev/shm/dpdk_*.conf ---------+
```

| Component | State | Operations | Talks to |
|---|---|---|---|
| Downlink sink (`sink.cc`) | ring of 8 slots, `d_write_idx`, `d_read_idx`, `d_ring_count`, `d_fill`, `d_running`, `d_connected`, a socket | constructor, `work()` (scheduler thread), `sender_loop()` (its own thread), `start()`, `stop()` | the bridge through `dl_data.sock`: sends a frame, waits for 4 bytes of acknowledgement |
| Uplink source (`source.cc`) | ring of 128 slots with lengths, indices, count, `d_drain_offset`, `d_running`, `d_connected`, a socket | constructor (`accept()`s the bridge), `work()`, `reader_loop()`, `start()`, `stop()` | the bridge through `ul_data.sock`: receives length and payload |
| Main loop of the bridge (`bridge.c`) | `init_state`, the current burst, `ul_control_tick_counter` | `slot_transmission_reception_loop()`, `parse_slot_tick()` | the NIC: bursts of packets in, control and data packets out |
| Downlink data of the bridge | `dl_data_from_socket`, `dl_mbufs` | `prepare_flush_dl_burst()`, `recv_frame_fast()` | the sink; called by the tick handler, which it blocks |
| Uplink data of the bridge | `ul_data_to_socket`, its offset | the UL branch of the loop, `send_frame()` | the source; called by the loop, which it blocks |
| Packet buffers | `mbuf_pool`, the receive and transmit rings, `rx_pkts`, `tx_pkts`, `dl_mbufs` | allocate, free, hand to the driver | the DPDK driver |
| Startup | three files in `/dev/shm`, two sockets | the constructors, `load_runtime_config()`, `main()` | both processes |
| Glue | none | GRC blocks, Python bindings, build | - |

The documentation is carried by four more parts, at build time:

```
 headers --> doxygen --> XML --> generated/ --> doxyindex.py --> update_pydoc.py scrape
               ^                 (one file)     (the directory)          |
 .py files ----+ doxypy.py                                        JSON of docstrings
               (filter)                                                  |
 templates of the bindings (..._pydoc_template.h) ------------> update_pydoc.py sub
```

| Component | State | Operations | Talks to |
|---|---|---|---|
| Reader and writer of doxygen's XML (`doxyxml/generated/`), with `text.py` | an object for each element, with a list or field for each kind of child, and `content_` for mixed content | `build()` and `buildChildren()` of 81 classes, each recursive; `export()`; `description_bit()` | a DOM below; `doxyindex.py` above |
| Filter for Python (`other/doxypy.py`) | a state of eight, `comment`, `defclass`, `indent`, the output | `parseLine()` and four callbacks; the end of `parseFile()` | doxygen reads Python through it (`FILTER_PATTERNS` in `Doxyfile.in`) |
| Objects of the XML directory (`doxyxml/base.py`, `doxyindex.py`) | `_parsed`, `_error`, `_members` of each object, `_members` of the index | parse on demand, `get_member()`, `in_category()`, `convert_mem()` | the reader below, `update_pydoc.py` above |
| Docstrings (`update_pydoc.py`) | the dictionary, the lists of blocks and make functions, a JSON file, the text of each template | `scrape` (a loop over blocks, new blocks, functions, classes), `sub` | the two programs meet in the JSON file |

What is hard here:

* **Two threads and no common lock.** `work()` and the socket thread of each
  block share the ring through atomics. `d_mutex` guards only the waits, and
  `notify_one()` is called without it.
* **A single-threaded bridge that blocks in both directions.** The thread that
  answers ticks every half millisecond also waits for a frame of the sink and for
  room in the socket to the source.
* **Processes that die separately.** Each side of each socket has another idea of
  when to reconnect: the sink always, the source never, the bridge never.
* **Packets that are lost.** A slot is put together from packets by counting bytes.
* **Buffers that change hands** between pool, driver and program.
* **Order at startup.** Files are written by constructors, one of which blocks until
  the process that reads the files has connected.
* **Recursion over mixed content.** A child is attached to its parent only after all
  that is below it has been built, and a paragraph keeps its content twice, by its
  class and by its subclass.
* **Buffers that a state machine fills and empties in different callbacks.**
  `closeComment()` of `doxypy.py` empties nothing; the next transition does, or not.
* **Parsing on demand, marked done before it starts.** `_parsed` is set first, so an
  object whose file raised is empty for whoever asks next.
* **Four loops that fill one dictionary**, and a substitution in which one bad
  docstring should cost one docstring.

What makes it correct, component by component:

* sink: frames on the socket are the slots of the input, in order and untorn; a
  committed slot is sent; `stop()` returns.
* source: the output is the concatenation of the frames received, zeros only between
  slots; what is received comes out; `stop()` returns; the threads keep out of each
  other's slots.
* downlink end to end: what reaches the NIC is a slot of the current run; no side
  waits for something the other never does.
* uplink end to end: the frames are the FPGA's slots; the bridge does not stay in
  `send()`.
* main loop: nothing goes out before SFN 0, slots are answered in order and once,
  headers are those of the slot two ahead, UL control comes at its period and with
  a DDR configuration, nothing stale is processed.
* buffers: one owner each, none lost.
* startup: the two processes find each other in any order, are never paired crosswise,
  and the bridge uses the configuration of its flowgraph.
* XML reader: each list holds the children of its element, once and in order; a
  description is the text of the document; what is written is read back.
* filter: no line is lost, doubled or moved but a docstring, and each docstring ends up
  above the definition whose header it follows.
* docstrings: everything that could be read is documented, a block keeps its joined
  docstring, a failure costs only what it must.

## 2. The modules

| Module | Models | How |
|---|---|---|
| `DownlinkSink` | `sink.cc` | Scheduler thread (`Work...`), sender thread (`Sender...`), control (`Start`, `Stop...`). One action per shared access: reading the predicate, going to sleep and being woken are separate, so notifications can be lost. The peer is open: any socket call may fail. |
| `UplinkSource` | `source.cc` | The same for the source: `Work...`, `Reader...`, `Start`, `Stop...`. A payload arrives byte by byte, so that a connection may break anywhere. |
| `SlotStream` | (abstract) | What a ring between a socket and a stream promises: a bounded queue of whole frames, read in order, forgotten by a restart. |
| `DownlinkLink` | `sink.cc` with `bridge.c` main, `recv_frame_fast()`, `prepare_flush_dl_burst()` | EXTENDS `DownlinkSink` and joins its socket steps with the bridge's: connect, backlog, accept, bytes in flight, a frame in pieces, buffers that cannot be allocated, the death of the bridge, reconnects. |
| `UplinkPath` | the UL branch of the loop, `send_frame()`, the source | Packets of the FPGA, their loss, gathering into a frame, blocking send, death and reconnect of the bridge, a `stop()` of the source that may wait for its reader. The ring of the source is `SlotStream` (an INSTANCE); `UplinkSource` shows that this is what it is. |
| `BridgeLoop` | the main loop and `parse_slot_tick()` | Residue of the warm-up, bursts, `init_state`, the UL control period, each packet sent, every early return. |
| `MbufPool` | the packet buffers | Every buffer and who owns it: pool (with multiplicity, so that a double free shows), receive ring, burst, control packet, `dl_mbufs`, transmit ring. |
| `Startup` | constructors, files, `main()` up to the loop | Flowgraphs and bridges numbered in the order they start, the steps of the constructors in either order, file open and close as separate steps, connect, backlog and accept. |
| `DoxygenSchema` | `compoundsuper.py`, `indexsuper.py`, `compound.py`, `index.py` | The generated classes as data: attributes, branches of `buildChildren()`, fields, where text goes, the form in which each child is written. The methods of the classes differ in nothing else. |
| `DoxygenBuild` | `build()`, `buildChildren()` | A document met node by node by a stack of active `build()` calls; a child is attached when its build returns. |
| `DoxygenText` | `text.py`, `export()` | EXTENDS `DoxygenBuild`: the text of a description, what is written for an object, and how that is read again. `Prose` names the classes that text is read by. |
| `Doxypy` | `doxypy.py` | The table of transitions, the four callbacks, one action per line; a line is the set of patterns that match it. |
| `Lists` | `in_category()` and other selections | What is taken from a list, as a recursive function that proofs can use. |
| `DoxyXml` | `base.py`, `doxyindex.py` | The directory of XML files, good, malformed or missing, as a tree of objects that parse when first asked. |
| `UpdatePydoc` | `update_pydoc.py` | EXTENDS `DoxyXml`: the loops of `scrape`, one action per object they take up, and `sub`, one action per template and docstring. |
| `MC...` | | Entry points of TLC; `MCBridgeLoop` has the schedule, `MCMbufPool` a symmetry, `MCDoxygenText` the classes, `MCUpdatePydoc` the directories of XML. |

Proofs are in modules of their own:

| Module | EXTENDS | About |
|---|---|---|
| `DownlinkProofs` | `DownlinkLink` | the sink: types, overwriting, order of delivery; the sink with the bridge: what goes to the NIC |
| `UplinkProofs` | `UplinkSource`, `UplinkPath` | the source: types, exclusion of the slots, order of the output, zeros only between slots, the source implements `SlotStream`; the path: order from the FPGA to `work()`, whole slots without loss |
| `BridgeLoopProofs` | `BridgeLoop` | order on the air, period of UL control from both sides, headers, DDR configuration |
| `BridgeProofs` | `MbufPool`, `Startup` | owners of the buffers, leaks; pairing, configuration |
| `DoxygenProofs` | `DoxygenText` | the recursive reader, what is written and read again, the text of descriptions |
| `DoxypyProofs` | `Doxypy` | the filter: lines, blocks, docstrings |
| `ListProofs` | `Lists` | induction over lists; what selecting from lists and joining them give |
| `UpdatePydocProofs` | `UpdatePydoc` | what stops the scrape, what is documented, joined docstrings, the templates |

How state and actions correspond to the code:

* Variables keep the names of the fields (`d_ring_count`, `init_state`, ...).
  A `..._pc` variable is the place of a thread in its function: `sender_pc` is
  `loop`, `pred`, `park`, `waiting`, `awake` (the parts of the wait in
  `sender_loop()`), `connect`, `send`, `ack`, `advance`.
* Bytes are known by their position in a stream (`Units`, `Bytes`). A slot that is
  torn, repeated, lost or out of order differs from the slot that it should be.
* Variables called "history" are not in the program; only properties read them.
* Failing calls are actions or disjuncts of actions of their own, counted by `faults`.
* A definition commented "A mutation" is not part of any next-state relation. It is a
  version of the definition below it with a plausible bug. Substituted for that
  definition, it makes a property fail, which shows that the property depends on it.

Abstractions worth knowing:

* Memory is sequentially consistent. The fields are `std::atomic` with the default
  order, or are handed over through one that is.
* `work()` copies a chunk in one step. The slot it copies into and the moment at
  which it checks for room are as in the code.
* In `DownlinkLink` the bridge reads what the socket holds unit by unit, so
  `MSG_WAITALL` may be cut short anywhere. In `UplinkPath` the socket holds whole
  frames; the cut is in `UplinkSource`.
* `BridgeLoop` numbers slots from the start of the FPGA's counters; SFN and slot are
  computed from it, with the wrap. The UL payload is in `UplinkPath`, the socket
  below `recv_frame_fast()` in `DownlinkLink`.
* In `DoxygenBuild` a document may start at any class, since `build()` treats an object
  the same wherever it stands; a few nodes then reach every class and every branch.
  A value is the node it was read from.
* In `Doxypy` a line is its number and the patterns that match it. Every combination
  that a line can have is a shape (`Shapes`, 31 of them): what a line begins with and
  what it ends with do not exclude each other, as in `def f(): """doc"""`, which is a
  definition and ends a docstring, or `# Note:`, which is a comment and ends a header.
* The ring of the NIC holds at the start of `BridgeLoop` what the warm-up of `main()` left
  in it: all up to the latest tick, or, if it is full, the oldest packets, with a gap
  between the last of these and the current tick.
* In `UpdatePydoc` a docstring is the objects whose descriptions it joins. Two texts
  are odd: one that starts with a digit and one with a closing parenthesis.
* The FPGA, the NIC and its driver, the condition variables and the death of a
  process are external. They are modelled by what the code relies on: a ring that
  drops when full, a transmit call that may take nothing, spurious wakeups.

## 3. The runs

One run for each component, with its invariants and temporal properties together.

| Run | Question | Answer |
|---|---|---|
| `DownlinkSink` | Does the ring of the sink stay in its bounds, does it deliver in order, does a frame get out, does `stop()` return? | It delivers in order unless `work()` has copied into a full ring (`FifoUnlessOverrun`), which is also the only way to touch the sender's slot (`OverwriteOnlyWhenFull`). Frames get out over failures (`TransmissionCompletes`), a commit wakes the sender, if the notification does not fall between predicate and wait (`CommitWakesSender`), and `stop()` returns under the same condition (`StopReturns`). The first and the last except a sender that waits for ever for an acknowledgement (`Unanswered`). |
| `UplinkSource` | Is the source a bounded queue of frames, does what came in come out, does `stop()` return? | Yes: `ImplementsSlotStream`, with the stream properties that a reader of the code would ask for (`OutIsPrefix`, `PaddingBetweenSlots`, `SlotExclusion`), and `AcceptedComesOut`. `StopReturns` except for a reader blocked in `recv()` or between predicate and wait. |
| `DownlinkLink` | Can the NIC be given a torn or stale slot? Does a slot get there? | Never a torn or stale one, over deaths, reconnects and restarts (`BurstsAreTheSlot`). A slot sent to a bridge that hears it arrives (`SlotReachesNic`), unless this bridge cannot allocate its buffers and drops the frame. |
| `UplinkPath` | Are frames slots? Is the bridge stuck in `send_frame()`? | Slots, as long as no packet is lost (`LossFreeFrames`); order is kept always (`OutInOrder`). The bridge is stuck only when the source has ceased to read (`SendReturns`), and what was sent comes out (`SentComesOut`). |
| `BridgeLoop` | What goes to the FPGA, for which slots and how often? | Nothing before SFN 0, then slots in order and once (`AirInOrder`); the headers of the slot two ahead (`HeadersTwoAhead`); UL control at its period, not sooner (`UlControlSpacing`) and not later than the ticks lost make it (`UlControlNotLate`); with its DDR configuration unless something fails (`DdrUnlessFaults`). The initialization ends at the first SFN 0 if no tick is missed (`InitCompletes`). |
| `MbufPool` | Does every buffer have one owner? | Up to the second DL slot (`OneOwner`), and only the clearing loses buffers (`LeaksOnlyWhileClearing`). |
| `Startup` | Are processes paired crosswise, is the configuration that of the peer, do they find each other? | Never crosswise (`OneFlowgraph`). The UL frequency is right if the bridge was launched while its flowgraph listened, the schedule and the DL frequency if, besides, the sink was constructed before the source (`ConfigIsPeers`). They find each other in every order (`StartCompletes`). |
| `DoxygenText` | Does the recursive reader put every child where it belongs? Does a description keep its text? Does a document survive being written? | Yes, for every class (`ListsAreTheChildren`); the text is complete and in order but for what the classes do not know, CDATA and parameter lists (`DescriptionIsTheText`); the structure is read back as it was (`RereadGivesTheSame`). |
| `Doxypy` | Does the filter lose, double or misplace a line? | No line is dropped or doubled while it is read (`EachLineOnce`), a comment block stands above the definition whose header its docstring follows (`DocstringAtItsDefinition`), and a docstring that follows the header of a definition, of one line or of several, is found whole (`DocstringsAreFound`). |
| `UpdatePydoc` | What is documented, what stops the scrape, what does a failed substitution cost? | All that could be read (`DocumentedWhenWritten`), a block with its joined docstring (`BlockDocsSurvive`); the scrape stops for the reasons listed in `StopsForAReason` only; a failed docstring costs itself (`TemplatesFilled`). |

Two more runs, `DownlinkLink_SendIsAnswered` and `MbufPool_DlMbufsExclusive`, check one
property each, which TLC refutes: what a comment of the code says and the code does not
do. They are in [findings](#7-findings).

`DownlinkSink` and `UplinkSource` check their type invariants. For `BridgeLoop` and
`Startup` they are `LoopTypeOK` and `StartTypeOK`, proved as parts of `LoopInv` and
`StartInv`. The other modules have none: the comments at their variables say what the
variables hold, and the properties would fail, or TLC stop, on anything else.

## 4. Fairness

Weak fairness of threads that the operating system schedules, and nothing more:

* `DownlinkSink`: the sender thread, `work()` once it is called, and the steps of
  `stop()`. Calls of `work()`, `start()` and `stop()` themselves are not fair.
  Neither is `RecvAck`: `recv()` of the acknowledgement has no timeout, and the only
  peer in the repository never answers (`bridge.c:468-480`, commented out). What is
  fair of the peer is that it listens and reads in the end. Faults are bounded by
  `MaxFaults`; a peer that fails for ever is not expected to get a frame.
* `UplinkSource`: reader, `work()` and the steps of `stop()`. Here calls of `work()`
  are fair, because the scheduler of GNU Radio calls a source again and again. The
  peer need not send: the receipt of a header is not fair, the rest of a frame is.
* `DownlinkLink`: the same threads, and the bridge's loop including ticks, because the
  FPGA's clock does not stop. Deaths, `stop()` and calls of `work()` are not fair.
* `UplinkPath`: bridge, reader and `work()`; a reader that is being joined goes on when
  `recv()` has something to return. The FPGA need not send.
* `BridgeLoop`: the bridge spins on a core of its own, and the FPGA ticks. The
  arrival of a DL frame is not fair: the flowgraph may produce nothing.
* `Startup`: the steps of both processes and the sink's reconnection, and a
  first launch of the bridge. Deaths are not fair.

The Python programs run from beginning to end in one thread: their modules have safety
properties only and no fairness.

No condition is strongly fair.

## 5. Bounds

Each bound is a constant with a comment in its module and a guard in an action. Where
a number of states is given, they are distinct states.

| Module | Values | Why they are enough |
|---|---|---|
| `DownlinkSink` | ring of 2, slots of 2 units, calls up to 3 units, 8 units, 2 faults | The ring wraps twice and fills; a call ends inside a slot, at its end and across it; every socket call fails in every place, twice in all. |
| `UplinkSource` | ring of 2, slots of 4 bytes, items of 2, frames of 2, 4 and 6 bytes, calls up to 3 items, 12 bytes | Frames shorter than the slot, as long, and refused; the ring fills and wraps; calls drain parts, one or more than one slot. |
| `DownlinkLink` | as the sink with calls up to 2 and 6 units and 3 faults, a wire of 1 unit, 3 connections, 1 death, backlog of 2 (`listen(fd, 1)` queues two on Linux); 579 thousand states | A frame is in the sender, on the wire and in the bridge at once; a connection can be stale, queued and accepted at once. The run that is refuted has 4 units and 2 faults. |
| `UplinkPath` | slots of 3 units in packets of 2 and 1, slot capacity 3, rings of 2, 4 slots, 1 loss, 1 death, socket of 1 frame; 17 thousand states | Short last packet, as in the code (983040 is no multiple of 8896); every buffer fills; after a loss there are slots enough for the shift to show. |
| `BridgeLoop` | 4 slots, 2 SFNs, a schedule with every kind of slot, period 4, bursts of 2, a ring of 3, a residue of up to 3 packets with ticks of slots from 9 on, slots 13 to 24, 1 UL packet, 1 fault; 871 thousand states | Full and short bursts; a residue that is all there is, or the oldest part of it; a wrap of the counters at slot 16 and one at 24; the ring overflows; nearly three periods. No slot from 9 to 12 has both counters zero, so that `AfterSfnZero` needs to look no further back. The code has 20 slots, 1024 SFNs, a period of 10000, bursts of 64. |
| `MbufPool` | 6 buffers, 3 descriptors, bursts of 2, 2 DL buffers, 2 DL slots; 17 thousand states up to symmetry | The pool runs dry; the second DL slot is the first one that reuses buffers. |
| `Startup` | 3 flowgraphs, 2 bridges, 1 file that cannot be written, the same backlog; 63 thousand states | Each process outlives the other, and stale files and stale connections meet a new peer. |
| `DoxygenText` | documents of 4 nodes from each of 44 classes; 394 thousand states | An element in an element in an element, or three siblings of any kinds: text before, in and after an element, a list and a field given twice, a child unknown, every branch of every class. |
| `Doxypy` | files of 4 lines, each of all 31 shapes; 1.91 million states | A header of two lines and a docstring of two, or a header, a docstring and a line that ends what came before; every pair of transitions follows each other from every state. The theorems are about files of any length. |
| `UpdatePydoc` | 4 compounds (a class that may be a block of either style, a class or something else, a file, a namespace or second file), at most one bad file, 2 templates; 31104 directories, 295 thousand states | Every loop meets every kind of object, a bad file in each place, duplicates, friends, overloads, a key that two templates share. |

Deadlock is not checked where a bound, or a blocked thread that the model is meant to
show, ends a behaviour; the temporal properties say what must not stop.

## 6. Proofs

TLAPS proves, for **every** value of the constants that satisfies the assumptions of the
modules:

| Theorem | Statement |
|---|---|
| `DownlinkProofs!TypeCorrect` | `Spec => []TypeOK` |
| `DownlinkProofs!OverwriteNeedsFullRing` | `Spec => []OverwriteOnlyWhenFull` |
| `DownlinkProofs!DeliveredInOrder` | `Spec => []FifoUnlessOverrun` |
| `DownlinkProofs!LinkIsASink` | `LinkSpec => Spec` |
| `DownlinkProofs!NicGetsTheSlot` | `LinkSpec => []BurstsAreTheSlot` |
| `UplinkProofs!TypeCorrect` | `Spec => []TypeOK` |
| `UplinkProofs!SlotsExclusive` | `Spec => []SlotExclusion` |
| `UplinkProofs!ProducedInOrder` | `Spec => []OutIsPrefix` |
| `UplinkProofs!PaddingIsBetweenSlots` | `FramesAreItems /\ Spec => []PaddingBetweenSlots` |
| `UplinkProofs!SourceImplementsStream` | `Spec => ImplementsSlotStream` |
| `UplinkProofs!UnitsComeOutInOrder` | `PathSpec => []OutInOrder` |
| `UplinkProofs!SlotsArriveWhole` | `PathSpec => []LossFreeFrames`, if `SlotUnits <= SlotCapacity` |
| `BridgeLoopProofs!AirIsInOrder` | `LoopSpec => []AirInOrder` |
| `BridgeLoopProofs!UlControlIsSpaced` | `LoopSpec => []UlControlSpacing` |
| `BridgeLoopProofs!UlControlInTime` | `LoopSpec => []UlControlNotLate`, if `SomeUl` and `MaxResidue < UlControlPeriod` |
| `BridgeLoopProofs!HeadersAreTwoAhead` | `LoopSpec => []HeadersTwoAhead` |
| `BridgeLoopProofs!DdrIsConfigured` | `LoopSpec => []DdrUnlessFaults` |
| `BridgeProofs!BuffersHaveOneOwner` | `MbufSpec => []OneOwner` |
| `BridgeProofs!OnlyClearingLeaks` | `MbufSpec => LeaksOnlyWhileClearing` |
| `BridgeProofs!BridgeServesOne` | `StartSpec => []OneFlowgraph` |
| `BridgeProofs!ConfigIsOfPeer` | `StartSpec => []ConfigIsPeers` |
| `DoxygenProofs!ListsHoldTheChildren` | `Spec => []ListsAreTheChildren` |
| `DoxygenProofs!WrittenIsReadAgain` | `Spec => []RereadGivesTheSame` |
| `DoxygenProofs!DescriptionsAreTheText` | `Spec => []DescriptionIsTheText` |
| `DoxypyProofs!EachLineIsOutOnce` | `Spec => []EachLineOnce` |
| `DoxypyProofs!DocstringsAreInPlace` | `Spec => []DocstringAtItsDefinition` |
| `DoxypyProofs!NoDocstringIsMissed` | `Spec => []DocstringsAreFound` |
| `UpdatePydocProofs!ScrapeStopsForAReason` | `Spec => []StopsForAReason` |
| `UpdatePydocProofs!ScrapeDocuments` | `Spec => []DocumentedWhenWritten` |
| `UpdatePydocProofs!JoinedDocsSurvive` | `Spec => BlockDocsSurvive` |
| `UpdatePydocProofs!SubFillsTemplates` | `Spec => []TemplatesFilled` |

The assumptions are the `ASSUME`s of the modules: sizes are positive, bounds are
naturals, a residue fits the ring and does not reach back before `FirstTick`, the SFN
fits its 16 bits; of the classes of the XML reader, that every class named in a branch
exists, and that a field of a class is assigned by all its branches or appended to by
all (`SchemaAssumption`). TLC finds this and the following true of the schema read from
the code and of the directories and templates of the runs:

* `WritingAssumption`: a generated class is one of three kinds. A class of text has the
  lists `valueOf_` and `content_` and no branches, and `content_` takes no CDATA section
  or comment; a class of mixed content has `content_` only; any other class takes no
  text and has a list of its own for each branch.
* `ProseAssumption`: what a description consists of. Each class of `Prose` puts all its
  text and all its elements, but for those of `Lost`, into the list that
  `description_bit()` goes over, and those elements have classes of `Prose` again, by
  their subclass. Comments do not go there.
* `DirectoryAssumption`: what doxygen writes. The index names files, which may be
  missing or malformed; kinds of members are not kinds of compounds.
* `NamesAssumption`: the dictionary of docstrings has names for keys, and so cannot tell
  two things of one name apart. No two classes have one name, or names for which
  `make_name` gives the same; no function of a header or a namespace has the name of a
  class, and its namespace has not either. A directory that breaks this loses one
  docstring of the two.
* `TemplatesAssumption`: a template defines a variable once.

Three theorems have premises besides:

* `PaddingIsBetweenSlots`: the frames of the peer hold whole items. The frames of this
  bridge do; a slot with an odd byte left would be broken off in the middle, call after
  call.
* `SlotsArriveWhole`: the source has room for the slots that the bridge sends. With the
  default of its GRC block it has not, and the first frame is refused (see
  [findings](#7-findings)).
* `UlControlInTime`: the schedule has a UL slot, without which UL control is not sent at
  all, and the ticks that wait when the bridge begins are fewer than a period. They are,
  since they were in the receive ring (4096 descriptors, `bridge.c:76`, against a period
  of 10000, `bridge.c:642`).

**Bounds and exclusion of the rings.** Neither type correctness nor the exclusion of the
slots is inductive. That `d_ring_count` stays below `RingSize + 1` needs that the reader
has room where it raises the count; that the two threads have different slots needs that
the indices differ by the count. The strengthening `IInv` is the type invariant and:

* `RingAgrees`: `d_write_idx` is as many slots ahead of `d_read_idx` as are
  committed, modulo the ring. The reader of the source moves the index one step
  before the count; `Between` makes up for it.
* `ReaderHasRoom`, `WorkHasSlot` (source), `SenderHasSlot` (sink): a thread that has
  seen room, or a slot, keeps it, since only it takes it away. This is why the
  checks of the code may be made without a lock.
* `OffsetInSlot`, `FrameFits`, `SenderFrame`, `CallFits`, `InputLeft`: how far a frame,
  a slot or a call has come.
* `StoppedIsDone`: `start()` meets no thread of the last run.

`Invariance` (`Spec => []IInv`) is proved from one lemma for the initial states and
one for each group of actions, with a step for every action. From `RingAgrees`, two
equal indices mean an empty or a full ring, and the conditions on the count leave
none (source) or only the full one (sink).

**Contents of the sink's ring.** Order of delivery says nothing of what is still in the
ring. `FifoInv`, which is claimed only as long as nothing was overrun, says where each
unit of the input is: the slot at distance *j* from `d_read_idx` is the *j*-th slot
not yet released (`CommittedAreInput`), the start of the slot being filled is what comes
next (`FilledIsInput`), the sender's frame is the first slot (`FrameIsInput`), and the
counts add up to what was taken (`UnitsAccounted`). `Released` and `Filled` adjust for
the points between two assignments at which an index and its count disagree.

**The sink with the bridge.** Every step of `DownlinkLink` is a step that `DownlinkSink`
allows its unknown peer, or leaves the sink alone (`LinkStepIsSinkStep`), so `FifoInv`
holds in the link. `LinkInv` adds the way from the sink to the NIC: what is on a wire
belongs to the sink's current connection and the bridge at its end is alive
(`WireIsSinks`); what the bridge has read and what is on the wire are together what the
sink has sent of its frame, or all of that was handed over (`FrameInFlight`). A slot is
complete only where its connection lived from its first byte to its last, which is why
neither a death nor a reconnect mixes two.

**Contents of the source's ring.** `StreamInv` says the same of the accepted frames:
there is a map from slots in the ring to places in the accepted bytes (`SlotsAreAccepted`),
a frame that is complete and not committed is in the reader's slot (`FrameIsKept`), a
slot being freed is drained (`FreeIsDrained`). Order of the output follows. `PadInv`
adds that lengths and offsets are whole items, that a slot in the ring is not yet drained
to its end, and that `work()` looks for another slot only if the call needs more; so
zeros are written at the end of a slot or not at all.

**Refinement.** Every initial state of the source maps to an initial state of
`SlotStream` (`InitMaps`), and, with the two invariants, every step to a step of it
or to none (`ControlMaps`, `ReaderMaps`, `WorkMaps`): the queue gains a frame when the
count is raised, loses bytes when a piece is drained, loses a frame when its last byte is
drained (the freeing of the slot, later, is a stutter: `First`), and is empty after
`start()`.

**The uplink.** What is between the FPGA and the output is a sequence of pieces: the
output, the frames in the ring, those in the socket, the frame being gathered, the packets
in the ring of the NIC. `UnitsInOrder` says that there are five positions between which
each of these is in order; a loss or a death removes a piece and a later position stands
in for an earlier one. Without loss the pieces have no gaps: `NoLoss` says where the
gathered frame ends and that the packets go on from there to the next unit of the FPGA.
Both are chains of pieces (`Chain`), and the steps of the path move a piece from the front
of one chain to the end of the other: lemmas about chains, with nothing of the program
in them.

**The main loop.** `AirInOrder` and `UlControlSpacing` relate packets sent to ticks that
are still in the burst or in the ring. `LoopInv` says: the ticks not yet processed are
in order and before `now` (`TicksOrdered`); everything sent is for an earlier tick than
those that wait, or is an earlier packet for the tick being handled (`AirBehind`); an
uncounted tick is more slots after each UL control packet than
`ul_control_tick_counter` has counted since (`UlControlAgo`), so that the period is over
where the packet is sent (`PeriodOver`); once the bridge runs, a slot with both counters
zero lies before all ticks that wait, and before all that was sent (`ZeroSeen`,
`AfterSfnZero`). The first four are one predicate of sequences (`OrderInv`), so that
taking a burst, processing a packet and sending are each one lemma about sequences, with
nothing of the handler in it.

What the packets contain is a second invariant, `ContentsInv`: a header is computed from
the tick of its packet (`HeadersInv`), and UL control that was sent has its DDR
configuration or the handler is about to send the DL control that brings it (`DdrInv`).
`CountersTwoOn` is the arithmetic of the header: SFN and slot of the slot two on, with the
carry, for any number of slots in a frame.

That UL control comes in time (`UlControlNotLate`) says that a counter stays below a
bound, which no step keeps by itself: it may go on only if it is known which slots were
counted. `GapInv`: as long as no tick is missed, there is a slot `next` such that all
from there on wait and are not counted, the counter is not further than the slots before
it, and if it is beyond the period, then the slots since were all without UL
(`CountedTo`). A stretch of slots without UL is at most `UlGap` long (by the least
element of a set of naturals). The residue of the warm-up is counted too, before the
first slot: hence the premise on its length.

**Buffers.** `OneOwner` counts the entries that a buffer has over all places it may be
in. Instead of an invariant on the counts, each step is shown to keep them
(`OwnersKept`): up to the second slot of DL data no buffer gains an owner, and after the
clearing none loses its last one. `PoolInv` has what these need: a place that is in use
only in some states of the loop is empty in the others (`HeldWhereUsed`), and in the
first slot of DL data the buffers written are those just allocated
(`FirstBurstAllocates`), which is what ceases to be so in the second.

**Startup.** Who is paired with whom rests on what is queued where. `StartInv`:
the files hold what the constructors that have run wrote (`FilesInv`); a bridge launched
for the current flowgraph was so while its source listened, hence after the files that
are written before that (`LaunchInv`); what `main()` of that bridge has loaded of those
files is this flowgraph's (`ConfigInv`); a flowgraph that is past its accept, or has a
connection queued, is the peer of the running bridge, and only such a one reaches the
bridge's socket (`PeerInv`). The order of the constructors is a
constant sequence of step names; `SourceFirst` and `SinkFirst` compute the place of each
step, and the rest of the proof compares places only.

**The XML reader.** That the lists are the children is the part `HeldFits` of `BuildInv`;
it is inductive with `Tree` and `Nesting`. The hard case is the end of an element, which
goes to the end of a list of its parent, behind all that is there already: no later child
of that parent has been met. `Nesting` says why: whatever was met after an element
whose build is active is below that element or deeper (`LastChild`). The classes enter by
`SchemaAssumption` only, so that the theorem holds of every schema and not only of the
one read from the code, and the nodes of a document are any number.

**What is written and read again.** `RereadGivesTheSame` says nothing of how objects
came about, but needs it: an object's lists hold what its class puts there (`HeldFits`),
and without the subclasses its class is one that a document can name (`ObjectClasses`,
part of `TextInv`). What is written is then read by cases on `WritingAssumption`. In a
class of text, the text that went to `content_` is selected from the quoted text, and
both are in document order, which makes lists with the same items equal
(`IncreasingIsUnique`). In mixed content every entry goes back. Field by field, the
entries of one branch are those that its tag selects of all (`SelectOfFlatten`).

**Descriptions.** `description_bit()` and `Above` are recursive over the tree. Each is
shown to be defined, that is, to satisfy its equation, by building it up one node at a time:
`description_bit` from the last node back, since what an object holds comes later in the
document (`BitSteps`), `Above` from the first node on (`AboveSteps`). With `Preorder`, all that
is below a child comes before the next child (`ChildrenApart`). `BitFits` is then
proved of every node that may be read as text, from the last node back: its text is in
order, since the texts of its children are and lie apart (`FlattenIncreasing`); it is text of
that node or below; and it is all of it where nothing odd is below. That a subclass
keeps its text in `content` and another class in `content_` enters by `ProseContents` only.

**Lists.** The induction theorems of the library take an operator, which the provers
cannot instantiate, but its theorem of the least element takes a set. `Positions` gets
from it an induction over the positions of a list, for a set of positions that are done, and
`Iteration` the existence of a function defined step by step. Selecting from a list
(`SelectFacts`, `SelectConcat`) and joining lists (`FlattenRange`) rest on these two.

**The docstrings.** Both programs of `update_pydoc.py` are loops over lists that were fixed when
the loop began, while the tree that they look into goes on being parsed. `Types` says which
objects can be in each list, and `OfIndex` and `OfFiles` that the tree holds nothing
but what the directory has. The rest:

* `StopInv`: what was found to be a block still is one when its turn comes (`BlocksFit`), so that
  the loop of the blocks can fail only over what the property lists. The lemmas about `Parse`
  and `get_member()` say which objects each call can raise for.
* `DocInv`: what each loop leaves behind. `AllParsed`: after the search for blocks every
  class has been parsed, so a class is known to be malformed from there on. `LoopsDone`:
  what a loop has to do is in `todo` or done. `MakeFuncsDone`: a function taken out of the
  later loops, since it is the make function of a block, was documented with its block.
  `Sources`: an entry under the name of a class is of that class, so none is of a
  malformed one. A joined docstring is under a name that no later loop has an item for
  (`JoinedNames`, `TodoIsOther`), and so is never written over.
* `SubInv`: a variable is filled with a docstring of its own, or those for it that can be
  substituted are in `todo`. What failed is no longer in `todo`, and was not one of them.

**The filter.** `doxypy.py` takes the first row of its table whose state and pattern fit. `Rows`
writes the table out, and the lemmas `From...` find, for each state and every shape of a
line, the rows that can be the first to fit; so a step of `parseLine()` is one of seven kinds
(`Callbacks`). What a closed buffer adds to the output is one predicate (`Closes`). The
invariant `DoxypyInv` says:

* `Buffers`: which buffers are in use in which state, and that the indentation is that of the
  definition that waits. The findings rest on this: no callback empties a buffer that it
  closes, and the next one must, before anything is appended.
* `LinesOnce`: what is out and what waits are disjoint and are all lines; in the body of a
  definition, where both buffers hold lines that are already out, all is out.
* `CodeFirst`, `Ordered`: code that waits comes after code that is out.
* `HeadFirst`, `BlocksAt`: the docstring of the file comes before all definitions, every
  other one immediately above one.
* `BlocksBelow`: the definition below a block is the one whose header the docstring
  follows in the file. `HeaderOf` says where a header ends: with the line itself if that
  matches `defclass`, otherwise with the first later line that ends in a colon. A line of a
  docstring that is out has only empty lines and lines of the same block between itself
  and that end.
* `HeaderSettled`: what is known of the definition that waits, by state. Its header is open
  (`OpenAt`), or has ended and only empty lines followed (`Alone`), or the docstring that
  follows is all in the buffer (`Gathered`); any other definition in the buffer stands
  inside that header.
* `CodeSettled`: a definition that is out has its docstring above it or has none
  (`Settled`), unless it was taken for a line of an earlier header that is out (`Held`), or
  the file ended before anything but empty lines followed.

What a file says of its first lines does not change when a line is added (`Longer`), so
each of these is kept for what is out, and the seven kinds of steps have to say only what
they add.

Only model-checked is all liveness (`TransmissionCompletes`, `CommitWakesSender`,
`StopReturns`, `AcceptedComesOut`, `SlotReachesNic`, `SendReturns`, `SentComesOut`,
`InitCompletes`, `StartCompletes`): fairness and `ENABLED` are out of the prover's reach.
Every invariant and every action property of a passing run is proved.

No module is recursive by a `RECURSIVE` operator.

## 7. Findings

Refuted by a run:

| Run | What happens |
|---|---|
| `DownlinkLink_SendIsAnswered` | The sink waits for an acknowledgement; the bridge never writes one. One frame is delivered, then the sender, and `stop()`, hang (`sink.cc:140`, comment at 130). |
| `MbufPool_DlMbufsExclusive` | From the second DL slot on, the buffers written belong to the driver or the pool (`bridge.c:559`, comment at 634). |

Seen while modelling, each visible as the exception that a passing property makes, or as
what a property does not ask:

| Exception in | What happens |
|---|---|
| `FifoUnlessOverrun` | `work()` copies before it waits for room: a full ring corrupts the oldest slot, which may be on its way (`sink.cc:246`, comment at 252). |
| `StopReturns`, `TransmissionCompletes` of the sink | `recv()` of the acknowledgement has no timeout (`sink.cc:140`) and is not ended by `stop()`, which closes the socket after `join()` (`sink.cc:219`): with a peer that never answers, such as this bridge, neither a retransmission nor the end of `stop()` comes. |
| `SlotReachesNic` | If the first allocation of `dl_mbufs` fails, a frame that was read is dropped (`bridge.c:545`), and the return is ignored (`bridge.c:868`). The sink waits for its answer and does not send it again. |
| `CommitWakesSender`, `StopReturns` | `notify_one()` without `d_mutex` between predicate and wait is lost (`sink.cc:217` and 261, `source.cc:217`). |
| `AcceptedComesOut` | After one error nothing sets `d_connected` again (`source.cc:184`, "will retry"): the property asks only for what was accepted before. |
| `StopReturns` of the source | `stop()` joins the reader before it closes the socket the reader is blocked in (`source.cc:220`). |
| `LossFreeFrames` | After one lost packet every later frame mixes two slots, and one may be too long for the source (`bridge.c:1037`). |
| `SendReturns` | A source that refuses a frame keeps the socket open and unread. The default `bytes_per_slot` of its GRC block, 245760, is a quarter of what the bridge sends for a slot, so the first frame is refused. |
| `AirInOrder` | The last, short burst of the residue is processed as if it were fresh (`bridge.c:934`); the property shows that nothing is sent for it before SFN 0. |
| `DdrUnlessFaults` | A slot in both directions stays without DDR configuration when its DL control packet fails (`bridge.c:786`). |
| `LeaksOnlyWhileClearing` | The clearing returns without freeing its burst (`bridge.c:936`). |
| `HeadersTwoAhead` | The SFN of a header does not wrap in the last two slots of the last frame (`bridge.c:710`). |
| `ConfigIsPeers` | With the source constructed first, the bridge reads the schedule before the sink writes it (`source.cc:63`). |
| `StartCompletes` | A schedule that is opened and not written yet ends the bridge; a frequency without a number is passed over (`bridge.c:288`), though the comment at 253 calls malformed configuration fatal. |
| `UlControlNotLate` | The period is 10000 ticks, its comment says 1000 (`bridge.c:642`). |
| `DescriptionIsTheText` | A paragraph with a parameter list or a `simplesect` gives a description without it, CDATA sections are left out where the subclass keeps the list, and an element the classes do not know is skipped with all that is in it. |
| `RereadGivesTheSame` | The structure only. The title of a compound is written as Python's description of an object, and strings that are encoded first are written as `b'...'` by Python 3, so values change with each round. |
| `EachLineOnce` | Lines that wait in a buffer at the end of the file are written only from the state `DEFCLASS` (`doxypy.py:402`): a file that ends inside the header of a definition, or in an unterminated docstring, or has only a docstring, loses them. |
| `DocstringsAreFound` | A docstring whose closing quotes are followed by text on their line is not seen to close. |
| `DocstringAtItsDefinition`, `DocstringsAreFound` | The end of a header is the first line that ends in a colon. A comment behind the colon keeps it open (`doxypy.py:196`): for the lines `def f(a,`, `b):  # c`, `def g():` and a docstring, all three are one header, and the docstring of `g` goes above `f`. |
| `StopsForAReason` | A malformed header or namespace stops the scrape, since it uses what it failed to read before it looks at `_error`; a malformed class is left out, as the code intends. A kind of compound that no class knows stops it too: `convert_mem()` swallows the exception, and the loop calls `get_cls()` again. |
| `DocumentedWhenWritten` | Overloads are one entry: a member whose name was met is dropped. |
| `TemplatesFilled` | A docstring that starts with a digit fails: it follows `\1` in the replacement (`update_pydoc.py:311`). |

The findings say only that code and text, or two programs, disagree; what the FPGA
depends on is not in the repository.

## 8. What is not modelled

* Frequency words (`mhz_to_word()`, `nco_freq_list`, `freq_idx`): floating-point
  rounding of a value that only passes from a file into a header; `freq_word` is not used.
* `port_init()`, `setup_socket_buffers()`, statistics, printing: configuration and
  output.
* The latency log: it feeds nothing back. `log_dump()` is not reached, because
  `signal_handler()`, which alone clears `running`, is never installed.
* Failing `socket()`, `bind()`, `listen()` and `accept()` in `setup_server()` and
  `main()`: the process exits or, in the source, stays unconnected, which is an initial
  state of `UplinkSource`.
* The limits of `recv_frame_fast()` and of `dl_mbufs` (10 MB against a buffer of 7.9 MB
  and 200 packets): the sink sends slots of one configured size, and whether that fits
  does not depend on the order of events.
* What the FPGA does with a packet, such as a header with SFN 1024 after the wrap.
* Of the generated classes, 37 that no branch of any class builds, `exportLiteral()`,
  which only the unused `parseLiteral()` calls and which raises for mixed content, and the accessors.
* Of `doxypy.py`, the option `--autobrief` and `parse()`, which nothing calls.
* Of `doxyindex.py` and `update_pydoc.py`, groups, parameters and their formatting,
  names with `operator` and names with `::` in lookups, `--filter`, the operation
  `copy`, an interrupt from the keyboard, and docstrings that start with two digits.
* GRC files and Python bindings (no state), build files, `header_utils.py`, and vendored
  files.

## 9. Plan

Done, in this order: the two rings with the abstract `SlotStream`; the rings composed
with the sockets and the bridge; the bridge by itself and the meeting of the
processes; the documentation programs; the proofs about the contents of the rings and
the refinement; the proofs about the main loop and startup; the proofs about the link,
the uplink, the buffers, the filter and the XML reader; the proofs about lists,
descriptions, what is written and read again, and docstrings.

What is left:

1. `BridgeLoop` composed with `DownlinkLink` and a clock: ticks that queue while the
   handler waits for the sink, and the age of a tick when it is answered. And the
   loopback flowgraph, in which a full ring of the sink blocks the source, the bridge in
   `send()`, and so the ticks that would drain the sink. Both need a smaller model of
   the rings than `DownlinkSink` and `UplinkSource`; `SlotStream` is one for the source,
   the sink has none yet, because of the overrun.
2. Failing calls of `setup_server()` and the limits of `recv_frame_fast()`.
