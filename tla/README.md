# vdr-plugin-dvbapi: TLA+ models, checks and proofs

vdr-plugin-dvbapi is a plugin of VDR (a video recorder) that pretends to be a
CAM: it passes the ECMs of scrambled services to OSCam over a TCP connection,
receives control words (CWs) from it and decrypts the TS packets.  This
directory holds TLA+ models of the parts of it that are hard to test, TLC
configurations that check them on small instances, and TLAPS proofs of what
matters most for instances of any size.

    tlc -config OscamLinkCheck.cfg MCOscamLink.tla
    tlapm OscamLinkProofs.tla

## 1. The system

### Threads

| thread | code | what it does |
| --- | --- | --- |
| socket thread | `SocketHandler::Action` | connects to OSCam, reads its messages: sets filters, control words, the pid map; after a connect sends the client info and the service list; closes the connection |
| CI thread, one per VDR CI adapter | `SCCIAdapter::Write` -> `SCCAMSlot::Process` | takes VDR's CA_PMTs, changes the service list and sends it, resets the Fast ECM state |
| receive thread, one per device | `SCCAMSlot::Decrypt` | decrypts scrambled packets (`DeCSA::Decrypt`), cuts sections from the others (`cDvbapiFilter::Analyze`) and sends them to OSCam |
| VDR's main thread | `DVBAPI`, `SCCAMSlot::StopDecrypting` | starts and stops everything, cancels waits, answers `GetEcmInfo` |

### Components, their state and what makes them correct

| component | state | operations | must hold |
| --- | --- | --- | --- |
| service list, `CAPMT` | `pmt`, under `CAPMT::mutex` | `ProcessSIDRequest`, `SendAll`, `send`, `UpdateEcmInfo`, `GetCAIDFromPid`, `FillEcmInfo` | no service twice; OSCam gets whole lists in the order they were asked for |
| link, `SocketHandler` | `sock`, `faults`, `checkTimer`, under `SocketHandler::mutex` (writes) | `OpenConnection`, `CloseConnection`, `Write`, `Receive`, `HandleMessage` | messages do not mix; no use of a closed descriptor; OSCam ends with the right list after any loss; nobody blocks for ever |
| section filter, `cDvbapiFilter` | `pidmap`: filters and one section assembly per pid, under its mutex | `Analyze`, `Collect`, `Deliver`, `SetFilter`, `StopAllFilters`, `SetECM`, `GetECM` | exactly the sections received whole are delivered, to the filters they match, of this connection; a CW gets the iCAM mode of an ECM of its demux |
| Fast ECM, `struct FAST_ECM` in a FFdecsa key | `nextparity`, two times, `activparity` | `set_FastECM_CW_Parity`, `Init_FastECM`, `set_even/odd_control_word` | after a change of parity packets wait for their CW |
| decryption, `DeCSAAdapter`, `DeCSA`, `DeCSAKey` | `AdapterPidMap`, `bCW_Waiting`, `bAbort`, the keys; mutexes per adapter, per key, per wait | `Decrypt`, `CancelWait`, `SetCaPid`, `SetDescr`, `SetDVBAPIPid`, `Init_Parity` | every wait ends; a cancel cancels; a stopped service leaves nothing behind |
| CAM slot, `SCCAMSlot` | `reset`, `version`, `doReply`, answer frames | `Process`, `Status`, `Check`, `Decrypt` | starts and stops reach the list and the keys in an order that fits |
| fill control, `DeCSAFillControl` | state, water mark, filter taps (atomics) | `CanProcess`, `Reset` | never stuck on data that is there |
| CSA cipher, FFdecsa | a key's schedules and stream registers; the group of packets on the stack | `decrypt_packets`, `set_*_control_word` | each packet of a cluster is decrypted once and as if alone |
| CI adapter, `SCCIAdapter`, `Frame` | frame queues in ring buffers, `tcid` | `Read`, `Write`, `Stop` | each frame is read whole, an answer for each TPDU |
| life cycle, `DVBAPI` | the global objects | `Start`, `Stop`, destructor | no thread uses an object that is gone |

Calls go from the socket thread into the filter and the decryption, from the
CI threads into the list (which writes to the socket) and the decryption, and
from the receive threads into the filter (which asks the list for a CAID and
writes to the socket) and the decryption.  What is hard is that all of them
meet in `Write()`; that the connection may break, be half written or be
reopened at any point; that `Decrypt` sleeps in the middle with one mutex given
back and another one held; and that sections arrive in pieces while filters
change.  `PROJECT.json` ("hazards") lists these at their lines.

## 2. Modules

| module | models | notes |
| --- | --- | --- |
| `ServiceList` | what the link promises | abstract: lists asked for, the one OSCam has |
| `CaPmt` | `CAPMT::ProcessSIDRequest` as operators on the list | pure |
| `OscamLink` | list, link, filters and OSCam with all threads and mutexes | refines `ServiceList` |
| `FastEcm` | `FAST_ECM` of a key as operators | pure |
| `CwWait` | `Decrypt` with its Fast ECM wait, `CancelWait`, pid map, CWs | one service on one adapter |
| `TsSections` | `Analyze`, `Collect` as operators on packets | pure |
| `SectionFilter` | the filters of an adapter: one pid with a broadcaster that packs, loses and repeats packets, the others with whole ECMs | |
| `FFdecsaCluster` | `decrypt_packets` as operators on memory and ranges | pure |
| `ClusterCalls` | a caller that repeats it until its cluster is empty | |
| `DecryptBatch` | the packets one call of `Decrypt` takes, with keys and ciphers that change | extends `FFdecsaCluster` |
| `StreamTable` | the CSA stream cipher of one packet, on nibbles with S-box tables | abstract |
| `StreamSlices` | the same for all lanes at once, with the gates of `stream.c`, as operators | pure |
| `CsaTables` | memory layouts: transpositions, loads and stores of `fftable.h` and `FFdecsa.c` | pure |
| `BlockCipher` | key schedule, iCAM permutation, the block decypher | pure, extends `CsaTables` |
| `CsaGroup` | the loop of `decrypt_packets` over the blocks of a group | refines `StreamTable` in each lane |
| `FillControl` | `DeCSAFillControl` against VDR's ring buffer and `Reset` | |
| `CiAdapter` | `SCCIAdapter`, `Frame`, `SCCAMSlot::Process` and `Status` | extends `CaPmt` |
| `LifeCycle` | `Start`, `Stop` and the destructors of `DVBAPI` against every thread, with all mutexes and global pointers | |
| `MC...` | model values and inputs for TLC | |
| `NatRecursion` | induction, recursive functions, lists put together | lemmas for the proofs |
| `OscamLinkProofs`, `SectionFilterProofs`, `CwWaitProofs`, `CamSlotProofs`, `DecryptBatchProofs`, `LifeCycleProofs`, `CsaGroupProofs` | theorems | TLAPS |

### OscamLink

`pc[t]` says where each thread is; `msg[t]`, `part[t]`, `fd[t]` are the message
a thread is in `Write()` with, how much of it is sent and the descriptor it
copied from `sock`.  A message has two parts, which is all that is needed for
another thread, or a failure, to come between `send()` calls.  A descriptor is
the number of the session it belongs to and is never used again, so that the
use of a stale one shows.  `link` is "up", "lost" (OSCam is gone, the kernel
may still take bytes), "shut" (after a failed send) or "none"; `wire` holds the
parts in the socket buffers.  One action of `SIDRequest` is
`ProcessSIDRequest` up to its call of `SendAll`; the recursive mutex stays with
the thread until `SendAllReturns`.  `Resyncs` is the `SendAll` after a
connect.  `OpenStarts` takes the mutex that is held throughout the name lookup
and the connect.  `CloseTakesFd`, `ClosesFd`, `StopsAllFilters` are the three
steps of `CloseConnection`.  `HearsFilter` stands for `DMX_SET_FILTER` and
`DMX_STOP`; a filter remembers the session that set it.  Messages that change
other state (control words, pids) are in `CwWait`.  A message of OSCam that is
incomplete, unknown or late ends in `HearsEnd`.  OSCam (external) reads parts
in order and applies list management: FIRST starts a list, LAST ends it.

Abstracted: the bytes of messages, the CA_PMT's contents (`Contents`), several
addresses of the host, the 20 ms and 100 ms loop sleeps.

### FastEcm and CwWait

A crypto period is a number; its parity is that of the number, and `cw` holds
the period of the CW the key has for each parity.  So "decrypted with the right
CW" is `cw[ParityOf(n)] = n`, which the code cannot see and its bookkeeping
(`Verdict`, `AfterCheck`) has to get right.  `DecryptChecks` is `Decrypt` up to
its first verdict, `WaitBegins` takes `mutexStopDecrypt` and gives back
`mutexAdapter` for the sleep, `Wakes` and `WakesAborted` are what follows each
sleep, `Decrypts` the call of the cipher.  `CancelSees`, `CancelAborts`,
`CancelReturns` are the steps of `CancelWait`.  A wake-up may find the time up
or not, as timer and sleeps drift.  While `Decrypt` is active the receive
thread passes no ECM on (`EcmPasses`), and OSCam answers only ECMs it got,
in order, not necessarily all.  `activparity2` is only logged and left out.
The `bdelete` argument of `Init_Parity` and its loop are modelled with the
reset of `csaSid` that the loop itself causes.

### TsSections and SectionFilter

A byte is a record of the section it belongs to, its offset and the section's
length, so that a mixed or cut section shows.  `CutFrom` is the loop over the
sections that start in a packet, `Taken` one round of it, `Collect` the
assembly.  The broadcaster packs
sections as ISO 13818-1 asks for: a packet in which a section starts has a
pointer field, all bytes after the last section are stuffing.  `due` is what a
receiver must deliver with a packet, from the history of lost and repeated
packets and of the times without filters (`broken`).  Packets without payload
and adaptation fields change no assembly and are left out.

The filters of a pid are a list, as in `pidmap`: a filter set again is changed
in its place, a new one is put at the end.  A filter is known by its demux
(OSCam's index) and its number.  The mask of a filter is a set of table ids
(`Tunes` says which OSCam may choose); of those for ECMs it has the top bit, so
that the test of GetECM (`IsForEcms`) agrees with what they match.

An ECM that a filter is sent leaves its iCAM mode in the entry (`SetECM`).
`GetECM` is what a CW for a demux that comes now would get: as in the code it
goes through all pids of the adapter, the lowest first, and takes the first
filter for ECMs of that demux.  So there are other pids too (`OtherPids`, some
below and some above the one whose packets are modelled): their filters are set
and stopped in the same way (`SetFilterElsewhere`, `StopFilterElsewhere`), but
their ECMs arrive whole (`EcmElsewhere`).  A mode of this pid is known by the
section it is of, 0 for none; those of the others are `OtherModes`.  `asked` is
the history of the ECMs of this pid that each filter should have been sent, so
that `ModeOfItsEcm` compares what `GetECM` finds with the ECMs that OSCam may
be answering.  A demux with ECM filters on several pids has several of these,
and the code, which looks at the demux and the parity only, takes the filter of
the lowest pid, whichever of the ECMs the CW answers.  The property asks for
one of them; which one is right the code cannot tell, as little as it can tell
a CW that comes after the next ECM of its parity.  `Setups` says which filters
and pids are tried together.

### FFdecsaCluster, ClusterCalls and DecryptBatch

A packet keeps its scrambling bits and its number of whole blocks, and as
history how many of its blocks were written, in which iteration its residue
was decrypted and with which key, so that a block done twice or left out
shows.  `Examine` is the body of the loop over the cluster, `SearchRound` a
round of the first sort (`FullFirst`), `LongestTo` one of the second
(`Ordered`), `Alive` the counts of packets that last longer,
`Blocked` and `Residues` what iteration i writes.  The ciphers and the bytes
are left out.

`CwWait` takes a batch for packets of one pid and one period.  `DecryptBatch`
is about the batch itself: the loop of `Decrypt` packet by packet (`Passes`,
`TakesBlockCipher`, `TakesCsa`), interleaved with the socket thread, which
changes ciphers at any time and the pid map when `mutexAdapter` is free.
`HandleMessage` makes two calls of `DeCSA` for one request, each under the
mutex of the key only: first the flag or the algorithm (`Asks`), then the CW or
the AES key (`SetsCw`, `SetsAesKey`); `SetsMode` is CA_SET_DESCR_MODE.
`Decrypt` is called for the packet at the head of VDR's buffer and takes others
along; they stay in the buffer (`Delivers` takes one).  What Fast ECM says of a
batch depends on the CAID, the times of the CWs and the history of the pid, and
is the subject of `CwWait`; here it is left open (`ScanEnds`, `WaitEnds`): a
batch may be decrypted at once, may wait, and a wait may end or be cancelled.
Nothing is therefore said of the CW a packet is decrypted with, only of its key.
`Setups` are three streams with the requests OSCam uses: every change of cipher,
AES that comes and goes around a longer batch, and two keys side by side.

### StreamTable, StreamSlices, CsaTables, BlockCipher and CsaGroup

`FFdecsaCluster` says which packets are decrypted together, `CsaGroup` how.
What the packets have at one place of a register is a word in the code, and the
set of the lanes whose bit is 1 here: FFXOR, FFAND and FFOR are set operations,
and the S-boxes of `StreamSlices` keep the gates of `stream.c`.  Memory is the
set of its bits; the stages of the transpositions in `CsaTables` exchange or
turn squares of bits.  `Turned` is one turn of the stream cipher,
`StreamInitTurns` and `StreamTurns` the 32 turns of a call.  `iter` is the loop
variable of `decrypt_packets`; `Alive(i)` the packets with more than i blocks.
What is uninitialised on the stack is `junk`, all zeros or all ones.
`StreamTable` is what the comments of `stream.c` say that the gates compute:
tables of the seven S-boxes, an adder with a carry.  The refinement maps each
lane of a packet to a stream cipher of its own.  The classes of word types
(`parallel_*.h`) differ in their width, and at 128 in the order of lanes.

### LifeCycle

A thread has a list of steps: mutexes taken and given back, tests of a global
pointer, questions whose answer decides what follows.  `ProcessSIDRequest`,
`SetFilter`, `Analyze`, `Decrypt` and so on are such lists, written as the calls
nest in the code; what they do to data is in the other modules.  `main` makes
the objects in the order of `DVBAPI::Start`, ends in the order of `Stop`, and
deletes them in that of the destructor.  `exists` is the memory of an object,
`global` its pointer: they differ while a constructor or destructor runs, in
which the threads of `SocketHandler` and of the CI adapter already, or still,
run.  VDR (external) assigns slots, deletes the devices between `Stop` and the
destructor, and waits there for their receive threads.  Mutexes of single keys
and of the fill control have nothing inside and are left out; so is that
`cThread::Cancel` gives up after 3 seconds.

### FillControl

Amounts are in packets, times in naps of `sleepInterval`.  `CanProcess` sees
the part of the ring up to the end of the memory.  The stores of `CanProcess`
to the water mark, and those of `Reset`, are steps of their own, since both
are atomics without a lock.  What `Filter` has loaded is in `rx`.  After a
channel switch VDR starts with an empty ring.  Its `Init`, `Next` and the like are
called `FillInit`, `FillNext`, since `CamSlotProofs` extends `CiAdapter` too.

### CiAdapter

`ModuleStatus`, `Write` (`CreateTC`, `Rcv`, `Poll`, `CaInfoEnq`,
`CaPmtArrives`) and `Read` (`VdrReads`) are one step each, under `ciMutex`.
The ring buffers are sequences of frames; their limits are left out, the loss
of all frames when one falls on the end of the memory (`RingEnds`) is not.
VDR's side is external: it asks for the status, creates a connection when the
slot is ready, polls, sends T_RCV after an SB bit, and resets the slot when its
creation is not answered.  The `tcid` is always 1 there and left out.
`CaPmtArrives` is `Process` from AOT_CA_PMT on with the list (`CaPmt`) and
`Init_Parity` reduced to one pid per service.

## 3. Runs

| run | instance | shows | states |
| --- | --- | --- | --- |
| `oscam_link` | 2 adapters, 2 services, 3 requests, 2 sessions, 1 filter, 1 section | type, no service twice, refinement of `ServiceList`; no write to a closed descriptor, no mixed messages, no sections for old filters | 3,100,916 |
| `oscam_link_live` | 2 adapters, 1 service, 1 filter, fair | OSCam ends with the list; threads return to their loops | 73,736 |
| `cw_wait_keys` | 2 pids, 3 periods, 1 start or stop | type; after a right decryption the next one is right, too, or came after a timeout | 2,127,336 |
| `cw_wait_cancel` | 1 pid, 3 periods, 2 cancellers, fair | aborts do not leak; a wait that a cancel found asleep is over when it returns; `Decrypt` and `CancelWait` return | 91,168 |
| `section_filter` | 1 to 3 sections of 1 to 3 packets, 2 lost in a row, 2 filters, both parities; 1 demux, or 2 with a second pid | sections are cut whole, each filter gets its own, a CW gets the mode of an ECM of its demux | 2,092,997 |
| `cluster_calls` | up to 4 packets in 1 to 4 ranges, lengths -1 to 3, both parities, groups of 3 | each packet decrypted once, with its key; the return value and the ranges are right; every call gets on | 101,703 |
| `decrypt_batch` | 2 pids with 1 key, 3 ciphers, 2 packets; AES or not, 3 packets; 2 keys, 3 packets | type; no packet decrypted twice or given out scrambled without a reason; each packet with the key of its pid | 1,669,434 |
| `fill_control` | ring of 5, marks 2 to 3, 1 reset, fair | type; mark within the limits; data is never slept on | 48,555 |
| `csa_group` | 8 groups of 1 to 12 packets, 32, 64 and 128 lanes, with and without iCAM | each lane implements the table form of the stream cipher; each packet is decrypted as if alone; two packets of the repository's tests come out as expected | 1,444 |
| `ci_adapter` | 2 slots, 1 program number, 2 CA_PMTs, 1 ring end, fair | type; slots come up again and again; answers are fetched; a CA_PMT touches no other service | 304,872 |
| `life_cycle` | 1 card: 4 threads, 9 mutexes, 5 objects | no use of an object that is not there; no circle of threads that wait; no slot keeps a deleted device; quiet after `Stop` | 341,396 |

One run ends in a violation, a disagreement of the code with what its comments
and logs say ("findings" of `PROJECT.json`): in `cw_wait_stop`, stopping a
service unmaps only the first of its pids, because `Init_Parity2` forgets the
sid that the loop looks for.

Four more things the models show, about which no run of their own is made:

* A `CancelWait` that comes after `bCW_Waiting` is set (DeCSA.cpp:1280) and
  before `mutexStopDecrypt` is taken reports success and cancels nothing: the
  wait goes on for up to 2.5 seconds.  `CancelEndsWait` excepts this window.
* A pid whose first packet of a crypto period comes after the CW of the next
  one is held although its own CW is in the key: `nextparity` belongs to the
  key and not to the pid (FFdecsa.c:1141).
* Fast ECM asks for the parity of the last packet of a batch (DeCSA.cpp:1107),
  `decrypt_packets` decrypts the packets of the parity of the first: when the
  pids of a key change their parity one after the other, packets may be
  decrypted before their CW came.  No property is about such a batch:
  `HeldUntilCwArrives` is checked for batches of one pid.
* A CA_PMT with list management 5 and no descriptors (CAPMT.cpp:49: "to stop
  decryption (removed)") takes the service off the list, but its pids stay in
  the pid map until OSCam removes them (SCCAMSlot.cpp:309-314).

### Bounds

Two adapters give two CI and two receive threads besides the socket thread:
every pair of kinds of threads meets, and so do two of a kind.  Three requests
over two services reach a list of two, its replacement and removal while a list
is on its way; two sessions give one loss at any point and the reconnect after
it (the last session is not lost, so that liveness has something to converge
to).  `MaxWire = 2` lets send() block.  Three crypto periods give each parity a
first use, a change, and a reuse with a new CW; `MaxSleeps = 1` gives a wake-up
before and after the limit; two pids are needed for the state of a key that
they share.  Payloads of 5 bytes with headers of 3 split headers at each place,
and lengths of 3, 4 and 9 give sections that end with, before and packets after
the one they start in; counters modulo 3 with 2 lost packets leave the longest
loss that can be noticed; three sections give each parity an ECM and one of
them a second.  With two demuxes both have ECM filters on this pid and the
first has one on a second pid too; there are two sections when that pid lies
before this one in `pidmap`, and one when it lies behind.
`decrypt_packets` treats full packets, shorter ones, those without a whole block and broken ones differently, so that three blocks are enough; four
packets with groups of three leave one over.  Two packets of two pids give a
batch of both parities and one packet behind another, three a hole between two
packets of a batch.  `csa_group` does not enumerate its inputs: a group is a case, and its
cases differ in width, lengths, residues and junk.  Full packets have 10 blocks
instead of 23 (`Blocks`), which shortens the loop and nothing else; a packet of
the tests has exactly these.  The stream cipher's tables and gates meet in
some thousands of register states; that they agree for every input is proved
(`EachInItsLane`).
A ring of five is larger than
the largest mark and small enough to have its end in the way of every batch.
One card in `life_cycle` gives one receive thread besides the CI, socket and
main threads; two cards have mutexes of their own and no order between them.
Runs whose histories end at their bounds say `CHECK_DEADLOCK FALSE`.

### Fairness

Each thread is strongly fair as a whole: threads run on, and a thread that waits
for a pthread mutex that keeps becoming free gets it (the code sleeps or blocks
in between, so no thread takes a mutex again at once for ever).  The reconnect
timer expires, OSCam reads what it gets (one that stays connected and never
reads again would keep a thread in send() for ever).  Nothing is assumed about VDR's
requests, filters, losses or answers: OSCam may stay away (then `Converges`
asks nothing) and CWs may never come.  In `FillControl` only the receive thread
is fair (weakly): it goes on calling `Decrypt` while the ring has data, whether
or not more arrives.  In `CiAdapter` VDR's CI thread is: it asks for the status
and reads, connects, polls and fetches.  `LifeCycle` has no fairness: that
`Stop` ends would need four strongly fair threads, which is out of TLC's reach
at this size; what could keep it from ending is a circle of threads that wait,
which `NoCyclicWait` excludes.

## 4. Proofs

`OscamLinkProofs` proves for all constants that satisfy `BoundsAssumption` and
`ContentsAssumption`:

* `TypeCorrect`: `TypeOK`, in three parts that need one another: the sequences
  and OSCam's view (`DataOK`), what threads share (`SharedOK`), what each has
  (`ThreadsOK`, with: who sends has a message).
* `NeverSendsOnClosedSocket`: `SendsOnOpenSocket`.  Not inductive by itself:
  `SocketMutexInv` adds that a sending thread owns the socket mutex, that the
  socket thread owns it while connecting and has no message then, that `sock`
  is open when it is set and unset while the socket thread opens or closes.
* `MessagesNeverMix`: `MessagesWhole`.  `StreamInv` adds how the last part sent
  relates to the thread that sends (`LastSent`): if it is a first part, that
  thread still has the second to send; if not, no thread has.  Lemmas for what
  appends to, clears and reads the wire carry the argument.
* `ServicesUnique`: `NoServiceTwice`, from `UpdatedKeepsServicesUnique`,
  which is about the operators of `CaPmt`, for every list and request:
  erasing takes out exactly one entry, and in a list without double entries
  none for the service is left.

It goes on from there to `DataOfThisSession` (`FilterDataOfThisSession`).  A connection is closed in three steps, and a
receive thread may be in `Deliver` with filters it read before the first.  The
invariant says that filters are set only while a connection, or its closing,
lasts (`FiltersInv`), that a thread in `Deliver` holds the filters' mutex and
that this cannot go on into the time without a connection (`DeliverInv`), and
that data on its way or on the stream is of the last session (`DataInv`).  What
saves the code is an order: the socket thread closes, then waits for the
filters' mutex to stop them, and only then may connect again.

`OscamHasAnAskedList`, in the same module, says that `OscamLink` implements
`ServiceList`, for any number of adapters, services and connections.
`SenderInv` says that who is in `SendAll` has CAPMT's mutex, so that the list
stays what it was and the message in hand is number `pos - 1` of it.  `PipeInv`
numbers the stream: there are functions `v` and `k` that say for each place on
the wire which message, `k` of list `v`, came last before it.  From one such
message to the next (`Trace`) it is the next of the same list, or the first of
a list no older after the last of the one before; only at the start of a
connection may it be any, because a `SendAll` that began before it goes on
there.  Where the wire ends is where the sender is (`UpToDate`), as long as the
connection is whole; where it begins is where OSCam is (`Holds`): the part of a
list it has collected is the list up to there, from its first message, or from
a later one while OSCam has had no whole list.  A message appended at one end
(`PipeAppended`) and one read at the other (`PipeRead`, `ListApplied`) keep
this, and what is read last of a list is then a step `Announce`.

`CwWaitProofs` proves for any pids, periods and cancellers that satisfy the
module's assumptions:

* `TypeCorrect`: `TypeOK`, together with what is known of a call under way.
* `AbortNeverLeaks` and `CancelledWaitIsOver`: `NoAbortLeaks` and the action
  property `CancelEndsWait`, from `WaitInv`: an abort is there only while its
  canceller is between its two steps; a sleeping wait owns `mutexStopDecrypt`;
  a wait that has just announced itself was seen by nobody.
* `CwArrivesFirst`: the action property `HeldUntilCwArrives`, which is why Fast
  ECM exists.  The key knows parities and times only, so the invariant ties
  them to periods.  `CwInv`: the CWs of a parity only get newer, and none is
  newer than the next period.  `TimesInv`: the parity given last is the one
  expected next, and if the two came `PatchGap` apart the later one is of the
  newer period; this fails for CWs that come together, which is why the
  property excepts them.  `DoneInv`: the active parity of a pid is that of its
  last packets, or forgotten.  From these a check that answers "same" or "next"
  has found the CW of the stream's period (`CheckFindsCw`); `CallInv` says that
  it is still there when the packets are decrypted, although the socket thread
  may set CWs meanwhile (`SetDescrHeld`).

`CamSlotProofs` is about both parts of a CAM slot.  For every ring, limits and
times that satisfy `FillControlAssumption`:

* `FillTypeCorrect` and `MarkStaysWithinLimits`: the invariant adds that the filter
  taps, and what `Filter` has loaded of them, are unset or within the limits
  (`TapsInLimits`), that the mark is outside them only between the store of
  the measured amount and its clamping (`MarkClamped`), and that data the
  receive thread works on is in the ring (`ServesData`).
* `FilterIsMedian`: the expression of `Filter` is the median of any three
  integers; with `FilteredInLimits` it keeps what is between the limits there.

And for any slots, program numbers and services of `CiAdapter`:

* `TypeCorrect`: `TypeOK`, which needs that the rings hold frames only
  (`RingsOK`), that a slot and VDR's side of it are in a known state
  (`CamsOK`), and the list and the keys (`ServiceOK`).
* `LeavesOtherServices`: `OnlyItsService`.  An entry is looked up by sid and
  adapter; taking one out moves others to its place and changes none
  (`ErasesOnlyItsService`, `UpdatesOnlyItsService`).

`NatRecursion` has what recursion needs.  The induction theorems of the
library take an operator as a parameter and cannot be used here; a set of
numbers that holds 0 and with each number the next one is all of Nat all the
same, because `LeastNumber` (from the well-foundedness of `<`) finds no least
one outside of it.  With it follow the equation of a function defined by
recursion on 0 .. n, and what folds and flattened lists are.

`DecryptBatchProofs` is first about the operators, for any memory, ranges and
degree of parallelism:

* `ScanTakes`: the loop of `decrypt_packets` marks only scrambled packets of
  its ranges; the group are those with a whole block, and all of them have the
  parity of the group.  Mini packets (no whole block) are marked too, also ones
  of the other parity that came before the first.
* `Decrypted`: what is marked is clear afterwards, and written with the key of
  that parity if it is in the group; all other packets are as they were.
* `DecryptedWhole`: each block of a packet of the group is written once, and the
  residue in the iteration after its last block.  A round of the first sort
  keeps full packets before `t23` and others behind `tsmall` (`SplitOK`) and
  brings the two together by two places at least (`FullFirstSplits`); a round of
  the second leaves no longer packet behind the one it has placed (`Longest`).
  Both only exchange packets (`Rearranged`), so that the group comes out the same
  and sorted by falling length (`OrderedSorts`).  Then `alive[i]` is the number
  of packets with more than i blocks (`Longer`), these are the first `alive[i]`
  ones, and the iterations that write a packet at place g are just 1 .. n
  (`EachBlockWritten`).

The theorems about `ClusterCalls` are for callers with any packets.  Their
invariant, `CallerInv`, says that the ranges still to be given lie behind each
other, in memory, and that none is empty (`RangesPending`), and that a packet is
as it was given or was decrypted whole, once, with the key of its parity
(`MemoryDone`).  `ScanReturns` is what the scan does to the ranges: as long as
it may advance, their starts have moved exactly past the packets examined
(`Moved`, `Counted`), none of which is left scrambled; `CompactedKeeps` is that
leaving out empty ranges loses no packet; `RangesReturned` puts them together.

* `EachBlockOnceHolds`, `ReturnsAvailableHolds`, `FirstServedHolds`:
  `EachBlockOnce` and the action properties `ReturnsAvailable` and
  `FirstServed`.  The last needs that no range is empty: then the first packet
  of the first range is the first one of the scan (`PositionsFollow`), which
  takes it if it is scrambled, and in any case moves the start of the range past
  it.

Then, for any streams of packets, setups of keys, batch sizes and degrees
of parallelism, about `DecryptBatch`.  Its invariant says, besides the types
(`BufferType`, `CallType`), that what `Decrypt` has taken are packets in VDR's
buffer (`CallInBuffer`), that a packet which is still scrambled had no cipher
run on it and any other at most one (`OnceEach`), that what is scrambled in the
batch has the key of the call, as long as it did not wait (`BatchOfKey`), and
that a head which can be decrypted begins the batch (`HeadWaits`).  It holds
whatever Fast ECM says of the batch.

* `TypeCorrect`, `NoPacketTwice`, `HeadIsServed`: its `TypeOK`, `DecryptedOnce` and
  `HeadServed`.
* `OwnKey`: the action property `WithOwnKey`.

`LifeCycleProofs` is about any number of cards.  The steps a thread has to do
are a list, and what a list does can be said without running it: `Leads(t, m,
s, n)` says that all of s can be done from the state m, whatever its tests
find, and ends in n; it is witnessed by a set of states, each with the rest of
the list.  For the threads of the plugin and the receivers, m is the set of
mutexes they have, and each call leads from none to none (`SocketCalls`,
`AdapterCalls`, `ReceiverCalls`).  For the main thread it also has the objects
made, the pointers set, the threads told to end and joined, and the cards
unassigned; `Start` leads from nothing to everything (`MainStart`), and what
follows a stop from there back (`MainEnds`).  The invariant (`Inv`): what each
thread has left leads from what is the case to its end (`OthersDo`,
`MainDoesRest`, the latter with what the main thread may rely on, `Truth`); a
mutex is held by a thread that may hold it (`Own`); what uses an object was
begun after it was made (`Made`), and before the devices went (`Late`); the
socket thread, which starts before `SockHandler` is set, gets no further than
to find that no service is listed (`Early`).

* `ObjectsOutliveThreads`: `NoUseAfterFree`.
* `NeverInACircle`: `NoCyclicWait`.  A thread takes a mutex only above those it
  has: slot, adapter (`ci`) and `decsa` before `filter`, before those of a
  card's decryption, before `capmt`, before `sock` (`Rank`).  The three of a
  card have no order among themselves, since `Decrypt` takes the second again
  after the third; but only the card's receive thread ever keeps one.  And
  nobody waits for the main thread, whose slot mutexes no other thread takes.
* `DevicesAreReleased` and `StopsForGood`: `NoSlotKeepsDevice` and
  `QuietAfterStop`.

`SectionFilterProofs` is about any payload, header and section lengths, any
number of continuity counters, any demuxes, pids, filters and tables, and any
batch of sections in a packet.  It assumes what the modules assume: a packet
holds more than a header (`TsSectionsAssumption`), a filter is set to tables of
`Tables` and no pid is 0 (`FilterAssumption`), and fewer packets are lost in a
row than there are continuity counters (`LossAssumption`: 16 lost packets are
noticed by nobody).

The first half is about one packet.  `Packed` says how sections of given lengths
lie in a payload, by the offsets at which they begin.  `CollectsSection`: with
the first bytes of a section in the assembly, and more of them to come,
`Collect` has more of it or cuts it, also when the header was not whole before.
`CutsPacked`: by induction over the rounds of the loop, `CutFrom` cuts all the
sections that end in a payload, in order, and leaves the beginning of the one
that does not.  The second half is the invariant (`Inv`), which adds to the
properties:

* `StreamOK`: what was broadcast, and how far;
* `AssemblyOK`: the assembly is the beginning of the section in progress, up to
  `offset`, unless it was broken; and `lastcc` is behind the stream by exactly
  the packets lost, which is why `Continuous` finds out;
* `FiltersOK`: a number of a demux is set once, to tables it may be set to;
* `AskOK`: each entry has the modes of the ECMs OSCam was asked with for its
  filter, and for a filter that is not set nothing is asked;
* `LastOK`: a packet that may still come again is the last one received, and
  what starts in it is the end of what was broadcast; a repeated packet is
  never continuous, and cuts just the sections that start in it a second time.

None of the properties is inductive without them: what a packet cuts depends on
the assembly, that on the continuity counter, and a repeated packet on the
stream as it was before.

* `TypeCorrect`, `CutsWholeAlways`, `ServedAlways`: `TypeOK`,
  `CutsWholeSections` and `EveryFilterServed`.
* `ModeAlways`: `ModeOfItsEcm`.  The entries of all pids hold modes only
  (`OthersOK`), and for this pid these are the ones asked (`AskOK`).  What
  `GetECM` finds is then followed through its search: the first of the pids with
  an ECM filter of the demux is one of them, and so is its first filter
  (`LeastIsOne`), whose mode is one OSCam was asked for (`ModeIsAsked`).

`CsaGroupProofs` is about any group of packets, sorted as `FFdecsaCluster` leaves
it, any key, any bytes, any number of blocks from two on, and the builds of 32,
64 and 128 lanes (`CsaGroupAssumption`).

* `OutOfSlices`: `trasp64_88cw` gives a packet the bits that are in its lane of
  the slices.  A stage of a transposition moves a cell to the one whose row and
  column differ in one bit (`CellMoves`, `TableMoves`); a chain of stages is
  then followed bit by bit, for each width (`SliceOf32`, `SliceOf64`,
  `SliceOf128`).
* `GroupAsAlone`: `block_decypher_group` makes of the block of each packet what
  `DecypheredAlone` makes of it, whatever the other blocks are, and whatever was
  on the stack.  The bytes of a packet lie below each other in the registers
  (`IntoRegisters`, `OutOfRegisters`); S-box and permutation work on each byte
  for itself, although they shift words of several (`BoxBytes`,
  `PermutedBytes`), so that a round of the group is one of each packet
  (`RoundOfEach`), and by induction from 56 down to 0 all of them are
  (`RoundsAlike`).
* `DecryptsEach`: `DecryptsEachPacket`.  That each block is decrypted by the
  keystream that its lane had in its turn depends on where `decrypt_packets`
  is, and so the invariant (`IInv`) says besides the types (`Typed`) how far
  it is (`Progress`): the keystream of each lane is as long as there were
  iterations (`Lengths`); what the block cypher gets next is the block of each
  packet with that keystream added, as long as the packet is alive
  (`ChainHeld`); and each packet has its wanted blocks up to the last iteration
  and those it was given behind them (`DoneSoFar`).  Only packets that are
  alive are written, which are the first `alive[i]` ones because the group is
  sorted (`LiveOnes`); this is why the junk of other lanes never reaches a
  packet.

* `EachInItsLane`: `ImplementsStreamTable`, the refinement of `StreamTable`.  A
  turn of the slices is followed in the lane of one packet (`MovedLane`): each of
  the seven circuits gives the two bits of its table for the 32 inputs
  (`SBox1Table` to `SBox7Table`), the carries that ripple through T3 are those of
  a sum of nibbles (`CarriesAre`, `SumLane`), and the rotation, the shifts and
  the bits that are taken out (`PairLane`) are those of nibbles.  The turns that
  take in a block read the lane of the transposed first blocks (`IntoSlices`,
  `TableHolds`, again by the chains of stages), and so the invariant is not
  enough: between the call of the initialization and its return, the lane of
  each packet has its own first block (`Started`).  All other steps of
  `decrypt_packets` leave every lane alone.

Of this component only `PassesTests` is left to TLC: that two packets of the test
program come out as its tables say is a computation, for one key and no other.
Liveness is model-checked everywhere, since the provers know no fairness.

## 5. Not modelled

* DES (cscrypt) and the bytes of AES: vendored ciphers and a library; only
  which of them runs for a packet is modelled.  Zero AES keys (DeCSA.cpp:123),
  cipher modes and IVs are data of these.
* The `LIBDVBCSA` build: it has no Fast ECM, and its batch is the one of
  `DecryptBatch` with a library in the place of FFdecsa.
* Unaligned copies and the compiler-specific forms of `parallel_*.h`: the same
  operations on words of other types.
* The bytes of messages, `FillEcmInfo` and the `Service` call of other plugins,
  which may find no `capmt` before `Start` (DVBAPI.cpp:180).
* In `LifeCycle`: the 3 seconds of `cThread::Cancel`, which a connect() may
  outlast, and VDR's own locks.
* In `DecryptBatch` the algorithm and the AES flag of a key are read in one
  step, where the code takes the mutex of the key twice.
* In `SectionFilter` the packets of one pid: the assemblies of other pids are
  its like and share nothing with it but the mutex.  Their filters are there,
  since `GetECM` searches all of them.  Which of several ECMs a CW answers is
  OSCam's knowledge.
* Logging, the setup menu, translations and the build.
* Code that nothing calls (`DeCSA::StopDecrypt`, `GetCaid`, `GetCAIDFromSid`,
  `InitFastEcmOnCaid`).

## 6. Plan

Done, in this order:

1. `ServiceList`, `CaPmt`, `OscamLink` and their proofs: all threads meet here.
2. `FastEcm`, `CwWait`: the wait, the one place where a mutex is given back.
3. `TsSections`, `SectionFilter`, with the iCAM modes of ECMs.
4. First theorems: types, socket, stream, list.
5. `FFdecsaCluster`, `ClusterCalls`, `DecryptBatch` with the requests that set
   up a key.
6. `FillControl` and its proofs.
7. `CiAdapter`.
8. `CsaGroup` and the cipher under it.
9. `LifeCycle`: all mutexes and the order of start and stop.
10. `CwWaitProofs`, `CamSlotProofs`; filters' data and the refinement of
    `ServiceList` in `OscamLinkProofs`.
11. `NatRecursion`, `DecryptBatchProofs`, `LifeCycleProofs`,
    `SectionFilterProofs`.
12. The sorts, iterations and returned clusters of `decrypt_packets` in
    `DecryptBatchProofs`.
13. `CsaGroupProofs`, with the refinement of `StreamTable`.

Left:

14. The libdvbcsa batch as a variant of `DecryptBatch`.
