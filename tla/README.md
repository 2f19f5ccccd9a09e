# A verification project for OpenVizsla (ov_ftdi)

OpenVizsla is a USB protocol analyser. An FPGA (gateware in
`software/fpga/ov3/ovhw`, written in migen) listens to a USB bus through a ULPI
PHY, cuts what it hears into packets, buffers them in SDRAM and sends them
through an FT2232H to a host program (`software/host`, Python and C). This
directory holds TLA+ models of that system, the TLC runs that check them on
small instances, and TLAPS proofs of the properties that matter most.

All paths below are relative to `src/software/`; `ovhw/` stands for
`fpga/ov3/ovhw/`.

## 1. The system

```
 ULPI PHY                                                             host
   |  60 MHz                                                            ^
   v                                                                    |
 ULPI_ctrl -> OverflowInserter -> async FIFO -> RXCmdFilter (100 MHz)   |
   ^                                               |                    |
   | register access                               v                    |
 ULPICfg                                        Whacker (ring memory)   |
   ^                                               |                    |
   |                                               v                    |
 CSR bus                     SDRAM_Sink -> mux, SDRAMCTL -> Host_Read   |
   ^                                                          |         |
   |                                                          v         |
 CSR_Master <- BusDecode <- FTDI_sync245 <----------- BusInterleave ----+
      |                                                       ^
      +-> BusEncode ------------------------------------------+
```

| component | state it keeps | operations | what makes it correct |
|---|---|---|---|
| `ULPI_ctrl` (`ovhw/ulpi.py`) | bus FSM, the item offered, acknowledge flags | receive, register read and write, stuffing of start and end markers | one item per clock, every packet opened and closed; a register access is done once, or repeated when the PHY interrupts it |
| `OverflowInserter` (`ovhw/ovf_insert.py`) | one held item | take, hand on, replace by a marker | never stalls the bus; every loss leaves its mark where it happened |
| `RXCmdFilter` (`ovhw/cfilt.py`) | in a packet or not, timestamp counter | pass, tag, skip | every packet opened is closed, nothing spliced |
| `Whacker` (`ovhw/whacker/`) | ring memory, write and header pointers, packet fields, two capture markers; reader position and count | take an item, write a header, hand a packet over, deliver bytes | no byte overwritten before it is read, no lock-up, packets whole, in order and once; the markers of a capture reach the host |
| `SDRAM_Sink`, `SDRAM_Host_Read`, `SDRAMMux` | two FIFOs, the two pointers, burst counters, the grant | write burst, read burst, wrap, start and stop | the ring is a FIFO; both sides get the memory; stopping leaves nothing stuck |
| `SDRAMCTL` (`ovhw/sdramctl.py`) | command, row and column, refresh counter, read pipeline | activate, read, write, refresh | each word strobed is the word addressed, refreshes happen in time |
| `BusDecode`, `CSR_Master`, `BusEncode`, `BusInterleave` (`ovhw/cmdproc.py`, `csr_master.py`, `bus_interleave.py`) | bytes of the request, of the response, the source granted | decode, access, encode, arbitrate | one response per request, frames never mixed |
| `ULPICfg` (`ovhw/ulpicfg.py`) | request and acknowledge synchronisers | start an access, finish it | GO falls only when the access was made |
| `fastftdi.c` | ring of USB transfers, `state.result` | submit, complete, resubmit, cancel | data in order, an error or a stop is not forgotten, clean-up ends |
| `LibOV.py` | communication thread, byte buffer, response queue, session flag | open, transaction, framing, close | a response answers its request; no waiter is left behind; the packets of a session are delivered |
| `ovctl.py` | output file state | run a capture, format packets | starts and stops the chain in an order that loses nothing, unwraps timestamps |
| `fpgaconfig.c`, `ftdieep.c` | device state | configure, program | an error is reported; an interruption is detected |

The parts interact by valid/acknowledge streams (`stb`, `ack`) inside the
FPGA, by a FIFO between the two clock domains, by a pair of pointers around the
SDRAM ring, by CSR registers written by the host at any time, and by one byte
stream each way over USB. The hard behaviours are the interleavings of those: a
ring whose only bookkeeping is the reader's position, a receive side that
cannot be stalled, pointers that move while the other side has a burst
outstanding, a host that starts and stops things in the middle of a packet.
`PROJECT.json` lists them one by one under `hazards`, with the properties that
watch each.

## 2. The modules

| module | models | notes |
|---|---|---|
| `PacketFormat` | the packet as it lies in the whacker's ring | header cells are named after the producer state that writes them |
| `PacketStream` | abstract | whole packets, in order, once |
| `Whacker` | `ovhw/whacker/*` | implements `PacketStream` |
| `MCWhacker` | the instances TLC checks | restricts what is received and when the capture is switched |
| `Whacker_proofs` | theorems about `Whacker` | |
| `RxPath` | `ULPI_ctrl` (receiving), `OverflowInserter`, the FIFO, `RXCmdFilter` | the whacker reduced to collecting payload |
| `RxPath_proofs` | theorems about `RxPath` | |
| `UlpiRegs` | `ULPI_ctrl` (register accesses), `ULPICfg`, `ulpiread` and `ulpiwrite` of `LibOV.py`, the PHY after `FakeULPI` | two clocks, one step an edge of one of them |
| `UlpiRegs_proofs` | theorems about `UlpiRegs` | |
| `CsrPort` | abstract | a register access takes effect once, between call and return |
| `CmdProc` | `BusDecode`, `CSR_Master`, `BusEncode`, `BusInterleave`, `FTDI_randtest`; `IO` and the framing of `LibOV.py`; `LB_Test` of `ovctl.py` | implements `CsrPort` |
| `CmdProc_proofs` | theorems about `CmdProc` | |
| `WordFifo` | abstract | a FIFO of words |
| `SdramRing` | `SDRAM_Sink`, `SDRAM_Host_Read`, `SDRAMMux`, the streaming interface of the controller | implements `WordFifo` |
| `SdramRing_proofs` | theorems about `SdramRing` | |
| `SdramCtl` | `SDRAMCTL` with the chip and its timing, and a master that streams, ends and takes back its requests as sink and host reader do | the controller `SdramRing` takes for granted |
| `SdramBist` | `SDRAMBIST` and the command that starts it | extends `SdramCtl`; shares the controller with its master |
| `SdramCtl_proofs` | theorems about `SdramCtl` and `SdramBist` | |
| `FtdiBus` | `FTDI_sync245`, the FT2232H from its use, a host that throttles itself | implements `WordFifo` twice, once in each direction |
| `FtdiBus_proofs` | theorems about `FtdiBus` | |
| `ReadStream` | `FTDIDevice_ReadStream` of `fastftdi.c`, libusb from its use | checked by itself and as the lowest layer of `OvDevice` |
| `OvDevice` | `OVDevice` and `IO` of `LibOV.py`: communication thread, callback, queue, open and close | `INSTANCE ReadStream` with the callback that `LibOV.py` passes |
| `Sniff` | `main` and `do_sniff` of `ovctl.py`, the device at the other end | extends `OvDevice` |
| `Sniff_proofs` | theorems about `Sniff` | |

`Sniff`, `OvDevice` and `ReadStream` are one composition: the main thread, the
communication thread and libusb interleave step by step and share
`__comm_term`, `__comm_exc`, `__buf`, the answer queue and the packet handler.
A write of the main thread is a `libusb_bulk_transfer` on the same context
(`host/LibOV.py:598`, `host/fastftdi.c:237`), which handles the events of libusb until
it is done, and with them the completions of the stream. So
`ReadStreamCallback`, and the Python callback it calls, run in either thread.
libusb lets one thread at a time handle events: two such callbacks never overlap.
But the set-up, the report of the progress and the clean-up do not take that
lock, and a callback in the main thread goes on beside them: in the model
statement by statement (`OtherCompletes` to `OtherSubmits`), while the sweep goes
transfer by transfer (`SweepNext`).
`SdramBist` composes the self test, another master and the controller on one
chip.

**How steps correspond to the code.** The gateware is synchronous: migen's
`comb` statements are operators over the current state, `sync` statements and
`NextState` are primed variables, and a step of `Whacker`, `SdramRing`,
`SdramCtl` and `CmdProc` is one clock edge of the whole block (`Clock`), in which
every register moves together. An FSM state of the code is a value of the FSM
variable and each of its branches is one action (`IdleStart`, `IdleStuff`,
`DataRxcmd`, ...). `RxPath` and `UlpiRegs` have two clocks that are unrelated, so
a step is an edge of one of them; in `FtdiBus` the far ends of the FIFOs have
steps of their own. Inputs a block cannot control (the next stage's `ack`, the
controller's `i_ack` and `d_stb`, what the PHY does, the flags of the FT2232H)
are quantified in `Next`. On the host a step is what the other thread may come
between: a completion in the thread of the stream (nothing runs beside it, the
main thread waits for the lock of the events), a few statements of one in the main thread, a
part of a turn of the loop, a transfer of a sweep, the request of an access, the
end of its write, its answer.

**What is abstracted.** Payload bytes are members of a set. A memory cell of the
whacker is a pair of the field it belongs to and its value, and the model
forgets a cell when it is read, so that reading it again, or reading a cell not
yet rewritten, shows up as `Junk`. In `RxPath` a payload byte is identified by
its bus packet and its place in it. In `SdramRing` words are consecutive numbers
modulo `Modulus`, the two bytes of a word travel together, and the controller
acknowledges and strobes when it likes, which covers refresh and row changes.
In `SdramCtl` a word is its address, bank and row are one number, and the chip
is what it needs: the open row, the running burst, the clocks it must be left
alone. In `CmdProc` a byte is its source, its place in the frame and what it
says (the checksum byte is the token it is the sum of); the values of the
generator's LFSR are left out. Test packets have at least one byte: with a size
of 0, which lb-test accepts, `bytecount + 1` never meets it, no byte is the last
and the stream is never given back. In `Sniff` a transfer brings one frame or
nothing, and an answer carries the address, which is all `__txn` compares. Of the
accesses of `do_sniff` it has those that its way hangs on: one before the `try`,
two in it, two in its `finally` part. When the report of the progress and a
callback with data overlap, their statements mix on `__buf`, and the model gives
up the content of the buffer (`clash`, `Muddled`): from then on a callback may take
a frame twice, once or not at all and may raise. Behaviour ends (`Intact`) with
the use of a transfer or of an `FTDIStreamState` that was given back: nothing is
known of it.
libusb gives data in the order of completion, so `ReadStream` keeps the set of
transfers submitted and not their order.

## 3. Runs

| run | question | instance |
|---|---|---|
| `whacker_any` | does the watermark alone keep writer and reader apart, and does any order of items leave whole packets? `NoOverrun`, `RoomWhenDrained`, the refinement `StreamSpec` | 24-byte ring, packets up to 5 bytes: about the smallest ring `DepthAssumption` allows, so it is full at times and every position occurs; truncation, overflow, error and a start inside a packet |
| `whacker_live` | is every item taken, every marker sent? `ItemTaken`, `MarkerSent` | 20-byte ring, packets of up to 2 bytes, a reader that stalls before a packet: the producer waits for space in DATA, in IDLE with an item and in IDLE with a marker alone; capture switched at any time but while a header is written |
| `whacker_marker` | is a marker ever withdrawn unsent? **violated**, see below | |
| `rx_loss` | is payload ever spliced, an unflagged packet ever incomplete, a packet ever left open? `NeverSpliced`, `CleanIsComplete`, `Closes` | FIFO of two items, every refusal, RXCMDs and errors inside packets |
| `ring_stream` | is the SDRAM ring a FIFO, and do both sides get through? `QueueSpec`, `InStep`, `BurstsDelivered` | ring of 4 words over many laps, writer and reader both blocked at times; the sink may be switched off at any time |
| `ring_full` | does a full ring stay full? **violated** | |
| `sdram_bist` | is every word strobed the one addressed, none strobed after its command, every command legal, the refresh in time, the verdict of the self test right? `RightWord`, `NoStrayStrobe`, `LegalCommand`, `RefreshBounded`, `Verdict`, `TestEnds` | two rows of six words, starts at the beginning, near the end of the row and near the end of the memory; the chip sound or with a bad word in its last row |
| `ftdi_duplex` | do both directions get through one bus? `NoContention`, `DuplexSpec`, `AnswerComes` | FIFOs of two bytes, three requests out, every delay of every flag |
| `cmd_lbtest` | is a register access made once and answered right, can the host frame every byte, does stopping the generator twice stop it? `PortSpec`, `NoFault`, `NoHangingPacket`, `CallReturns` | test packets of 1 or 2 bytes, capture bursts at any time, any register read or LED write between the steps of lb-test |
| `ulpi_access` | does GO fall, and only when the access was made, once? `AccessDone`, `WriteOnce`, `AccessEnds` | two registers, two values, the PHY takes the bus in any clock of an access and accepts a command in any, also in the first |
| `sniff_run` | what may the user of a capture rely on, whatever fails? `NoUseAfterFree`, `AnswersMatchUndisturbed`, `CallReturns`, `CloseReturns`, `ExceptionEndsThread` | one transfer, one frame on the wire; callbacks in both threads; transfers, allocations, submissions and writes fail at any point, one interrupt at any point, bytes left over from an earlier program |
| `stream_error` | is an error of a transfer kept? **violated** | three transfers, a program of one thread |

**Bounds.** Every bound is a CONSTANT. `Depth` and `MaxPacket` of the whacker
(1024 and 800 in the code) are scaled so that the ring holds about one packet
and a half as in the code; the proofs cover every value. `Cap` and `MaxBytes` of
`RxPath` are small because a loss needs the FIFO to be full, not large, and
because two bus packets are enough to splice. `Load` of `SdramRing` bounds how
far the capture runs ahead of the reader (`Lead`): up to `2 * (End - Base) - 1`
the writer is blocked by the reader at every position except at the wrap with
the reader at the base; beyond that the defect of `ring_full` is reached, for
which one full ring with the reader at the base is enough. The passing run stays
below it. `Modulus` exceeds the number of words in
flight, so words in flight are distinct.

The timing of `sdram_bist` is the one of the board where it decides anything:
`tCL` 3, `tRP` 4 and `tWR` 2 are the values of `fpga/ov3/ovplatform/sdram_params.py`. `tRCD`, `tRFC`, `tREFI`,
`tRESET` and the row length are scaled together: several refreshes fall into a
pass of the self test and every one of them meets the burst at another word.
`ControllerAssumption` has the three bounds the code relies on without saying so.
`tRP >= tCL + 1` lets a read drain from the pipeline before the next row is
asked for; with less, words of the old row are strobed as words of the new one.
`tWR <= 2`, because a write that is terminated goes to PRECHARGE without the wait
PRECHARGE_TWR. Both are tight: TLC finds counterexamples just beyond them.
`tRESET + tRP + 6 <= refreshInterval + LongestCommand`, because `refresh_ctr`
counts through the reset wait as well and is first cleared by the refresh after
it; the board (`sdram_params.py:26`) keeps to it by far.

`sniff_run` has one transfer and one frame on the wire, which is enough for every
overlap of the two threads: a callback in the main thread has its transfer in
hand while the other thread sets up, reports or cleans up, and a frame waits in
the buffer behind one that raises. The invariants were also checked with two
transfers and with two frames; the theorems are for any number. `CutShort`
keeps the instance finite and small; FALSE in it drops every bound it stands for,
and the theorems hold for both values. It cuts short what follows an overlap of
callbacks: no transfer completes in the main thread any more, the program takes
the shortest way, no packet comes, the user does not interrupt, and a queue with
answers in it does not grow; after an interrupt, it takes the report of the progress
not to come beside a callback in the main thread. A callback in the main thread also
begins only with at most one frame in the buffer. A second interrupt would add the
clean-up of the clean-up only.

**Fairness.** `TightSpec` (whacker): the clock runs, the next stage does not
refuse a byte for ever, and a packet on the bus ends, since `ULPI_ctrl` stuffs
an end of packet whenever the PHY releases the bus. `FairSpec` of `RxPath`: both
clocks run, a FIFO with room is seen to have room sooner or later, the PHY gives
the bus back. `FairSpec` of `SdramRing`: the controller acknowledges and strobes
now and then (its FSM always returns to IDLE and its refreshes are finite), the
host takes bytes now and then. `BistSpec`: the clock runs, and nothing else.
`FairSpec` of `FtdiBus`: the clock runs and carries the flags over; the FT2232H is full
now and then, because USB is slower than the bus, and has space again for
long enough to turn the bus around; the host takes what comes; an answer gets
its turn among capture data, which `CmdProc` shows. `FairSpec` of `UlpiRegs`: both
clocks run; the PHY gives the bus back and does not interrupt every access at the
same place for ever; and, an assumption that `ULPI_ctrl` depends on and does not
state (section 4), it does not accept every read in the first clock of its command
(`PhyAcceptsInTime`), nor interrupt each of the others. The safety properties need none of it.
`FairSpec` of `CmdProc`: the clock runs, a request byte sent arrives, a byte
offered to the host is taken. `FairSpec` of `Sniff`: both threads run, the device
answers, libusb delivers what is there and completes what was cancelled, in
whichever thread, a write ends although completions keep coming meanwhile, and a
turn of the loop reports progress now and then (every 0.1 s). Nothing forces a
capture, an interrupt or a failure.

## 4. What the runs found

1. `whacker_marker`. A marker (`packet_first`, `packet_last`) raised while a
   packet is in DATA is cleared by `waitdone` (`ovhw/whacker/producer.py:191`)
   although that packet took its flags in IDLE, before the marker. The host
   never sees the start (and drops the whole session) or the end.
2. `ring_full`. The wrap step of `wptr` (`ovhw/sdram_sink.py:142`) does not look
   at the reader, and with `rptr` at the base the last slot is written because
   the next address is the end of the ring, not its base: a full ring becomes an
   empty one and its words are lost.
3. `stream_error`. The progress callback's return value is written over
   `state.result` (`host/fastftdi.c:438`), also over the error of a transfer of
   the same turn: the stream goes on, one transfer short and with a hole in the
   data, although the comment at `fastftdi.c:346` says that it ends.

Noted while modelling, without a run of their own. The models have the code's
behaviour in each of these, unless stated otherwise.

* After an overflow in the middle of a packet, an RXCMD with RxActive set opens
  a new packet (`ovhw/cfilt.py:85`): the rest of the clipped packet comes out as
  a packet without the overflow flag. `CleanIsComplete` says what holds in spite
  of it.
* `SDRAMMux` sets `busy` on a request, not on its acknowledgement
  (`ovhw/sdram_mux.py:54`). When SDRAM_SINK_GO is cleared in between, `busy` stays
  set until a port that has the grant ends a command; a self test started then
  waits.
* A packet that begins with DIR and NXT while `ULPI_ctrl` is in a state of a
  register access gets no stuffed start (`ovhw/ulpi.py:184` and after; only IDLE
  stuffs one).
* An interrupted read raises `RegWriteAckSet` (`ovhw/ulpi.py:230`, `:244`, `:255`,
  `:267`), which would acknowledge a write pending at the same time. `LibOV.py`
  has one access pending at a time, so the model, which follows it, does not
  reach this; only the test bench of `ulpi.py` has both.
* An interrupt during a register access leaves its answer in the queue; the
  assertion at `host/LibOV.py:363` then fails in the `finally` part of `do_sniff`
  and the rest of the writes that stop the capture is not made. Hence
  `AnswersMatchUndisturbed` and not more.
* The report of the progress (communication thread) and a callback with data in
  the main thread, which is waiting for a write, both use `__buf`
  (`host/LibOV.py:610`). If they overlap, a frame is consumed twice, lost or cut. A doubled
  answer fails the assertion at `LibOV.py:363` of the next access, a lost one
  leaves its caller waiting, and a cut one raises. Hence `clash` in
  `AnswersMatchUndisturbed` and `CallReturns`.
* After a failure or an exception the clean-up runs while the main thread may be
  in `ReadStreamCallback`: a transfer with status 0 is freed (`host/fastftdi.c:466`)
  before line 330 has marked it, or `FTDIDevice_ReadStream` returns and its
  `FTDIStreamState` is gone. Hence the exception in `NoUseAfterFree`.
* The loop stores the result of its libusb call if there is none yet
  (`host/fastftdi.c:413`): a result that a callback in the main thread stores between
  the test and the store is lost. The next turn finds it again if it is a stop.
* An interrupt in a callback during a write is no `Exception`: ctypes reports it
  and returns something to `ReadStreamCallback`, and the data of the callback is
  lost (`InterruptCallback`).
* `RR0` of `ULPI_ctrl` ignores NXT (`ovhw/ulpi.py:224`): a PHY that accepts a read in the
  first clock of its command, as `FakeULPI` does (`ulpi.py:353`), is in the turnaround
  when RR1 looks, the access counts as interrupted, and the read is made again, with
  such a PHY for ever.
* A transfer whose submission fails keeps the status of one in progress
  (`host/fastftdi.c:395`): the clean-up sweeps for ever and `close()` does not
  return. Hence the exception in `CloseReturns`. A transfer that ended with an
  error is neither in progress nor freed: its memory is leaked.
* `do_sniff` switches the sink off before the capture (`host/ovctl.py:398`), so the
  packet with the LAST marker never reaches the host.
* The return value of `read_async` is ignored by the communication thread: after
  a failed transfer it reads again, and what that transfer held is lost.
* `do_sniff` closes the output while the packet handler is installed
  (`host/ovctl.py:403`): a packet that follows raises in the communication
  thread, which ends and is still joined (`CloseReturns`, `ExceptionEndsThread`).
* lb-test with a size of 0 blocks every register access (see section 2).

## 5. Proofs

Eight modules hold 32 theorems. Each has an inductive invariant `IInv` (in
`SdramCtl_proofs` `CtlInv` and `BistInv`, in `Sniff_proofs` `StreamInv` and
`FlowInv`), a lemma that every step keeps it, and the theorems that follow from
it. They assume what the ASSUMEs of the modules say of the constants;
the theorems of `SdramRing_proofs` assume `AtZero` besides, and one of them
`KeepsRoom`. Every invariant, action property and
refinement of the passing runs is proved; what is left to TLC is liveness.

**`Whacker_proofs`**, for every `Depth`, `MaxPacket`, `Data` and `Timestamps`:
`TypeCorrect` (`TypeOK`), `NeverLaps` (`NoLap`), `NeverOverruns` (`NoOverrun`),
`DrainedMeansRoom` (`RoomWhenDrained`), `ImplementsStream` (`StreamSpec`, the
refinement of `PacketStream`).

The inductive invariant is `IInv == TypeOK /\ RingInv`. `NoLap` is not inductive
by itself: it speaks of lengths, the code compares addresses. `RingInv` adds
where the pointers are: `pw` is `ph + 8 + size` round the ring while a packet is
assembled, the packet delivered ends where the one assembled begins, and when
the consumer is idle the two meet. From that, `HasSpace` (a comparison of
addresses modulo `Depth`) is translated by the lemma `SpaceMeaning` into the
number of bytes free; the step that writes a byte and the step that opens a
packet keep the lengths below `Depth` because of it, and no other step adds to
them. `DepthAssumption` (`Depth >= MaxPacket + 18`) is needed for
`RoomWhenDrained` and for the addresses to be unambiguous; the code has 1024
and 800. The proof of `NextIInv` has a lemma per conjunct (`RingInvStep`,
`FlagsStep`, `MarkersStep`, `MemoryStep`), each split on the actions that
disturb it.

`PacketStream` has the packet assembled and the packet delivered as sequences;
in the whacker both are runs of cells of one memory. The refinement rests on
three things: the two runs are apart (`Apart`, from `NoLap`), so a byte written
for one does not change the other, while the cells the consumer has read may
hold anything (`Junk`); the cells of the header written so far are those the
fields of the packet call for (`HeaderInv`), because no field changes once the
producer has left DATA (in particular the timestamp, which only an item taken
can set, and none is taken then); and a packet handed over begins where the
consumer stands. A clock may extend one packet and deliver of the other at once,
so a step of the whacker is one of each side of `PacketStream`, or none.

**`RxPath_proofs`**, for a FIFO of any depth and packets of any length:
`TypeCorrect` (`TypeOK`), `NoSplice` (`NeverSpliced`), `NothingClipped`
(`CleanIsComplete`).

Both properties are about a packet that has gone through two clock domains and a
FIFO; nothing in the filter's state alone implies them. `ChainInv` says of every
two items that follow each other on the way, in the ULPI side's register, in the
inserter, in the FIFO and at the filter, that the second may come after the
first (`Goes`): inside a packet, the next byte, an item at the same place, or
the marker of a loss. What the inserter replaces by a marker therefore never
joins two pieces. `BodyInv` and `ClosedInv` say that the payload collected is a
run of bytes from the start.

**`UlpiRegs_proofs`**, for any registers and values: `TypeCorrect` (`TypeOK`,
with it that ERROR is not reached), `WrittenOnce` (`WriteOnce`), `DoneMeansDone`
(`AccessDone`).

`BusInv` says what the PHY may be doing in each state of `ULPI_ctrl` (`InStep`),
that NXT follows from both, and that the states of an access are held only while
the access is asked for; `HostInv` is the four-phase handshake between the two
clocks, one access at a time and none begun before the acknowledge of the last is
gone (`Settled`, which the model assumes: a round trip over USB takes longer); `DataInv` says that with the acknowledge the
register has the value written, or the value read is the register's.

**`SdramCtl_proofs`**, for a chip of any size, every timing that meets
`ControllerAssumption`, and every master that keeps to the handshake: `TypeCorrect`
(`TypeOK`, `BistTypeOK`), `CommandsLegal` (`LegalCommand`: tRCD, tRP, tWR and tRFC;
tRAS and tRC, for which `SDRAMCTL` has no parameters, are not modelled), `RefreshInTime`
(`RefreshBounded`), `NoStray` (`NoStrayStrobe`), `RightWords` (`RightWord`), each
for the master of `SdramCtl` and for the self test, and `VerdictRight`
(`Verdict`).

`TimingInv` relates the clocks the chip must be left alone to the clocks the FSM
will still wait, state by state, and bounds `refresh_ctr` by the state. The argument
for `RightWord` is in `StreamInv`: the words in the read pipeline are consecutive
and without a gap, whatever may still be strobed has a master that waits for it
(`OwnerInv`), and the oldest word under way, or the row to be asked for when
none is, is the master's word (`AddrInv`). `tRP >= tCL + 1` is needed in
`PipeInv` (the pipeline is empty when a row is activated), `tWR <= 2` in
`ChipInv`. The step lemmas (`StepTypes` ... `StepAddr`) assume a master only as
far as the handshake, so the self test needs a proof of its own registers and
nothing more (`BistInv`).

**`SdramRing_proofs`**, for FIFOs of any depth and a ring of any size that begins
at address 0 (`AtZero`), where `do_sniff` puts it (`host/ovctl.py:287`) and where both
pointers are before they are switched on: `TypeCorrect` (`TypeOK`),
`PointersInStep` (`InStep`), `OnlyLappingLoses`, `RingIsQueue` (`Spec => QueueSpec`,
the refinement of `WordFifo`).

The first three hold however far the capture runs ahead, also after the defect of
finding 2 has struck. `OnlyLappingLoses` says that it is the only one: every clock
is a step of a FIFO, except one that puts `wptr` at the end of the ring while
`rptr` is at its base. `RingIsQueue` assumes `KeepsRoom`, at most `2 * Size - 1`
words under way, which the code does not ensure: with it that clock never comes.
`PortInv` says that a command outstanding is of the port granted, with its
pointer in step; `RingInv` that the two pointers are not at the end of the ring at
the same time, and that the cells from `rptr` to `wptr` hold words. `Transfer`
then shows that a clock moves words from sink FIFO to ring to read FIFO in order,
and `RoomInv` that `KeepsRoom` leaves no clock of the other kind.

**`CmdProc_proofs`**, for test packets of every size in 1 .. 255: `TypeCorrect`
(`TypeOK`), `NeverMisframed` (`NoFault`), `NoneHanging` (`NoHangingPacket`),
`PortImplemented` (`Spec => PortSpec`, the refinement of `CsrPort`).

`RequestInv` and `TokenInv` say that a request is in one place (host, decoder,
master, encoder) and that each place has what it was given. `FrameInv` and
`ContentInv` say that what the host has buffered is what the source granted has
sent of its frame and that the other sources have not begun, which is why a
frame never mixes two. `NoHangingPacket` needs the history of lb-test
(`ProgramInv`): a packet begun before the first stop goes before the answer to
the second (`GoesNext`), since the round robin gives the stream to the generator
after an answer, and none begins once `cfg` is 0. The lemma `Phases` cuts a clock
into the six things it can do to a request; the refinement takes effect in one
of them.

**`FtdiBus_proofs`**, for every depth of the FIFOs of the FPGA and of the FT2232H
and any number of requests: `OneDriver` (`NoContention`), `NeverOverflows`
(`NoOverflow`), `Duplex` (`Spec => DuplexSpec`, the refinement of `WordFifo` both
ways), `TypeCorrect` (`TypeOK`).

`IInv` has four parts: the bytes on either side are of the right kind (`Bytes`),
who drives the bus follows from the state of the FSM (`BusInv`), a flag that is
low promises a byte or a place (`FlagsInv`), and `NoOverflow`. The part that
carries the argument is in `BusInv`: in READ2, and only there, the strobe is out,
and both `rxf` and `writable` are still what READ saw, because nothing but the
transfer itself takes them away. So the byte taken in is the first one of the
chip and has its place (lemma `Strobes`), and a clock moves bytes from one part
of a queue to the next or leaves them (lemma `ClockMoves`), which the mapped
queue does not notice. The bound on the requests the host has out is `OwedInv`:
each is in exactly one place, down, in the logic, or as an answer up, so the
number the host counts is the number there.

**`Sniff_proofs`**, for any number of transfers, interrupts and frames under way,
cut short or not: `FreedWhenGivenBack` (`NoUseAfterFree`), `AnswersFitUndisturbed`
(`AnswersMatchUndisturbed`), `TypeCorrect` (`TypeOK`).

`NoUseAfterFree` is not inductive: a sweep frees a transfer by its status alone,
and a callback may be going on in the other thread. `StreamInv` adds that libusb
has a transfer only while its status is that of one in progress, and none when the
stream is not running (`Owned`); what the statement that the callback of the other
thread has come to says of status and result (`Beside`); and that a sweep which found
nothing in progress has left nothing behind it that comes back (`Cleaned`), so that
the last sweep really is. `HostInv` connects this with the program: a clean-up
begins only after a failure, an exception or a `close()` (`Ending`), a callback is
in the main thread only while that writes (`Writing`), and it does not write while
it closes. So an undisturbed end meets no callback in the main thread.

`AnswersMatchUndisturbed` speaks of the head of the queue; why it holds is spread
over three threads of control. `FlowInv` follows the answer on its way: as long
as there was no interrupt and no overlap there is at most one (`OneAtMost`), as a
request at the device (`Asked`), on the wire, in the hands of the main thread
(`InHand`), in the buffer or in the queue; it is that of the access that waits, and
everything else on the way is capture data or rubbish. Or it is `Nowhere`, lost
with its transfer. An access begins only with `Nowhere`. `BufInv` says that a buffer
that is not empty begins with a frame that raises, which goes on to raise; so the
callback (`CallbackDoes`), in either thread, leaves a frame in the buffer behind
that one, or finds the buffer empty and consumes the frame at once, and never
changes the order. An interrupt breaks `OneAtMost` for good: the answer it leaves
in the queue is the next one taken (noted in section 4).

Model-checked only: all liveness, which like ENABLED is out of the prover's
reach. `MarkerKept`, `ErrorStops` and `NoSelfCatch` are refuted by TLC
(section 4). No module uses RECURSIVE.

## 6. Not modelled

The FIFO between the clock domains and the memory blocks are migen/misoc
library code: the FIFO is modelled from its use, with readable and writable
seen late. Counters, LEDs, buttons and debug registers have no bearing on the
capture. `hardware/` (board design) is not a program. On the host: the output
formats of `ovctl.py` and the packet printers `usb_interp.py` and `usb_interp.c`
(decoding without state beyond the last token), the register map and the session flag of
`LibOV.py`, the asynchronous `FTDIDevice_Write` and the MPSSE and bit-bang set-up of
`fastftdi.c` (single transfers), what Python does with an open device when the
interpreter ends (`__del__` calls `close()`), `fpgaconfig.c` and `ftdieep.c`. `SDRAMRead` of
`LibOV.py` is not modelled. The time limits of `do_read` and `do_write` are
not used by any caller and are left out: an access waits without one.

## 7. Plan

In this order; each module composes or refines the ones before it.

1. `CaptureSession`: whacker markers, words left in the ring, `do_sniff` and the
   host's `got_start`, over several sessions.
2. `SdramRing` extended by a restart while a command is outstanding and by the
   self test as third port; `SdramCtl` shown to implement its controller.
3. `RxPath` composed with `Whacker`: timestamps, and that `to_start` is never
   needed behind the filter.
4. Output formats (timestamp unwrapping), FPGA configuration, EEPROM.

Proofs to follow: `SdramCtl` implements the controller that `SdramRing` takes for
granted.
