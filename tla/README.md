# Verification of the RDP file transfer (CSC361 A2)

The repository holds two programs: `rdps` sends a file over UDP and `rdpr`
receives it. They make UDP reliable with a protocol of their own (RDP): a
handshake (SYN), data packets (DAT) that are acknowledged one by one (ACK), a
sliding window, a timer for every packet, and a closing handshake (FIN). This
directory holds TLA+ models of them, the instances that TLC checks, and proofs
that TLAPS checks for every instance.

All paths below are relative to `src/src/` unless they say otherwise.

## The system

| component | state | operations |
|---|---|---|
| packets (`packet.c`, `packet.h`) | none | `create_packet`, `add_packet`, `send_packet`, `receive_packet` |
| wire format (`packet.c`) | none | `construct_string`, `deconstruct_string` |
| packetizer (`rdps.c`) | `data_packets` of the sender | the first half of `main`, `packetize` |
| timer list (`timer.c`) | list of `packet_timer` | `create_timer`, `add_timer`, `find_timer`, `start_timer`, `stop_timer`, `timed_out` |
| sender (`rdps.c`) | `timer_list`, `window`, place in `initiate_transfer` | `initiate_transfer`, `fill_window`, `update_windowBase`, `resend_timedoutPackets`, `packetACKd`, `allPacketsAcknowledged`, `handle_packet`; thread `poll_timers` |
| receiver (`rdpr.c`) | `data_packets` of the receiver, the output file | the loop of `main`, `store_dataPacket`, `DATisUnique`, `write_file` |
| log, statistics | counters | `print_log`, `print_statistics` |
| sockets | descriptor, addresses | `setup_connection` |
| sample RMTP receiver (`samplecode/receiver.c`, `rmtp.c`, `rmtp.h`) | `pcb`: state, next frame expected, ring of early packets; the output file | `rmtp_recv`, `rmtp_send_ack`, `rmtp_consume`, `reset`, `readpkt`, `sendpkt` |
| sample sender (`samplecode/sender-template.c`) | none | a stub without a protocol |

How they interact. The sender's main thread and its polling thread share
`timer_list` under `timers_mutex`; the poll sets `timedout`, the main thread
reads it, starts and stops timers. The programs share nothing but the UDP path,
which may lose, duplicate, delay and reorder datagrams in either direction. A
packet is acknowledged when its timer was started once and does not run; that is
the only record of acknowledgement. The receiver is stateless but for its list:
it answers every SYN, DAT and FIN with an ACK whose seqno is the packet's ackno,
and ends with the first FIN. The samples in `samplecode` are programs of their own:
a receiver of a similar protocol with cumulative ACKs and 32-bit numbers that
wrap, meant as the partner of a sender that is still to be written.

What is hard. ACKs are matched to timers by number alone, so numbers must not
collide; the FIN carries no proof that the data arrived; `occupied` is not the
number of bytes in flight (packets sent again are counted again, and the wrong
length is subtracted); `resend_timedoutPackets` uses a timer's index as a
packet's; the receiver is gone after the first FIN; loss, retransmission and
late ACKs interleave with polls in every way; a sender that is run again finds
the datagrams of the run before; a datagram is a string cut at semicolons,
which payloads may hold; the sample's sequence numbers and ring slots are used
again. `PROJECT.json` lists these hazards
with their lines.

What makes each part correct:

* packetizer: the numbers that the rest relies on; every byte in some packet;
  room for the NULL that ends the array;
* timers: the first timer with a number is the packet's, no search fails;
* sender: acknowledged only if stored; the window passes acknowledged packets
  only, is never overfilled, and always has its base under way; the FIN comes
  last; success only after the receiver took it;
* receiver: everything received is kept and written; nothing twice, in order;
* wire format: the header arrives whatever is in the payload;
* together: the file is complete when written, and it is written at last, also
  when the sender is killed and run again;
* sample receiver: messages in sequence, once each, none left out; cumulative
  ACKs that are true; no reset that an orderly sender provokes.

## Modules

| module | models |
|---|---|
| `RdpPackets` | `create_packet`, and by formula the packets that `packetize` makes |
| `Packetize` | `packetize` as the loop that it is, byte by byte, with the strings that `create_packet` copies |
| `RdpTimers` | `timer.c` |
| `RdpNetwork` | the UDP path: a set of datagrams in each direction |
| `RdpSender` | `initiate_transfer`, the functions that it calls, and `poll_timers` |
| `RdpTransfer` | sender, path, and the receiver as the set of what it has stored |
| `RdpPacketList` | the receiver's list: `add_packet`, `store_dataPacket`, and what `write_file` takes out of it |
| `RdpFile` | the receiver's variables, and what its list and file promise |
| `RdpReceiver` | `rdpr.c`'s loop with its list `data_packets`, and `write_file` |
| `RdpSession` | sender, path and that receiver |
| `RdpDelivery` | the abstract promise of a reliable transfer |
| `RdpRerun` | `RdpTransfer` with a sender that is killed, or gives up, and is run again |
| `WireFormat` | `construct_string` and `deconstruct_string` |
| `PacketsOnWire` | the packets of `Packetize` as datagrams, and what is taken out of them |
| `RmtpReceiver` | the sample receiver: `rmtp_recv` with its ring and its numbers |
| `RmtpTransfer` | that receiver, the path, and a sender as it expects one |
| `MCRdpTransfer`, `MCRdpSession` | bounds of the larger instances |
| `RdpPacketsProofs`, `RdpTransferProofs`, `RdpWindowProofs`, `RdpRerunProofs`, `RdpSessionProofs`, `RdpFileProofs`, `PacketizeProofs`, `RmtpProofs` | theorems and proofs |

`RdpSession` implements `RdpTransfer` (property `ImplementsTransfer`), and
`RdpTransfer` implements `RdpDelivery` (property `ImplementsDelivery`), so that
the programs are tied to the promise in two steps. `RmtpTransfer` implements the
same `RdpDelivery`. `Packetize` is tied to `RdpPackets` by `MakesTheNumbers`.

`RdpTransfer` extends `RdpSender` (with `RdpTimers` and `RdpPackets`) and
`RdpNetwork`; `RdpSession` joins `RdpSender` and `RdpReceiver` (with `RdpFile` and
`RdpPacketList`) over the same path; `RdpRerun` extends `RdpTransfer`, `PacketsOnWire` extends `Packetize` and
`WireFormat`, `RmtpTransfer` extends `RmtpReceiver`.

### State and code

* `pc` of `RdpSender` is the place in `initiate_transfer`; the module's header
  lists the places. `i` is the loop variable of `fill_window` and
  `update_windowBase`: one round of a loop is one step, because a poll can run
  between the rounds. `resend_timedoutPackets` holds the mutex all along and
  is one step.
* `timers` is `timer_list`, data packets first, then the SYN, then one timer for
  every FIN sent. Of `time_sent` only "is it -1" is kept (`sent`): the other
  values are read in `timed_out` alone, where `cur_time - time_sent` may exceed
  1000 clock ticks at any poll or none.
* `base_seqno` and `occupied` are the window's fields; its size is the constant
  `WINDOW_SIZE`. `occupied` is an integer that may be negative, as in C.
* `toReceiver`, `toSender` are the datagrams in flight. The sets make a second
  copy of a datagram the same as one that stays in flight after a delivery.
* `stored` (`RdpTransfer`) is the set of sequence numbers in the receiver's
  `data_packets`; `data_packets` (`RdpFile`) is the list itself, and `stage` how far
  the receiving program is.
* A receive that times out is an action (`ReceiveNothing`, `FinWaitNothing`,
  `SynRetry`) that is enabled whether a datagram is in flight or not.
* Reads of `clock()` against the 300 s limits may go either way each time.
* `receive_packet` parses its buffer also when `recvfrom` timed out. What is in
  it then is undefined; if it is an earlier datagram, that is handled again, which
  the model has as a datagram that stays in flight after its delivery.
* A byte of the file is its index in `data`, and `nuls` is the set of those that are
  NUL. `Junk` is a cell of a buffer that was not written since `malloc`: it may be NUL
  or not. `create_packet` copies with `strcpy` (packet.c:23, :51), so a packet gets the
  buffer's cells up to the first NUL only: `StringEnds` are the cells that it can be in.
  The first cell of a packet after the first is never written (rdps.c:206-218 counts a
  byte that went into the packet before), and when it happens to be NUL, the packet
  holds nothing.
* A string of `WireFormat` is a sequence of characters; a number is one
  character, a byte of a payload is a semicolon, a NUL or another, and `length_bytes`
  are the lower two bytes of the length, which follow the payload in memory and are
  read after one that has no NUL.
* `state`, `NFE` and `pkts` of `RmtpReceiver` are fields of `pcb`, `valid` is a
  field of each slot here; `output` is what was consumed, in order, with `Nothing` for
  a packet without a payload. Numbers are taken modulo
  `SEQ_SPACE`, which stands for 2^32, and compared as `SEQ_LT` and `SEQ_GEQ` do it,
  by the sign of the difference.

An operator with an underscore and a "Fault" comment (`packetACKd_Unsent`) is a
plausible bug of the definition after it. It is used by no specification;
`PROJECT.json` pairs each with the property that it breaks.

## Runs

Passing:

* **delivery** (`RdpTransfer`, 2 packets, window of 1 packet, 134705 states). No
  bound on the channels: the packets of a transfer are few, and every subset of
  them can be in flight. Loss, duplication and reordering at every step, timeouts
  of either program and of any timer at any time. Checks the type invariant,
  `AckedIsStored`, `WrittenIsComplete`, `SuccessMeansWritten`, `NeverAborts`,
  `PathTellsTheTruth` and the refinement of `RdpDelivery`. The file's last
  packet is shorter than the payload size, the case in which the FIN's number is
  its own.
* **window** (`MCRdpTransfer`, 4 packets, window of 2). Four packets let the
  window slide past the loss of any packet, jump over several, and end with a
  short packet at a seqno that breaks the rule of the others. At most 2 datagrams
  are in flight in each direction, and polls are looked at where they have an
  effect, before `resend_timedoutPackets`. Checks `WindowIsSlid`, `BaseIsSent`,
  `FlightFitsWindow` (from the oldest packet under way to the newest there are no
  more payloads than a window holds), `ResendsTheExpired` and the action properties
  `AcksAreFinal` and `ResendsOnce` (a packet that was found late once is not sent again
  a second time: `start_timer` must clear the mark, which survives `stop_timer`).
* **liveness** (`RdpTransfer`, as delivery, with fairness). `FileIsWritten`.
* **arrival** (`MCRdpSession`, 3 packets, window of 1, lists of up to 4). The
  receiver's list with a duplicate in any place. Checks `ImplementsTransfer`,
  `FileHasEveryPayload` and `OvertakesWithinWindow`.
* **numbers** (`PacketsOnWire`, all files of 1..10 bytes with payloads of 1..4, and
  every choice of up to two bytes that are NUL). Every remainder of length by payload
  occurs, with up to 10 packets, and with floats that count to 8 files on both sides of
  the bound of `RoomForNull`. `HoldsStretchToNul` is what the packets hold: a NUL can be
  the first byte of its stretch, which is not copied anyway, or any other, and be behind
  another NUL; a Junk cell is NUL or not at each packet. When the
  packets are made, they and their ACKs are sent as strings, with every payload
  over semicolon, NUL and other characters: `HeaderSurvivesPayload` and
  `PayloadArrivesToSemicolon`.
* **rerun** (`RdpRerun`, 2 packets as in delivery, two more runs of the sender).
  The sender is killed at any step and starts afresh with the same file, while
  the receiver waits on with what it has, and datagrams of the earlier runs are
  in flight both ways. `AckedIsStored`, `WrittenIsComplete` and
  `SuccessMeansWritten` hold as before. `NeverAborts` does not: an ACK of an
  earlier run's FIN has no timer in this run, and `handle_packet` exits;
  `AbortMeansWritten` says that the file is written by then.
* **rmtp** (`RmtpTransfer`, 5 messages, window of 3, 573508 states). Initial
  numbers 9 and 11 of 12, so that numbers wrap within the data and right at its
  start, and the window's end wraps before its start. `DeliveredInSequence`,
  `AcksTellTheTruth`, `RingIsAhead`, `NothingNewIsTurnedAway`, `ResetIsProvoked` and
  the refinement of `RdpDelivery`.

Violations, each of something that the repository says of itself:

* **collision**: `SuccessMeansWritten` fails for a file that full payloads make
  up. The FIN's ackno `file_length + payload_size` is then the last data
  packet's, and a late ACK of that packet ends the transfer with success.
* **finack**: the FIN's ACK, received at the top of the main loop, does not end
  the transfer (`FinAckEndsTransfer`, rdps.c:364). The receiver has ended, so no
  other will come.
* **silence**: the receiver reads its clock only after a packet, so "ultimate
  time out" (timer.h:11) fails when nothing comes (`ReceiverEnds`).
* **twice**: "if packet has already been stored, ignore it" (rdpr.c:191) fails:
  a DAT that arrives twice is in the file twice (`NothingIsStoredTwice`).
* **bytes**: the first byte of every packet after the first is in no packet
  (`EveryByteIsPacked`). In this instance no file has a NUL. What else is lost is in
  `HoldsStretchToNul`: all of a stretch after its first NUL, and all of it when the
  cell of the first byte happens to be NUL.

### Bounds

Sizes are scaled down together: `MAX_PAYLOAD_SIZE` 3 stands for 1024 and a
`WINDOW_SIZE` of one or two payloads for ten. 3 is the least payload size for
which a short last packet of 2 bytes differs from 1 byte and from a full one.
`MAX_TIMERS` bounds the FIN timers: a second FIN timer is never found by
`find_timer`, so that a list without it behaves the same. `MAX_PACKETS` bounds
the receiver's list by ignoring packets beyond it (they stay in flight).
`ChannelBound` bounds the datagrams in flight in the larger instances.
`MAX_RERUNS` bounds how often a sender starts again; two are enough for datagrams
of two earlier runs to meet a third. `FLT_INTEGERS` is the number up to which floats
count, 2^24 in the code, of which the model keeps that it is a power of two: lengths
up to 8 are within it in the instance, those above are what the bound in
`RoomForNull` is about (without it a file of 9 bytes and payloads of 4 would be the
counterexample that 2^24+1 bytes are in the code). `MaxLength` and `MaxPayload` bound files
and payloads, `MaxNuls` the NULs of a file; the proofs hold for any such bounds. `RMTP_MAXWIN`
stands for 128 and `SEQ_SPACE` for 2^32: the ring assumes that its length divides
the number space, which holds of both, and a sequence number is not used again
while its packet can be in flight (`MessagesAssumption`), which the samples
leave to the network. Deadlock is not checked: programs end.

### Fairness

`FairSpec` assumes weak fairness of the sender's own steps (the main thread is
never blocked for good: `recvfrom` has a timeout), weak fairness of polls that
find data packet k's timer late while it keeps running (the thread polls every
10 ms, and CPU time passes with every poll), and of the path strong fairness of
sending, receiving and answering each packet: what is sent again and again gets
through at last. The receipt of the FIN is weakly fair. Nothing forces a
program to time out; `FileIsWritten` excuses behaviours in which one does.
`TimelySpec` adds that a receiver which goes on getting packets ends or finds
its 300 s used up; it serves `ReceiverEnds` only.

## Proofs

`RdpPacketsProofs` proves the arithmetic of the packets from `SizesAssumption`
(non-empty file, positive payload, window a whole number of payloads): the
division of the file's length (`FullPacketsFact`), the numbers of each packet
(`DataNumbers`), that they grow and are distinct (`NumbersGrow`,
`NumbersDistinct`). It also has the facts on the receiver's list. The one with
content is `DatAppended`: `store_dataPacket`, called when `add_packet` has appended
the packet, finds that copy or an earlier one and overwrites it by itself, because
numbers are distinct; so the list grows by the packet, and its set of numbers by
one (`SeqnosAppended`).

`RdpTransferProofs` proves, for all values of the constants:

* `FinAcknoCollides`: the FIN's ackno is a data packet's exactly when the payload
  size divides the file's length;
* `Invariance`: `Spec => []IInv`, and from it `TypeCorrect`, `AckedStored`,
  `PathTruthful`, `WrittenComplete`, `NoAbort`, `ResendsRight`;
* `SuccessSound`: `SuccessMeansWritten`, if the last packet is not full.

The argument. `AckedIsStored` is not inductive: an ACK in flight must be of a
stored packet, which is the first part of `PathTellsTheTruth`, and the timer
that it stops must be that packet's and no other's. The latter is `InPlace` in
`TypeOK`: data timer k is at index k, then the SYN's, then the FINs', and a
running timer is the first with its number. With the numbers distinct,
`find_timer` returns index k for packet k (`FindInPlace`). `WrittenIsComplete`
needs that a FIN is in flight only when all is stored, and `NeverAborts` that a
FIN in flight has a timer (`FinIsTimed`). When the FIN's number collides, an ACK
of the FIN stops the last data packet's timer, which is stored by then: the
invariants hold all the same, only `SuccessMeansWritten` needs the numbers
apart. Steps are sorted by what they do to timers (`TimersStep`), channels
(`ChannelStep`) and control (`ControlStep`); `StepsKeepInvariant` joins the
three. To see `IInv` hold on the delivery instance, run TLC on
`RdpTransferProofs` with the constants of `RdpTransfer_delivery.cfg` and
`INVARIANT IInv`.

`IInv` is in two parts. `Facts` is what holds of a run of the sender whatever is
in flight when it starts; the other part, `NeverAborts` and `FinIsTimed`, is what
holds only when nothing is. **`RdpRerunProofs`** proves that `Facts` holds of any
number of runs (`RerunInvariance`), hence `RerunAckedStored`,
`RerunWrittenComplete` and, if the last packet is not full, `RerunSuccessSound`.
A new run forgets all that was acknowledged, so that nothing has to be stored for it,
and what it finds in flight is true because nothing is ever taken out of the
receiver's list. What becomes of `NeverAborts` is `AbortMeansWritten`
(`RerunAbortWritten`): an ACK without a timer is one of a FIN of an earlier run.

`RdpWindowProofs` proves the sender's window:

* `WindowInvariance`: `Spec => []WInv`, and from it `BaseSent` (`BaseIsSent`),
  `WindowSlides` (`WindowIsSlid`), `FlightFits` (`FlightFitsWindow`);
* `AcksFinal`: `AcksAreFinal`, if the last packet is not full;
* `ResentOnce`: `ResendsOnce`;
* `Implementation`: `ImplementsDelivery`, if the last packet is not full.

The first are not inductive, because `occupied` does not count what is in flight.
`WInv` joins to `IInv`: nothing is sent before the SYN is acknowledged
(`NotBegun`); packets are sent in the order of their index (`SentInOrder`), which
needs to know how far `fill_window` has come (`FilledSoFar`); all before the base is
acknowledged (`BehindBase`). `occupied` is too large rather than too small: it covers
the full packets from the base to the last one sent (`OccupiedCovers`), because
every move of the base, which is by one packet, takes off the length of the new
base and never more than a full payload, and a packet that is sent again is only
added. So what is sent fits the window (`SentFits`).
That it is not so large that the base itself finds no room (`RoomForBase`) holds
because it is a whole number of payloads and at most the window as long as the
short last packet was not sent (`OccupiedWhole`), and a move of the base to a
packet that was not sent takes one off. `FillSend` and the move of the base are
the steps with work in them; `WindowLeft` and `WindowAside` dispose of the others.

What a step can do to the timer of a data packet is `DataTimersStep`, of every step by
`NextDataTimers`: `AcksFinal` takes from it that an acknowledged packet's timer is not
started again, `ResentOnce` that only a poll makes a timer late. A late packet's timer
is the one that `resend_timedoutPackets` restarts because it is in its place
(`NoneLeftLate`).

For `Implementation`, every step of the two programs and the path is a step of
`RdpDelivery` or a stutter. Writing asks for all packets acknowledged *when the FIN
arrives*: `FinAfterAcks` keeps that from the sending of the FIN on, by `AcksFinal`'s
argument. The assumption `LastLength # MAX_PAYLOAD_SIZE`, of these two theorems and of
`SuccessSound`, `RerunSuccessSound`, `SessionSuccess` and `SessionDelivers`, is the case of the run **collision**: by
`FinAcknoCollides` the FIN's ackno is then no data packet's, and sending the FIN
restarts no data timer. It cannot be dropped.

`RdpSessionProofs` proves `SessionTyped` and `SessionImplementsTransfer`: the session
implements `RdpTransfer`, for all sizes and without an assumption on the last
packet. The receiver's side rests on `DatAppended`; `write_file` is a stutter. The
sender's definitions come to the refinement twice, from `RdpSender` and through the
instance of `RdpTransfer`; `SamePackets` to `SameSender` say that they are the same.

`RdpFileProofs` takes the theorems on `RdpTransfer` over to the session. A theorem
cannot be cited through an instance, so this module looks the other way: it extends
`RdpTransfer`'s proofs and has the session as the instance. The session has no
`stored` and no `receiver`; `Seen` says that these are the functions of its list and
stage that the refinement mapping gives. That is no restriction of the session,
every behaviour of which can be given these two variables. `SessionIsTransfer` is
that the session is then a behaviour of `RdpTransfer`, so that every theorem above
holds of it. These use it:

* `OrderWithinWindow` (`OvertakesWithinWindow`). A data packet in flight was sent
  (`SentFirst`, an invariant of `RdpTransfer` proved with the window's). So it is not
  beyond the window's end, all packets more than a window before it are before the
  base, and acknowledged (`WindowIsSlid`), and stored (`AckedIsStored`): they are in
  the list when it is appended (`ArrivesInWindow`), and the list only grows.
* `FileComplete` (`FileHasEveryPayload`). All packets are stored when a FIN is taken
  (`WrittenIsComplete`), and the file is the list as it was then (`FileIsTheList`).
* `SessionSuccess` and `SessionDelivers`, if the last packet is not full: success means
  that the receiver is out of its loop with every packet in its list, and the two
  programs with that list implement `RdpDelivery`.

`PacketizeProofs` proves, for all `MaxLength`, `MaxPayload` and `MaxNuls`,
`PacketsInvariance` (`Spec => []PInv`), `PacketizeTyped`, `Numbers` (`MakesTheNumbers`, so
that the other proofs stand on the loop and not on a formula for it) and
`PacketsHoldText` (`HoldsStretchToNul`). `PInv` says for every cell of the buffer which
byte it holds (`Place`), the first cell after the first packet being Junk; of every
packet, that it holds such a buffer up to a cell that is the first NUL, or Junk with
no NUL before it (`HoldsUpTo`); and that the bytes read are those of the packets and
of the buffer. `PacketsHoldText` then follows from where the string can have ended: at
a NUL of the file, after all the bytes that were written, or in the first cell.

`NullHasRoom` (`RoomForNull`) is that the array which `main` allocates has an entry
for every packet. A length up to `FLT_INTEGERS` is the same as a float, the greatest
one because it is even (`FloatExact`), and the quotient rounded up is the number
of packets made when the loop is done, and no less before (`EntriesSuffice`).

It then proves what the wire format makes of those packets: `HeadersSurvive`
(`HeaderSurvivesPayload`) and `PayloadsArrive` (`PayloadArrivesToSemicolon`).
`deconstruct_string` cuts the string at its n-th semicolon, defined by counting; the
lemmas say when a place is the n-th (`FirstSep`, `NextSep`) and that there is only
one. The header of a datagram, whose characters are known one by one
(`HeaderChars`), has the first five semicolons whatever comes after it
(`HeaderCuts`), so each of its fields is what was put in (`HeaderArrives`). The
payload's field ends at the string's sixth semicolon, which is the first one of
the text that was sent or the one that `construct_string` puts behind it
(`PayloadField`); the text ends with the first NUL (`CStringFact`), or with the byte
that follows a payload that has none (`TextSent`).

`RmtpProofs` proves of the sample receiver, for every window, number space that the
ring's length divides, first number and count of messages: `RmtpTypes`, `InSequence`
(`DeliveredInSequence`), `AcksTrue` (`AcksTellTheTruth`), `RingEnough` (`RingIsAhead`),
`NewIsTaken` (`NothingNewIsTurnedAway`), `ResetProvoked` (`ResetIsProvoked`) and
`RmtpImplementsDelivery`. They follow from `RInv` (`RmtpInvariance`). The properties
speak of established connections only, so `RInv` adds what holds before and after
(`RingAhead`), which packets and ACKs may be in flight (`SentInTurn`, `AcksInTurn`), and
how far the two programs are apart (`InStep`): the next frame expected is the number
after the messages consumed, and the sender's count of acknowledged messages is not
beyond them. That is what puts a message that is sent into the receiver's window, or
before it, and never so far off that its number means another message. The arithmetic
is in lemmas about differences: numbers are sums modulo `SEQ_SPACE` (`PlusFacts`),
two less than the space apart are different (`NumbersApart`), and the signed
comparisons of `InFeasibleWindow` come to a distance less than the window
(`Feasible`), wherever in the space the window wraps. `SlotsApart`, that two numbers of
a window never share a slot, is where the ring's length must divide `SEQ_SPACE`. The loop
of `rmtp_recv` over the ring is taken at its end: the least number of entries after
which an entry is not valid (`LeastNumber`).

Every invariant and action property that a passing run checks is so proved, and
each refinement. Only model-checked is liveness (`FileIsWritten`), because fairness and
`ENABLED` are beyond the provers. Of the runs that find a violation there is nothing to
prove but `FinAcknoCollides`, which says for which files **collision** happens.

## Not modelled

* What overflows a buffer: numbers of four or more digits in the buffers that
  `construct_string` formats them in (packet.c:190), fields gathered with `strlen`
  in memory that is not clear (packet.c:263). The behaviour is undefined and
  depends on the allocator; `WireFormat` is the code for numbers that fit and
  memory that is clear.
* What is read or written past an array: a string that is longer than the payload and
  its length, because nothing behind a full buffer is NUL (packet.c:51; the model takes
  the cell behind the last one written to end it); an empty file, more than `MAX_TIMERS`
  timers or `MAX_PACKETS` packets, the loop over the new array (rdps.c:129).
* How many bytes of a payload are written: `write_file` writes `sizeof(payload)` bytes
  for every packet, whatever its length (rdpr.c:227), so that the file is padded with what
  the packet's memory held. `RdpFile` keeps which payloads are written, and in which
  order; `PacketsOnWire` what of a payload is the file's. That a payload is cut at its
  first semicolon or NUL, and that packets are written in the order of their arrival,
  is in the passing properties `PayloadArrivesToSemicolon`, `HoldsStretchToNul` and
  `OvertakesWithinWindow`, which say how far the file can differ from the one sent.
* A property of the open that fails (rdpr.c:218): the action `write_file` has it, but the
  FIN was acknowledged before, and nothing tells the sender.
* RST in `rdpr.c`: the receiver handles it, nothing sends it.
* Counters and logs. (`DATisUnique` runs after `add_packet` and is always true;
  `fill_window` counts packets sent again as unique. No step reads the counters.)
* `setup_connection`, the arguments and the makefile: nothing of the protocol.
* The sample sender is a stub; `RmtpTransfer`'s sender is external, taken from the
  numbers and packets that `receiver.c` accepts. The branch of `rmtp_recv` for
  `TIME_WAIT` (receiver.c:85) is never reached, since the loop ends in that state.
  Of `rmtp.c`, `readWithTimer`, `nonblock`, `now` and `hostname_to_ipaddr` are for a
  sender; short packets are counted and dropped, like lost ones; a `read` that
  fails passes for a long packet (receiver.c:198), which is undefined.
* A sender run again with another file: nothing in the protocol tells the two
  files apart, and the receiver stores packets of both.

## Plan

1. A bound on the receiver's list: how often a packet can be in it, by how often it
   was sent and repeated.
2. Action properties of the receiver: the list only grows, and not after a FIN.
