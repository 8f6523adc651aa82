# A verification development for MiniHF

MiniHF is the firmware of a small HF transmitter (Zephyr RTOS, C) and a host
library that commands it over a serial line (Rust). This directory holds TLA+
modules that model its parts, TLC configurations that check small instances of
them, and proofs of the most important results for every instance. Paths below
are relative to the repository.

## 1. The system

### Components

| component | state | operations | what makes it correct |
|---|---|---|---|
| Transmit engine `src/radio/tx_engine.c` | `active_seq`, its `current_index`, `engine_active`, `tx_timer`, `tx_work`; the regulator's use count and the clock output | `tx_engine_start`, `tx_engine_stop`, `tx_timer_expiry`, `tx_work_handler` | each symbol is played in order for its whole time; there is one wakeup pending while it plays; the amplifier is powered during on symbols only; a sequence ends |
| UART receive path `src/uart_handler.c`, `src/protocol/cobs.c`, `packet_parser.c` | `rx_ring_buf`, `rx_pkt_msgq`, `rx_dispatch_work` | receive half of `uart_isr`, `rx_dispatch_handler`, `parse_dispatch_packet` | a dispatched packet is one that was sent, once and in order; damage does not spread for ever; no queued packet is forgotten |
| UART send path, same files | `tx_ring_buf`, the transmit interrupt | `send_packet`, `send_uart_data`, transmit half of `uart_isr` | bytes leave in order and do leave; damage by a full buffer stays local |
| COBS codec `src/protocol/cobs.c` | none | `cobs_encode`, `cobs_decode` | round trip, no zero inside, sizes the buffers rely on |
| Host library `minihf_api/src/lib.rs` | `next_id`, `responses`, `port`, `is_running`, the reader thread | `transact`, `send_only`, `spawn_reader_thread`, `close` | an answer belongs to the call that gets it; every call returns; the reader ends |
| Radio commands, antenna switch, boot `src/radio/radio_cmd.c`, `hardware/tr_switch.c`, `main.c` | `tx_active` and the two pins, the test signal, how far `main` is | the command handlers, `main` | the amplifier follows the engine across commands, boot and resets, and is not powered up into the receiver; pins and flag agree |
| CW, RTTY, WSPR encoders `src/modes/encoders/` | the sequence they fill | `generate_cw_sequence`, `generate_rtty_sequence`, `generate_wspr_sequence` | the array is filled exactly; a receiver can read what was sent |
| FTX packing `modes/ftx.c` | the buffer of 77 bits it fills | `encode_ftx_payload` and an encoder for each field | a receiver that cuts the bits by the fields' names reads every field |
| Clock driver `drivers/clock_control/clock_si5351a.c` | `plla_freq`, `pllb_freq`; the chip's registers | `si5351a_set_pll_freq`, `si5351a_set_ms_freq`, `si5351a_enable_output`, `si5351a_init` | an output runs at what was last asked for; the driver knows what the PLLs run at |
| Regulator driver `drivers/regulator/regulator_tps55289.c` | the reference and mode registers, the use count | `tps55289_set_voltage`, enable, disable, init | the voltage asked for comes out (it does not: section 5) |
| Payloads and settings `payload_utils.h`, `radio_cmd.c`, `lib.rs` | `base_frequency`, the clock, the test signal | the commands that set and get, on both sides | what was set comes back; a refused command changes nothing |
| Display, LEDs, FT8 | | | pure output; `ft8.c` is empty |

### How they interact

```
 host threads --transact--> port --line--> uart_isr --rx_pkt_msgq--> rx_dispatch_handler
      ^                                                                    | command handlers
      |  responses map                                                     v
 reader thread <--line-- uart_isr <--tx_ring_buf-- send_packet      tx_engine, tr_switch,
                                        ^                           regulator, clock
                    main (boot, status line) + printk/log                  ^
                                                          timer interrupt -+ tx_work
```

The command handlers, `rx_dispatch_handler` and `tx_work_handler` all run on
Zephyr's system work queue, a cooperative thread. It preempts `main`, and
interrupts (UART, timer) preempt both. On a bus access the work queue waits and
`main` can run. On the host, callers, the reader and a closing thread share a
port lock and the lock of the response map. The clock chip's output is enabled by
`main` and disabled by `tx_off` on the work queue, each with a read and a write.

### What is hard

- the timer's interrupt against `tx_engine_stop`, at each of its steps;
- the use count of the regulator (Zephyr counts enables), shared by the engine,
  the regulator command and the driver, with bus accesses that fail unnoticed;
- commands served during the boot, before and while the parts they use are set up;
- a reset that restarts the microcontroller and not the chips;
- bytes lost or damaged on the line: frames joined, cut, left over in the ring;
- two threads putting into `tx_ring_buf` without a lock, of which the one that
  preempts can come between the other's read of a position and its write;
- a late answer, a timeout and a reuse of an id in the host library;
- encoders that size an array in one pass and fill it in another, and fields of
  a message side by side in 77 bits;
- a PLL and dividers set in several accesses, from a frequency the driver
  remembers, by a microcontroller that can be reset without the chip;
- numbers in three units and two byte orders between the host and the chips.

`PROJECT.json` lists each of these, and the numeric edges, at its line.

## 2. The modules

| module | models | refines |
|---|---|---|
| `Keying` | promise of the engine: one sequence at a time, symbol after symbol | |
| `TxEngine` | `tx_engine.c` | `Keying` |
| `Radio` (extends `TxEngine`) | the engine with the commands, the antenna switch, the boot and resets | `Keying`, step by step, unless started early |
| `Channel` | promise of a serial direction: packets whole, in order, at most once, any may be lost | |
| `UartRx` | receive half of `uart_handler.c`, `cobs_decode`'s checks, the parser's checks | `Channel` |
| `UartTx` | send half, with `send_packet` and the host's cutting into packets | `Channel`, unless two puts overlap |
| `Rpc` | promise of the host library to one call | |
| `HostApi` | `transact`, `send_only`, the reader thread, `close`; line and device around it | `Rpc` |
| `Cobs` | `cobs_encode` and `cobs_decode`, a step per byte and per block | |
| `Cw`, `Rtty`, `Wspr` | the encoders, a step per character or bit, each with a receiver to judge it | |
| `Ftx` | `encode_ftx_payload`, a step per field written, with a receiver | |
| `Morse`, `Ita2`, `WsprCode`, `FtxCode` | their tables and pure functions | |
| `Encoders` | composes the four: one of them is called | |
| `Clock` | `clock_si5351a.c` and the chip's registers | |
| `Payload` | `payload_utils.h`, bytes of numbers | |
| `Settings` | what the host asks for and the device has: calls of the library, payloads, handlers, the regulator's voltage | |
| `Devices` | composes `Clock` and `Settings` | |
| `Chars` | characters, bits and bytes | |
| `TxEngineProofs`, `RadioProofs`, `UartRxProofs`, `UartTxProofs`, `HostApiProofs`, `CobsProofs`, `EncodersProofs`, `DevicesProofs` | theorems about the module of that name, for all constants | |
| `*MC` | small instances for TLC | |

### Correspondence with the code

- **TxEngine.** `seq`, `index`, `active` are `active_seq`, `current_index`,
  `engine_active`; `timer` and `txWork` say that `tx_timer` runs and `tx_work` is
  queued. `pc` is the place of the work queue thread in a call: `tx_engine_stop`
  is the four steps `StopTimer`, `CancelWork`, `StopOff`, `Clear`; `Start` is the
  check and the call of stop, followed by `Begin`, `Apply`, `Arm`. `Expire` is the
  interrupt and comes between any two steps. `refcnt` is Zephyr's use count and
  `clk` the clock output, as the engine's calls change them; a bus access succeeds
  or fails by choice from `I2c`. A sequence is the on/off pattern of its symbols
  and `repeat`; frequencies and durations are left out. `elapsed` and `tidy` are
  history: the symbol's time is over; no access failed and every sequence played
  was keyed (no two on symbols in a row).
- **Radio.** `main` is how far the main thread is; each step of the boot that
  touches a device the transmitter needs is an action, and comes when the work
  queue is idle or waits for the bus. Each command is an action; those that start
  the engine continue with the engine's own steps. `oe` is the regulator chip's
  output, which `OutputFollowsCount` switches when the use count leaves or reaches
  zero, and which outlives `Reset`. `early` and `raced` are history: the engine was
  started before `tx_engine_init`, and no signal has begun in order since; the latest
  antenna command came inside `tr_switch_init`. A signal begins in order when `main`
  is in its loop and the antenna on transmit.
- **UartRx.** A byte names its frame and its place in it, so that a whole frame
  can be told from anything else; that is what the CRC and the length do.
  `EndOfFrame` and `Store` are the two branches of the receive loop of `uart_isr`,
  one byte at a time; `Decode` is `cobs_decode` and the checks after it, both
  outcomes allowed where they depend on the bytes. The host's frames, losses and
  damage are `SendFrame`, `ByteArrives`, `ByteLost`, `ByteDamaged`. A packet for
  which the message queue is full is dropped as in the code.
- **UartTx.** The ring buffer has a memory and positions as in Zephyr. A put of
  `main` is claim, copy byte by byte, claim again (at the end of the memory, or
  when the first claim got too little), finish. Claim and finish are unlocked reads
  and writes, which the model takes apart: `MainPut` and `MainClaim` read where a part
  goes and how long it can be, `MainTake` moves the head; `MainFinish` reads the tail,
  `MainCommit` moves it, `MainForget` sets the head to it. What is written is reckoned
  from what was read, or from the position as it is by then, as the compiler may do
  either. A reply's put is one step: nothing but interrupts comes in between, they
  move `get` alone, and where they do so inside the put changes only how much room it
  finds, which is the same as their coming before or after it. `HostReads` is the host
  cutting the bytes at zeros. Console text bypasses the buffer. `raced` is history:
  a reply was put while `main` was in a put. `late`: it was put between a read of
  `main`'s and the write that follows. `torn`: that write has been done. From then on
  Zephyr's positions do not fit each other (`get` can be past the tail, and its own
  bases, which the model does not have, are off too); the model stops there and
  promises nothing about what follows.
- **HostApi.** A call is `TakeId`, `Write` (or `WriteFails`), then `Find` or
  `Expire`; the deadline may pass at any time. `responses` is the map as a set of
  packets. `close` is three steps, of which the last two hold the port lock. The
  line loses packets in either direction; `Execute` answers each command.
- **Cobs.** The loops of both functions, a step per byte and per block.
- **Cw, Rtty.** The first pass over the text is a function, the second one actions.
  A Morse symbol is on or off for a number of dots; a tone of RTTY is mark or space.
- **Wspr.** Validation and packing are functions, `convolve` is an action per bit
  of the packed message until the array is full (`Through`: 81 of 88 bits),
  interleaving and the sync vector one action with the allocation. Tones are
  numbered 0 to 3. The tables are in modules of their own, which have no variables,
  so that TLC computes them once.

- **Ftx.** A message is a record with the fields of its struct in `ftx.h`.
  `FtxCode!Writes` is the body of `encode_ftx_payload`: for each type the fields,
  their positions and bits, in the order of the code; `Ftx!Pack` is `pack_bits`,
  which sets bits and clears them. Numbers of 58 and 71 bits are sequences of
  bytes, as `encode_f71` has them. The receiver does not use `Writes`: it cuts the
  bits by the widths that the fields' names give, and reads each field on its own.
  `T71` is `encode_t71`, which makes the bytes of a telemetry message of digits.
- **Clock.** `known` is `plla_freq` and `pllb_freq`, 0 when not configured; `pll`,
  `ms`, `ctrl` and `disabled` are the chip's registers as the driver computes them,
  cut to their widths. Every access may fail, and then leaves the chip as it was.
  `si5351a_enable_output` is two actions, `EnableRead` and `EnableWrite`, and
  `enabling` what a thread has read and will write: `main` enables an output in the
  boot, between its other calls, and `tx_off` disables one on the work queue at any
  time. What the register ends up with is not part of a property.
  `Reset` is a reset of the microcontroller and `si5351a_init`; the dividers keep
  what they had. `asked` is history: the last call for an output that succeeded.
- **Settings.** A call of the library is one action with its check of the argument
  and its payload, a handler another, with the reply, and `Return` what the library
  makes of it; `Timeout` loses the packet or the reply, at any time. A handler reads
  its payload by `Payload!Read` and answers by `Payload!Written`, which keep the
  errors of the cursors. Voltages are in tenths of a volt, the regulator's reference
  in its register's steps; `regulator_set_voltage` may also refuse before the driver is
  reached (the range it compares with is not in the driver's configuration structure),
  and before it has been reached once the chip has its power-up value. `told` is history: which values the device may have, as
  the host knows from the answers; a call without an answer adds one.
- **Devices.** The clock's driver, or one family of commands (time; frequency,
  antenna and test signal; regulator). They share no state, so that the families
  are looked at one at a time.

`map` in `PROJECT.json` names the lines of every definition.

## 3. What the runs show

| run | instance | shows |
|---|---|---|
| `tx_engine` | four sequences: one dot, dot-gap-dot, a repeated dot, one that starts off and has two on symbols in a row; accesses fail; use count up to 2 before a start | `OneWakeup`: one wakeup while playing, none otherwise. `PaFollowsKeying`: amplifier on exactly during on symbols while the history is tidy. `PlaysInOrder`: refinement of `Keying`. `SequenceEnds` |
| `radio` | the test signal, every command, boot and resets in any order | `AmplifierFollows` across boots, resets and commands; `PowerUpInTransmit`: every step but the host's command to the regulator; `AntennaAgrees`; the refinement and `SignalEnds` with commands as the caller. After a signal that was started too early, each holds again from the next signal on; after an antenna command inside `tr_switch_init` the active transmitter has its antenna on transmit nevertheless |
| `uart_rx` | 6 frames of 1 to 3 bytes, 2 faults, a ring of 6 bytes of which 4 are taken at a delimiter, a queue of 2 | `IsChannel`: nothing forged, repeated or overtaken. `ResidueShrinks`, `InSync`: after a fault at most `Recovery` frames are lost. `NoLostWakeup`, `Handled` |
| `uart_tx` | 5 packets of 2 bytes, a ring of 3, one character of console text | `RingInOrder`, `Kicked`, `Drained`; `DamageIsLocal`: how far a short put, two puts at once and console text reach; each until `torn`. `InOrderUnlessRaced` |
| `host_api` | 2 calls, a reset, a debug message, a close; 3 ids | `IsRpc`, `EveryCallReturns`, `ReaderEnds`, `ResponsesAreAMap` |
| `cobs` | packets of up to 6 of the bytes 0, 1 and 3, long blocks of 3 bytes, damaged frames of up to 3 bytes | `RoundTrip`, `NoDelimiterInside`, `Overhead`, `DecodedShorter` |
| `encoders` | CW and RTTY: every pair of characters, every text of up to 5 over five, which is enough for each order of shifts, spaces and characters without a code. WSPR: callsigns with the digit in the second and the third place, the ends of the alphabets, a digit where letters go, two digits, one too long after the move, refused ones; grids at the limits; the lowest, the highest, a middle and a refused power. FTX: all nine types but free text and telemetry, of which only the type is read, with each field at both ends of its numbers, callsigns of every kind, lower case | `CwFills`, `RttyFills`: what is allocated is filled. `CwReadable`, `RttyReadable`, `WsprReadable`, `FtxReadable`: a receiver reads what was sent; of WSPR, also that the array is filled and not overrun |
| `devices` | two clock outputs, two PLLs, two threads; calls refused and accepted; times at the ends of the calendar and wrong ones; frequencies below, in, between two steps of and above the band; durations around the one that overflows; packets too short; accesses that fail, lost packets, resets | `PllKnown`, `OutputAsAsked`: the chip against the driver. `RoundTrip`: what was set comes back. `RefusedChangesNothing`, `SignalAsAsked` |

The type invariant of a module is a conjunct of its first invariant (`TypeOK` of
`UartRx` in `ResidueShrinks`, of `UartTx` in `RingInOrder`, of `HostApi` in
`ResponsesAreAMap`, of `Radio` in `AmplifierFollows`, of the encoders in
`CwFills`, `RttyFills`, `WsprReadable` and `FtxReadable`, of `Clock` in `PllKnown`, of
`Settings` in `RoundTrip`, of `TxEngine` in `OneWakeup`); that of `Cobs` is checked by
name.

Four runs find a counterexample, to what a comment or a message in the code says:

| run | what it shows |
|---|---|
| `tx_engine_tones` | a sequence with two on symbols in a row (all of RTTY and WSPR) ends with "sequence complete" and "TX off", and the amplifier's regulator is still enabled: it is enabled per symbol and disabled once |
| `uart_tx_race` | a reply put while `main` is in its own put leaves bytes of two frames between two "frame delimiters", though the buffer has room |
| `host_id_wrap` | the answer to a call that timed out stays in the map; when `next_id` has come round, another call takes it |
| `ftx_bytes` | the 71 bits of a free text are not its 13 characters, and those of telemetry not what `encode_t71` makes of digits: both lie in the lower 71 of 72 bits, `pack_bytes` sends the upper 71, and the lowest bit is lost. The run stops at the first; the messages of either type alone violate it |

### Bounds, and why they are enough

- The engine's control depends on whether there is a next symbol, whether it
  repeats, and whether it is on; three symbols have each case. The use count is
  bounded at starts (`MaxRef`) because failed disables let it grow; the steps
  treat every count above 1 alike. Both are unbounded in the proofs.
- 512, 302, 300 and 264 of the receive path become 6, 4, 2 and 3 with their order
  kept: a ring holds a frame and part of another, a delimiter takes more than the
  longest frame and less than the ring, and what it takes can decode to more than
  fits. Two faults join frames, cut them and leave old bytes in the ring; the frames
  after them (`Recovery` is three) show that it recovers.
- Five packets are what it takes for a put that lost its claim to damage the
  packets after it: one to move the positions, two that race, two damaged after. A
  reply can also come between any read of `main`'s and its write in a ring of 3: the
  states in which `get` is past the tail are reached.
- 65536 ids become 3 in `host_api`, so that none comes round to a late answer
  (what the run is about), and 2 in `host_id_wrap`, so that one does. Two calls in
  progress never share an id (a guard of `TakeId`): 65536 calls do not fit in one
  timeout.
- 255, the largest code of a COBS block, becomes 4: packets of 6 bytes have two
  full blocks, or a full block at the end or before a zero.
- An encoder's step depends on the character and the symbol or the shift before
  it, so every pair of characters has every step; longer texts show gaps and
  shifts that last.

- FTX: a field is packed on its own, so that both ends of its numbers, next to
  neighbours at both ends, show a width or a position that is wrong. `ftx_bytes` has the
  two types that are not packed as they were meant.
- The clock: a crystal of 25 MHz, PLLs of 600 to 900 MHz, frequencies in MHz, a
  denominator of 20 (1000000 in the code) and tenths for millihertz, so that TLC's
  integers of 32 bits hold the products of `OutputAsAsked`; a word of 16 bits for 32;
  fractions, whole numbers and both kinds of refusal occur. The proofs have all of
  these as parameters. PLLs and dividers are set by `main` alone, one call at a time;
  the work queue's calls of `si5351a_enable_output` come between any two steps. Two
  outputs can share a PLL or not.
- Settings: one call is on the way at a time (`HostApi` has several). The device's
  clock stands still between calls, else no time that is read could be compared. A
  reset comes between calls.

### Fairness

- `TxEngine`, `Radio`: the work queue thread carries on with a function it is in
  and takes its items, and the clock interrupt comes. Nothing is asked of callers.
- `UartRx`: the work queue runs. The host may stop at any byte.
- `UartTx`: a put that has begun ends, an enabled transmit interrupt is served.
- `HostApi`: the operating system runs each thread; the device may be silent for
  ever, so a call returns because of its deadline.

## 4. What is proved

Checked by TLAPS, for every value of the constants that the modules' assumptions
allow, each of which TLC evaluates on the instances of the runs: sequences are
records with a non-empty `on` (`EngineAssumption`); the buffers of the receive path
have the order of sizes they have in the code (`RxAssumption`); packets to be sent
have two bytes at least, a code and a delimiter (`TxAssumption`); finitely many
calls (`HostAssumption`); what `CobsAssumption`, `DevicesAssumption` and
`ClockAssumption` say of bytes and of the clock chip's numbers; the types that the
host library gives its arguments (`ArgumentsAssumption`: a year is a u16, the other
fields of a time are bytes, the length of a signal is four); a text is a sequence of
characters (`TextsAssumption`).

Each result is of the form `Init => I`, `I /\ [Next]_vars => I'`, `I => P`. Where `P`
is not `I`, the reason is given. The candidates for `I` were checked with TLC before
they were proved, but for `RoundInv` of `CobsProofs`.

### The engine and the radio

`TxEngineProofs`, about every set of sequences, every bus, every bound:

- `TypeCorrect`, `WakeupCorrect`, `PowerCorrect`: `Spec => []` of `TypeOK`,
  `OneWakeup` and `PaFollowsKeying`. None of the last two is inductive, as both
  speak about the moments between calls. The inductive invariant is `IInv`, of
  `TypeOK` and three parts: `WakeupInv` says at which steps the timer can run or
  the work item be queued (never both, and only for the sequence that plays),
  `EngineInv` ties `seq`, `index` and `active` to the thread's place (the index is
  in the sequence except at its end), `PowerInv` gives the use count at each step
  while the history is tidy. Each is shown inductive given the ones before, one
  step per action.
- `Refinement`: `Spec => PlaysInOrder`. Under `IInv` every step of the engine is
  one of `Keying`'s or a stutter: `Expire` is `Elapse`, `Work` is `Advance`,
  `Clear` is `Cut`, `Complete` is `Complete`, `Begin` is `Play`.

`RadioProofs` takes the engine's invariants over to `RadioSpec`, where commands,
resets and the boot are the callers:

- `AntennaCorrect`, `AmplifierCorrect`, `PowerUpCorrect`, `PlaysCorrect`:
  `AntennaAgrees`, `AmplifierFollows`, `PowerUpInTransmit` and the refinement of
  `Keying` unless the engine was started early. The invariant is `RadioInv`: the
  engine is idle during the boot and its invariants hold (both unless started
  early, which is why they are conditional there and not in `TxEngineProofs`);
  `OutputInv`, the chip's output is what the use count says on a bus that works, also
  after a reset, which clears one and not the other; `PinsInv`, what the pins are at
  each step of `tr_switch_init`; `TransmitInv`, in the steps of a call that starts a
  signal, up to its first symbol, `tx_active` is set, because another command runs only
  when that call has ended; `RestartInv`, which needs no condition: the stop that each
  start begins with leaves no timer and no work item and the amplifier off, so that a
  signal begins in order whatever an early one has left.
- `PowerUpInTransmit` is about every step. `NoMorePower` and `OthersPowerDown` show that
  the boot, a reset, the timer and the other commands never raise the use count or the
  output; what is left is `Apply`, for which `TransmitInv` and `PinsInv` give the antenna.
  The host's own command to the regulator is excluded by name: it powers the amplifier
  up in any position of the antenna (`radio_cmd.c:137`). Switching to receive during a
  signal does not stop the engine; it goes on, and does not power up again.

### The serial line

`UartRxProofs`, for every size of the buffers, every loss and damage:

- `TypeCorrect`, `WakeupCorrect`, `ResidueCorrect`, `SyncCorrect`: `TypeOK`,
  `NoLostWakeup`, `ResidueShrinks`, `InSync`. That recovery takes a bounded number of
  frames is an action-by-action argument about how much an old residue can be: a
  delimiter takes `CobsMax` bytes, a frame brings fewer, so that each frame makes the
  residue less. `InSync` needs `AlignInv`: after recovery the ring holds what arrived
  of the frame on the line and nothing else; and `LineInv`, about the line.
- `ChannelCorrect`: `Spec => IsChannel`. `RingInv` and `QueueInv` order the frames
  along their way: first bytes in the ring, the queue, the thread, the last
  dispatched. A frame is decoded as whole only if it starts with its first byte, of
  which the ring has one at most, so that nothing is dispatched twice.

`UartTxProofs`, for every size of the ring, every length of packets and every order of
the interrupt, replies and the steps of `main`, those between its reads of a position
and its writes included, up to and including the step that makes a run `torn`:

- `RingCorrect`, `KickCorrect`: `RingInOrder` and `Kicked`, inductive with
  `MainInv`, what `main` remembers in the middle of a put: unless a reply came in
  between (`late`), what it has read is still so when it writes. `RingInOrder` says
  nothing of the torn state, and nothing holds of it: TLC reaches `get` 3, tail 2.
- `InOrderCorrect`: `Spec => InOrderUnlessRaced`. Until two puts race, `ClaimInv` says
  that what is claimed and not committed is `main`'s own, with the beginning of its
  packet in it; `OrderInv` and `AccInv` order the packets from the ring to the host.
- `DamageCorrect`: `Spec => []DamageIsLocal`, with replies inside `main`'s put, until a
  run is torn. `DamageIsLocal` speaks of
  what the host has missed in the end; the invariant follows each packet until
  then. `SpoiledInv`: a race spoils the packets of both puts and the next, after
  which claims and commits agree again. `PutInv`: a put that is not spoiled writes
  behind what is committed, a spoiled one never before it. `WholeInv`: each packet
  that is not spoiled lies in the ring in one piece, with a delimiter before it if
  the packet before it was not spoiled either, and nothing but console text between.

`HostApiProofs`, for any number of calls, resets, ids and debug messages:

- `MapCorrect`: `ResponsesAreAMap`, which is inductive.
- `RpcUnlessReused`: `Spec /\ NoReuse => IsRpc`. `NoReuse` says that no call takes an id
  that a packet still under way carries; the run `host_id_wrap` shows that without it
  the claim is wrong. `RouteInv` follows a command and its answer: what is about was
  answered by the device to that call, calls in progress have different ids, a
  command on its way has not been executed.
- `RpcCorrect`, `OwnAnswerCorrect`: `NoWrap /\ Spec` implies `IsRpc` and `[]OwnAnswer`.
  `NoWrap` is about constants alone: with resets counted, there are no more calls than
  ids, which are 65536 in the code. `IdInv` and `CountInv` (the k-th id taken is k)
  then give `NoReuse`. A program that makes more calls in one session is covered by
  `RpcUnlessReused` as long as nothing is 65536 calls late.

`CobsProofs`, about every packet, every damaged frame and every length of a long
block (255 in the code, any from 2 on here):

- `TypeCorrect`, `Delimited`, `OverheadBounded`, `DecodedFits`: `Spec => []` of
  `TypeOK`, `NoDelimiterInside`, `Overhead` and `DecodedShorter`. The inductive
  invariant `IInv` adds to `TypeOK`: `ZeroFree` (what is written is a sequence of
  bytes other than zero, and a block in progress has room), `Written` (the output is
  ahead of the input by the number of full blocks, and that many blocks of
  `Run - 1` bytes fit into what was read), `Sized` (the same for the finished
  frame) and `Behind` (the decoder has written at most what it has read, and less
  once it is through or has refused). `BlockWritten` and `Quotient` are the lemmas
  on sequences and on division it rests on.
- `RoundTripCorrect`: `Spec => []RoundTrip`. Instead of an induction over the packet,
  the invariant `RoundInv` ties the place of the decoder in the frame to the place of
  the encoder in the packet. It says that there are marks, a function from where the
  blocks of the frame begin to where their bytes are in the packet (`Framed`: each
  block has the bytes at its mark, the next mark is behind it, and behind a zero
  unless the block is full). `BlockAppended` lays one mark per block as the encoder
  closes it, `FrameClosed` none for the last; the decoder is always at a mark and has
  written what the packet has before it. The marks are under an existential
  quantifier over functions, so TLC has checked `RoundTrip` and not `RoundInv`.

### The devices

`DevicesProofs`, for every crystal, band of the PLLs, denominator that fits in 20
bits, bus that fails at any access, and packets of other programs of any length:

- `PllCorrect`, `OutputCorrect`: `PllKnown` and `OutputAsAsked`. They are inductive
  together with `InBand` (what the driver knows of a PLL is not above its band, so
  that no divider is cut to a word). The substance is division: `RegistersHold`
  (nothing of a ratio is lost in registers of 18 and 20 bits), `PllSet`,
  `DividerFraction` and `Bounds` (the cut-off of the PLL's fraction, of what is
  remembered of it, and of the divider's fraction add up to less than a step), and
  `WholeNumber` (integer mode exactly if the divider has no fraction).
- `RefusalCorrect`: `RefusedChangesNothing`, step by step. `handle_set_base_freq`
  assigns before it looks at the cursor's error; `FieldThere` shows that a payload
  which passed the check of its length does not set it.

And for every time, frequency, length of a signal and packet of another program,
whatever is refused, lost or reset:

- `RoundTripCorrect`, `SignalCorrect`: `Spec => []` of `RoundTrip` and
  `SignalAsAsked`. Neither is inductive, as both speak about calls that have ended.
  The invariant `SettingsInv` follows a call: while its packet is on the way,
  `RequestStands` says that what the handler will read is what the call is about
  (`Stands`, also of another program's packet, for which `Meant` says what it is
  about); while its reply is on the way, `ReplyStands` says that what was to be set is
  set and that what the reply tells was told; between calls `DeviceKnown` says that
  the clock and the base frequency are among those the host may take the device to
  have, and `Answered` is the two properties. `Quiet` keeps a packet and a reply from
  being on the way at once. `Sane` has the types the rest needs, and that no call
  ends with an answer too short for it.
- The substance is numbers in bytes. `Value`, `Read`, `Written`, `Thousandfold` and
  `Divided` are recursions over their fields, here of known lengths, so that each is
  taken apart step by step (`ReadSix`, `WrittenSix`, `ValueEight`, `ThousandfoldFour`,
  `DividedFour`), with no induction. On them rest `TimeSent` and `TimeInPayload` (the
  host's payload of a time and the handler's view of it), `TimeWritten` (the handler's
  and the host's), `FreqSent` and `FreqWritten` (eight bytes of a frequency in the
  band), and `SignalLength` (four bytes times 1000, divided by 1000: the carries of
  the product are the rests of the division, from the other end). `Shows` is the
  driver's way to count years and months: a time it takes has a year of 2000 to 2099,
  so that the two bytes the handler writes are those it was sent.

### The encoders

`EncodersProofs`, for CW and RTTY and every text of any length over any characters:

- `CwFillsCorrect`, `RttyFillsCorrect`: `CwFills` and `RttyFills`.
  `CwReadableCorrect`, `RttyReadableCorrect`: `CwReadable` and `RttyReadable`. None is
  inductive: a first pass, what a text says and what is heard of an array are
  recursions over a text or an array, and the encoder knows only the rest of the
  text. The invariants `CwInv` and `RttyInv` say how far it is: there is a `j` such
  that the rest is what follows the first `j` characters, the array is as long as the
  first pass has counted up to `j` (`CwAt`, `RttyAt`), so that it is within the array
  before the end, and what is heard of it is what the `j` characters say. For RTTY the
  receiver's shift, that of the first pass and that of the second are one.
- The recursions need an induction, and the library's take an operator, which no
  prover here can instantiate. `SetInduction` is one over sets of numbers, from the
  well-foundedness of `<`; from it follow `Recursion` (some function obeys a recursion
  over the places of a sequence), `Agreement` (and only one does, so that the `CHOOSE`
  behind a recursive function is that one) and `Growing` (a count that never falls is
  highest at the end). `CwCounted`, `CwSaid`, `CwListened`, `RttyCounted`, `RttyPrinted`
  and `RttyReceived` unfold each function by a step.
- CW: a character stretches the last gap before it adds symbols, so that what is
  heard of the array is not what was heard before plus something. `Telling` therefore
  speaks of what is heard before the last gap and of that gap, which may still grow:
  one dot when a letter has just ended, seven or more after a space. `CwPrefix` (symbols
  that begin alike are heard alike) and `CwStretch` are the lemmas; `CwBetween` is the gap
  that a following letter stretches, `CwLetter` that letter, `CwSpaced` a space, also one
  after another.
- RTTY: `BaudotSampled` is that five bits give back a code, `RttyCode` that a code
  found in a table prints the character and is none of the two shifts, `RttyHears` that
  the array of tones in front is heard as before, `RttyCharacter` that the codes of a
  character change the receiver as the first pass has counted.

### What stays with TLC

- Liveness, which rests on fairness: `SequenceEnds`, `SignalEnds`, `Handled`,
  `Drained`, `EveryCallReturns`, `ReaderEnds`.
- `WsprReadable`, `FtxReadable`: they go through folds over bits whose
  operators are parameters, numbers of 28 to 71 bits, and an interleaver that is one
  permutation of 162 places; nothing in them depends on a constant but the messages,
  of which the run has both ends of every field.

## 5. Not modelled, and why

- A test signal of 4294968 ms or more, which wraps at 32 bits of microseconds (704 us for
  the first of them): in the model, and left out of `SignalAsAsked`.
- Frequencies and durations of symbols: the engine's control does not depend on
  them, and `apply_symbol` does not yet set a frequency. `Settings` has those of the
  test signal.
- FTX: `hash_callsign`, a product of 64 bits, which nothing calls. Grid letters beyond R, sections, states
  and callsigns the format has no number for: `FtxReadable` leaves them out.
  `ft8.c` is empty.
- Clock: frequencies below 0.21 Hz (`ClockAssumption`), for which the divider is cut
  to 32 bits before it is looked at and may be accepted though it is wrong: nobody
  asks for one. Status and interrupt registers, spread spectrum, the load capacitance and
  `si5351a_reset_pll` keep no state that another operation reads. Wrong numbers of
  outputs and names of PLLs are refused at once.
- Regulator: the current limit and the status, which nothing calls. `regulator_set_voltage`
  compares with a range that it takes from a configuration the driver does not fill
  in, so that a request may or may not reach the driver: both are in the model. Of
  one that does no property is stated, as it would be the arithmetic of one clamp: with
  the board's divider of 274 over 100 kOhm the reference's limit of 1.2 V is 4.488 V, and
  every level from 5 V on gives that, though `minihf.dts:125` and `:126` have `V_PA`
  between 5 and 18 V and `lib.rs:327` takes 0 to 18. `handle_get_buck_boost_regulator`
  always answers with a refusal, because the driver has no `get_voltage`.
- Payload: readers and writers of bytes and strings, which nothing calls. Most of
  the overflows of cursors cannot happen, because handlers look at the length first.
- The weekday and the other fields of `struct rtc_time` that `handle_rtc_set_time`
  leaves uninitialised: what the clock's driver does with them is not in this
  repository, and no command reads them.
- WSPR callsigns that the packing has no number for: `validate_callsign` accepts
  them (a digit or a slash after the third place, no digit in it, one character
  too many after the move) and no comment says what should be sent.
  `WsprReadable` leaves them out. It also leaves out callsigns of a letter and two
  digits (A71A): WSPR has a number for them, and `pad_callsign` moves them by mistake
  because their second character is a digit, but nothing in the repository says so.
- The send path after a write of `main`'s has undone a reply's (`torn`), see section 2.
  No bound on the damage is known to hold there.
- An early signal itself (section 2, `early`): the amplifier stays on until the next
  signal or a reset.
- The byte behind `isr_decoded_buf`, which 302 bytes without a zero would be written to
  (`uart_handler.c:48`): no property is about it.
- The display: a text at the start, pure output. The LEDs too.
- Zephyr itself is modelled from its use: `regulator_disable` of a regulator whose
  count is 0 leaves it at 0 (as `regulator_init` in `main.c` needs);
  `ring_buf_put` is claim, copy, finish, without assertions (`CONFIG_ASSERT` is
  not set).
- CW words are separated by 9 dots, not 7: the gap of a letter is not shortened
  before a space. A listener still hears words, and no comment promises 7.

## 6. Plan

1. The link as a whole: `HostApi` over the two channels' specifications instead
   of its own line.
2. `FillsTheArray` of WSPR for every message, the part of `WsprReadable` that is
   within reach.
