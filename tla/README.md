# A verification of CDJPScanMaster

CDJPScanMaster is a scan tool for Chrysler, Dodge, Jeep and Plymouth vehicles. A
PC program talks over Bluetooth to an adapter, and the adapter talks to the
vehicle's control modules over four buses: CCD, SCI, J1850 VPW and ISO 9141.
This directory holds TLA+ models of the program, TLC configurations that check
them and proofs that TLAPS checks.

## 1. Inventory

### 1.1 Parts and how they meet

```
 UI (Form1) -- QueryThread / VehicleLinkManager -- ArduinoCommHandler
                     |                                   |  serial bytes
              DRBDBReader (database.mem)                 |
                                                   Bluetooth UART
                                                         |
   firmware mvl:  main loop <-> ring <-> SCI.c  CCD.c  ISO9141.c  J1850VPW.c
                                            |      |       |          |
                                          vehicle buses (one handler each)
```

`Arduino/` is an older adapter (an Arduino sketch) for the same PC program.

| part | state | operations | who calls | hard behaviour |
|---|---|---|---|---|
| Bluetooth output ring, `main.c:42-50, 185-249` | array, `bt_rx_begin`, `bt_rx_last`, `bt_rx_buffer_fill_size` | `bt_queue_cmd`, `bt_queue_rx`, drain | main loop drains and queues; SCI, ISO and CCD interrupts queue | counter that does not count what the ring holds; interrupts in the middle of a drain; pointers that reach one cell past the array |
| Command assembly, `main.c:126-196` | `pendingRxBt`, four `pendingTx*` buffers | append a byte, recognise a frame, forward a message or run a command | main loop | the newline is looked for in the slot behind the last byte; the index has no bound |
| Multiplexer, `main.c:52-81` | the enable pins of PORTB, PORTC, PORTD | `set_mux_config` | main loop | ports and pins that do not belong together |
| SCI engine, `SCI.c` | `send_buff`, `send_cur_index`, `recv_buff` | `sci_do_tasks` (main), RXC interrupt | main loop, SCI UART | a message replaced while its predecessor is being echoed |
| ISO 9141 engine, `ISO9141.c` | one timer with a callback, rx and tx buffers, initialisation state | `iso9141_do_tasks`, `iso9141_start_five_baud_init` (main); timer and RXC interrupts | main loop, timer, UART | one timer for four purposes; the receiver is off during initialisation |
| CCD engine, `CCD.c` | idle timer, bit timer, rx and tx buffers | `ccd_do_tasks` (main); two timers, UART and pin interrupts | main loop, timers, UART, pin | arbitration bit by bit against other senders; a message that is loaded again in every turn |
| J1850 receiver, `J1850VPW.c` | line level, timer, bit and byte position | `j1850vpw_do_tasks` (main, polled) | main loop | pulse widths measured by a timer that nobody starts |
| `ArduinoCommHandler.cs` | port, response event, response buffer, current protocol | `SendMessageAndGetResponse`, `SendCommand`, `GetSCIByte(s)`, `ReadThread`, `ProcessMessage` | query thread, UI, connect task; reader thread | a response that arrives between `Reset` and `Clear`, after the timeout, or for another caller |
| `VehicleLinkManager.cs` | query thread, queried items, current SCI speed | `QueryThread`, `SetQueriedTXItems`, `ScanModuleType`, `Dispose` | UI, query thread, connect tasks | a stop signal cleared by the thread that should see it; an item list changed while it is enumerated; six requests at two positions of the multiplexer, any of which may fail |
| `DRBDBReader` | tables of the database file | `Database`, `Table`, `SimpleBinaryReader`, lookups, scalers and formatters | UI, query thread | byte order, record layout, links between tables |
| `DataDisplay.cs` | raw value, formatted value, dirty flag | `RawData` setter (query thread), `FormattedData` getter (UI) | both | an update lost between format and flag |
| `TableIDUtility.cs`, `StaticConverters.cs` | constant tables | `Get_Engine_Table_ID` and other lookups | connect tasks | none: pure functions |
| Arduino sketch, `chrysler_comm_engine.ino`, `J1850VPW.cpp` | channel, buffers | loop, send and receive per bus | one loop, one interrupt | buffers that survive a channel change |
| UI `Form1.cs` | lists, selected module | event handlers, `TryConnect`, `LoadModule` | user, connect tasks | a task for each click; lists that are filled and never cleared |
| `ScanMaster.Shell` | - | - | - | an empty window |
| ASF, hardware, binaries | - | - | - | vendored or not code |

### 1.2 What makes each part correct

- **Ring**: bytes leave in the order they were queued; a frame is queued whole;
  nothing is overwritten before it was sent; a backlog is discarded only when it
  must be; queued bytes eventually leave.
- **Command assembly**: a command or message consists only of bytes received
  since the last frame boundary, in order; at most one channel is selected.
- **SCI**: a host message is put on the bus byte by byte, each byte after the
  echo of the one before; what is reported to the host is what was received, in
  order, once.
- **ISO 9141**: every initialisation request is answered exactly once and the
  UART is on again afterwards; at most one purpose owns the timer.
- **CCD**: a byte lost in arbitration is still received; a report has a valid
  checksum.
- **Comm handler**: every call returns; a response belongs to the request that
  it is returned for; responses are not returned twice or out of order.
- **Link manager**: the thread stops when told to; items are read at the speed
  their module is in; a module is identified by the answers of one controller
  and polled where it was found.
- **Displayed values**: what is on the screen is not far behind what was read,
  and a first value is shown.
- **Database**: a lookup returns the record that the file holds under the id, in
  either format, and a value is shown as its scaler and formatter say.
- **UI**: the lists show one module, the selected one.

## 2. Plan

Order of work, the most important behaviour first: everything that the program
shows passes the adapter's output ring and one of its bus engines, so these come
first, then the PC side that waits for them.

| step | module | what | state |
|---|---|---|---|
| 1 | `BtQueue`, `BtRing`, `BtRingProofs` | the ring operation by operation, against the queue it promises; proofs | done |
| 2 | `BtLink` | the drain of the main loop access by access, interrupts, sleep; proofs in `BtRingProofs` | done |
| 3 | `SciExchange`, `SciEngine`, `SciProofs` | `sci_do_tasks` step by step against the interrupt, against an exchange; proofs | done |
| 4 | `BtFrames`, `FrameProofs` | command assembly, dispatch, multiplexer; proofs | done |
| 5 | `Iso9141` | the one timer, the initialisation, messages | done |
| 6 | `CommHandler` | the request and response protocol of the PC | done |
| 7 | `CcdEngine`, `CcdProofs` | arbitration bit by bit, the idle timer, the message that is loaded again in every turn; proofs | done |
| 8 | `DataDisplay`, `QueryThread`, `QueryProofs` | a value access by access; the query thread against the user interface, its speed, list and end; proofs | done |
| 9 | `DrbDatabase`, `DatabaseFile`, `Formatting` | the database file in both formats, method by method; what it means that a file holds a database; what is made of a reading | done |
| 10 | `TableIds`, `ModuleScan`, `ScanProofs` | the identification of a module, request by request, and the form that shows it; proofs | done |
| 11 | `IsoProofs`, `CommProofs` | proofs about the two modules that have the longest protocols | done |
| 12 | `SciToHost` | composition of `SciEngine`, `BtRing` and `CommHandler`: a request of the PC comes back as its answer | open |
| 13 | `SketchChannels` | the sketch: channel changes, per-bus buffers | open |

A `VpwReceiver` was considered for `J1850VPW.c` and dropped: the timer that
measures pulses is never started, so every pulse has length 0, no frame begins,
and a model would have a single state of interest.

Every invariant that a passing run checks is now a theorem as well, but for
`ShownAsStored`, and so is the safety half of most liveness properties (5.8). Open are result codes in `BtLink`, once
the ring's writer is taken apart as its reader is, and after that `SentInOrder` with
them.

`BtLink` extends `BtRing`, `QueryThread` extends `DataDisplay`, `ModuleScan`
extends `TableIds` and `DrbDatabase`, and so does `Formatting`: each of these is a
composition, the parts keep their own actions and `UNCHANGED` says what the
other part leaves alone. `DatabaseFile` only adds definitions to `DrbDatabase`.

## 3. Modules

Every module keeps the names of the source where TLA+ allows them. A definition
whose comment begins with "mutant" is a changed copy of the one after it. It
takes no part in the specification: it records which bug the properties would
catch. `MC*` modules hold sets that a configuration file cannot write.

### 3.1 `BtQueue` and `BtRing`: the output ring

`BtQueue` is what the ring promises: a sequence of bytes to which whole frames are
appended and from whose front bytes are taken; the one loss is that a frame takes the place
of the entire backlog. It also admits, because the code does it, that the fifth
byte of a report is whatever was in its cell (`bt_queue_rx` steps over it without
writing), and that the byte behind the array is also somebody else's variable.

| `BtRing` | source |
|---|---|
| `ring`, `begin`, `last`, `fill` | `bt_rx_ring_buffer` and the byte behind it, `bt_rx_begin`, `bt_rx_last`, `bt_rx_buffer_fill_size` |
| `QueueCmd(c)` | `bt_queue_cmd(c)` |
| `QueueRx(m, p)` | `bt_queue_rx(m, Len(m), p)` |
| `Drain` | the body of the `if` that sends a byte, `main.c:185-191` |
| `ForeignWrite(b)` | the owner of the byte behind the array |

`Wrap` keeps the counter a `uint16_t`. `Backlog` is the refinement mapping.
The constants `Paced` and `MaxBare` state assumptions that the code neither makes
nor enforces. With `Paced`, producers never outrun the UART by a whole ring. It is
needed where the counter is of no help, with result codes, which the drain subtracts
although `bt_queue_cmd` never added them. Without it, producers may be as fast as
they like, but for reports without a payload. There are such reports: a lone zero on
the CCD bus is its own checksum, and `CCD.c:105` then calls `bt_queue_rx` with
length 0. It adds six to the backlog and six to the counter, so nothing makes up for
the six bytes that the test leaves out, and enough of these overrun the ring
(section 7). The history `bare` counts their bytes, less the bytes sent since, and
`MaxBare` bounds it.

### 3.2 `BtLink`: the drain and the interrupts

`BtLink` extends `BtRing` and takes the main loop apart into the accesses to
shared memory: the two bytes of `bt_rx_last`, the byte, the pointer, the load and
the store of the counter, the sleep. `Report` is an interrupt handler that calls
`bt_queue_rx`; all handlers have one level and do not nest. What the compiler may
choose is a choice of the model (`AdvanceBegin`), because nothing is volatile.

### 3.3 `SciExchange` and `SciEngine`

| `SciEngine` | source |
|---|---|
| `sendBuff`, `sendLen`, `sendCur` | `send_buff`, `send_buff_len`, `send_cur_index` |
| `recv`, `Full` | the first `recv_buff_len` bytes of `recv_buff`; no room for another |
| `HostMessage`, `CopyByte`, `SetLength`, `Rewind`, `FirstByte`, `CountFirst` | `sci_do_tasks`, statement by statement |
| `RxSendNext`, `RxReport` | the two branches of `USARTE0_RXC_vect` |
| `line`, `bus`, `Transmit`, `Echo`, `Reply` | the UART and the engine controller (external) |

The interrupt does not ask whether `recv_buff` has room. A message that replaces
another in the middle of its exchange makes the buffer grow by both, so a host that
goes on like this overruns it. The model stops there: the interrupt is not taken
while `Full`.

`SciExchange` is the promise to a host that waits: a request comes back as one
report, whole and once; other bytes are reports of one byte.

### 3.4 `BtFrames`: command assembly, dispatch, multiplexer

`bytes` and `idxLast` are `pendingRxBt`. `Check` is the part of the loop from
`main.c:126` to the end of the dispatch, with one disjunct per kind of frame, and
`Receive` is `main.c:192-196`. The stack slots start with any of `Residue`. `mux`
holds the pins that are high on ports B, C and D; `SetMux` sets them as
`set_mux_config` does, on the ports that the code names, not those that
`definitions.h` names (section 7).

### 3.5 `Iso9141`

`timer` is the callback that `iso9141_timer_start` was last given, or "off".
`SyncTick`, `InitTimeoutGoesOn`, `InitTimeoutFails`, `GapOver` and `IdleOver` are
the four callbacks; `Rxc` is the receive interrupt; `LoadMessage` to `CountFirst`
are `iso9141_do_tasks` and `SwitchUartOff` to `StartTimer` are
`iso9141_start_five_baud_init`. `wave`, `put`, `heard`, `answers`, `reports`,
`loaded` and `asked` are histories; `loaded` is the message that was copied last,
`asked` has the bytes of all messages with their checksums and `reports` those of all
reports, one after the other. Time is abstracted to an order: a running timer expires at
any moment, except twice within the few microseconds of
`iso9141_start_five_baud_init` (`Expires`), and except the gap timer before the
UART is free.

### 3.6 `CommHandler`

| `CommHandler` | source |
|---|---|
| `protocol`, `event`, `buffer` | `currentMessageProtocol`, `responseReceived`, `ResponseBuffer` |
| `Call` to `Timeout` | `SendMessageAndGetResponse` |
| `ResetAgain` to `NoMore` | `GetSCIByte`, `GetSCIResp`, `GetSCIBytes` |
| `ReadFrame` to `ReaderEnds` | `ReadThread`, `ProcessMessage` |
| `SendCommand`, `CommandReset` | `SendCommand`, called by the user interface |
| `line`, `Write`'s choice, `Talk`, `PortCloses` | adapter, vehicle and port (external) |

A frame is a record of its protocol, the request that it answers (0 when
nobody asked) and its place in the answer.

### 3.7 `CcdEngine`

| `CcdEngine` | source |
|---|---|
| `pending`, `txLen`, `pc` | the host's message in `main.c`, `ccd_tx_buffer_len`, the place in `ccd_do_tasks` |
| `active`, `busIdle`, `bit`, `step`, `tx0Byte` | `ccd_tx_active`, `ccd_bus_idle`, `ccd_tx0_current_bit`, `ccd_tx0_step_index`, `ccd_tx0_byte` |
| `idleTimer`, `tx0On` | the two timers: off or running, and who started the idle timer |
| `Load`, `AddSum`, `Rewind`, `StartIfIdle` | `ccd_do_tasks`, statement by statement |
| `DriveBit`, `EndActive`, `EndLost`, `Sample`, `NextBit` | `ccd_tx0_timer_tick`, a disjunct for each of its four steps and for the end of the byte |
| `IdleOver`, `Edge`, `Rxc` | the idle timer's callback, the pin's interrupt, the UART's interrupt |
| `said`, `inByte`, `StartMessage`, `StartByte` | other senders on the bus (external) |

A byte is the set of the positions of its bits that are set, so a mask is a set and
a bit that is cleared is taken out of it. `due` is a history: the bodies of the
messages on the bus whose last byte is their sum. `hosted` is chosen once. `halted`
is the end of a processor in an interrupt that has no handler. The negative shift
of `CCD.c:164` is undefined, and the model has both outcomes that the processor's
shift loop can have.

### 3.8 `DataDisplay` and `QueryThread`

| `DataDisplay` | source |
|---|---|
| `raw`, `flag`, `formatted` | `rawData`, `isRawDataUpdated`, `formattedData` |
| `FirstValue`, `RaiseFlag` | the setter of `RawData` when there is no value yet |
| `Compare`, `Recheck`, `Store` | the setter otherwise |
| `BeginGet`, `ReadByte`, `Show`, `ClearFlag` | the getter of `FormattedData`, and `RawIntData` byte by byte |

What is formatted is told by the bytes that it was made of, so a value torn
between two readings can be seen as such.

| `QueryThread` | source |
|---|---|
| `temp`, `high`, `fast`, `stop`, `visible` | `txTemp`, `sciHighSpeedParams`, `isHighSpeedSciMode`, `queryTaskStopSignal`, `visibleTxItems` |
| `Start` to `LeaveAtEnd` | `QueryThread`; `Lower` is the request 0xFE, at both of its places |
| `SCIHiSpeedQuery`, `TakeHigh` | the function of that name |
| `Select`, `ClearList`, `AddRange`, `ChangeTab`, `Tick`, `Visit` | `Form1`'s handlers and `SetQueriedTXItems` |
| `Dispose`, `SetStopSignal`, `WaitEnds` | `Dispose` of the manager |
| `adapter`, `ecu`, `lost`, `ControllerTurns` | adapter and engine controller (external) |

A request is one step, because `CommHandler` has its steps. It may fail; the
controller may have turned although its answer was lost (`lost`). The enumeration
of the list without the lock is two steps, and a change between them makes the
enumerator throw, which ends the thread (`dead`).

### 3.9 `DrbDatabase`, `DatabaseFile` and `Formatting`

Each method of `makeTables` is an action with the method's name that fills one
dictionary of `db` from the bytes of `rawDB`, in the order of `makeTables`. An
action has two parts. `Rows` reads the table: `Cell` finds the bytes of a column by the
attributes that `ReadTableAttributes` took from the header (`Kept`, `ColOffsets`)
and puts them into one order, the most significant first, as `ReadField`,
`ReadFloatField` and the methods' own conversions do. An operator with the dictionary's
name then makes the objects of those rows. `Keyed` is the loop that makes an object
of each row, `Linked` the loop over a table of associations.

`DatabaseFile` says what it means that a sequence of bytes holds a stored database.
`Holds` asks for a header, for rows whose cells are where the header says, each in
the order of bytes of the file's format (`Encoded`), and for texts that end with a
zero. `ContentOf` is what the dictionaries of a stored database are. It uses the
same operators as the methods, since they say which column is which member of an
object. That is not in the file, so no theorem can check it. The run does, against
a content that `MCModuleScan` writes out by hand. One dictionary is an exception:
`ReadTXGroups` goes over the table of groups a second time where it should go over
table 18 (`Database.cs:445`), so a group's items are the module type of its own row
and table 18 is never read. `StoredGroups` has the items of table 18, the file of the
run has rows there, and `LoadedAsStored` compares all of a group but its items.

`Formatting` has the scalers and formatters of `Objects/` and of `DataDisplay`;
`FormatData` is what the getter computes from bytes that are no longer changing.
A value with floats is kept as integer, slope and offset.

### 3.10 `TableIds` and `ModuleScan`

`TableIds` has the converters and the lookups as functions and operators of the
same names. A task of `ModuleScan` is a click of the user that is being worked on.
Its `at` is the request that comes next, and each request is an action: `SetMux`,
`Ask81`, `Ask82` and the four `Ask2A` are `GetEngineConfigSCI`, `AskBCM_CCD`,
`AskStyle_J1850` and `AskYear_J1850` are `GetBodyStyleAndYearFromBCM`, `AskLevel`,
`AskTheft` and `AskClimate` are what `ScanModuleType` asks of a body controller,
and `AskModel` is `GetRadioModel`. `Lookup` chooses among the tables, `LoadModule`
is `TryConnect` and `LoadModule` of the form. Each value that was heard carries
where it came from (`Says`), which is what `OneController` is about.

## 4. What the runs check

A scenario that the code does not choose is a variable that never changes and is
chosen in `Init` (`halfDuplex`, `paced`, `calm`, `hosted`, `prompt`, `single`), so
one run covers both a partner that waits and one that does not. Properties that
need a partner that waits begin with it; the others are for both.

| run | states | shows |
|---|---|---|
| `bt_ring_reports` | 11 000 | With reports only, with a payload at any rate and without one up to `MaxBare`: the counter, which counts a payload twice and the six bytes of a frame once in its sum and never in its test, stays ahead of the backlog (`FillCoversLive`), so the test is sound (`CheckIsSound`) and the ring is a `BtQueue` (`ImplementsQueue`). |
| `bt_ring_paced` | 555 000 | With result codes, reports without a payload, a counter that passes below zero, pointers that reach one cell past the array and a foreign variable in that cell: still a `BtQueue`, if producers do not outrun the UART. |
| `bt_ring_overflow` | violation | `OverflowMeansFull`: the branch called "buffer overflow" is not taken although the frame overruns the backlog (section 7). |
| `bt_link` | 538 000 | `SentInOrder`: wherever interrupts fall, bytes leave in order and once until the first discard. `AllSent`: the ring is emptied in the end, and then every report was sent to its last byte, unless a backlog was discarded. |
| `sci` | 1 510 000 | `ImplementsExchange`, `OneByteOut`, `RecvIsEcho` for a partner that waits; `HeardOnce` and `Settles` for any, as long as `recv_buff` has room. |
| `bt_frames` | 1 080 000 | `DoneAsAsked`: what is forwarded or run is one whole frame of the host, in order and once, although the newline is looked for in a slot that was not received yet. |
| `iso` | 1 880 000 | `InitOwnsTimer`, `HeardOnce` and `UartOnAgain` for any host; `AddressInOrder`, `AnsweredOnce` and `SentAsAsked` for one that asks for one thing at a time. |
| `iso_keywords` | violation | `KeywordsSuffice` (section 7). |
| `comm` | 1 190 000 | `AnswersItsRequest` for prompt threads and answers in time; `EveryCallReturns` for late answers, threads delayed anywhere, a port that closes and commands of the user interface. |
| `ccd` | 94 000 | Without a message of the host `ReportsWhatIsSaid`: each sound message on the bus is reported whole and once. With one, `TypeOK`: the tick stays within its byte although the main loop rewinds the bit at any moment, and no sum is taken of nothing; `BackToIdle`: the buffer is emptied. |
| `query` | 1 040 000 | `SpeedsAgree` and `LowAtLow`: adapter and controller have one speed at every request and low speed at the end, wherever the list is changed, unless a change of speed was lost. `AtMostOneBehind` and `FirstShown`: what is shown, to a prompt user interface. `Stops`: `Dispose` comes back if the thread had begun. |
| `connect` | 105 000 | `LoadedAsStored` and `ShownAsStored`: a file in either format is read as it was written, but for the items of groups. `OneController`, `PolledWhereFound` and `OneModuleShown`: whichever requests fail, a module is looked up by the answers of one controller, polled where it was found and shown alone, if the user waits for one task before the next. |

Every property of a passing run has a mutant: a plausible bug in one definition
of the code that makes TLC find the property violated under the same
configuration.

### 4.1 Bounds

- **Ring**: payloads of one byte and of none. 55 bytes without pacing, the smallest
  ring that `ReportsNeverOverrun` covers for one report without a payload; eight
  reports fill it, so overflow and discard occur. No step asks where in the array
  the ring is, and turning the ring by a cell turns every step with it: a `VIEW`
  keeps one state of all that differ in their place in the array or in what was
  written there. 12 bytes with pacing, without a view: one result code and one
  report fill it, and pointers wrap at every place of a frame. `Word` stays 65536. The state
  space is finite without a bound on the number of operations. That payloads of
  other lengths and other sizes do not matter is what the theorems add.
- **`bt_ring_overflow`**: 49 bytes, and ten reports without a payload.
- **`bt_link`**: 18 bytes and pages of 8 positions, so a pointer crosses a page
  (a torn load) and the array's end; two reports and the
  beginning of a third fill it. A report that falls between the load and the store
  of the counter is not counted, the counter passes zero, and the next report discards.
- **`sci`**: three messages, of one, two and five bytes, and one byte of the vehicle; a
  message can be replaced twice, at every step of its predecessor. `recv_buff` has
  five bytes, as many as the longest message, so messages that replace each other
  fill it (26 steps).
- **`bt_frames`**: three frames, each byte of the payload a newline, slots of the
  buffer that look like newlines or not. Nine slots: the longest frame has six
  bytes, so two frames that run into each other reach the end, where the model
  stops.
- **`iso`**: three requests, each a message or an initialisation, one byte of the vehicle
  or lost echo. Two overlapping requests and one after them; checksums that wrap.
- **`comm`**: two calls, SCI answers of three frames, one disturbance. The second
  call meets everything that the first left behind.
- **`ccd`**: bytes of two bits, so a tick has a start bit, two data bits and a
  stop bit, which are all the cases of the tick. Three messages on the bus out of
  four: two with a right sum, a lone zero, one with a wrong sum.
- **`query`**: an item of high speed, whose value never changes (section 6), and
  one of low speed with two values of two bytes, so that a value can be torn;
  menus with either and with both. The number of rounds,
  changes of the list and ticks has no bound; the state space is finite.
- **`connect`**: one database of 28 tables in both formats, with columns of no
  byte, links that lead nowhere, ids that occur twice and texts in both tables of
  texts; three vehicles, with old and new engine controllers at either position
  and body controllers on CCD, J1850 or both; two tasks. Tasks are alike, so
  they are symmetric. The file is fixed, because the methods do not choose:
  what could go wrong is in the layout, and each kind of column occurs in it.
  TLC also evaluates `MCFilesHold`: both files satisfy what the theorem about
  loading assumes, with the content that was written out by hand.

### 4.2 Fairness

- `BtLink`: the main loop's steps and the UART, and other interrupts keep coming.
  The last one is an assumption on the vehicle: the loop sleeps after each byte and the
  UART does not wake it, so on silent buses a report stays in the ring. Without that
  fairness `AllSent` does not hold. What `AllSent` shows is the order of the accesses:
  whatever they lose of each other, the loop does not take a ring that holds bytes for
  an empty one for good, and does not run on past its end.
- `SciEngine`: `sci_do_tasks` does not block; the UART shifts out what it holds;
  the vehicle echoes, until `recv_buff` is full. Nothing is assumed of host and replies.
- `Iso9141`: the main loop finishes what it began, a running timer expires, the
  UART's bytes come back. Nothing is assumed of the host or the vehicle.
- `CommHandler`: threads are scheduled, and `WaitOne` has a time limit, so a wait
  ends even if no answer comes. Nothing is assumed of the adapter.
- `CcdEngine`: a timer that runs expires, and a message that began on the bus is
  sent to its end. Nothing is assumed of the main loop, the host or new messages.
- `QueryThread`: the two threads are scheduled. Users need do nothing, and a
  request ends because those of `CommHandler` do.

## 5. What is proved

A theorem holds for every value of the constants that satisfies the assumptions
named here, so for every number of messages, requests, tasks or frames: the
bounds of 4.1 are constants too. Most inductive invariants were checked by TLC, as
an invariant of the run of their component, before they were proved.

### 5.1 `BtRingProofs`: the ring and the drain

Assumptions: `SizeAssumption`, `ByteAssumption`, `PayloadAssumption` of `BtRing`:
payloads of 0 to `MaxLen` bytes, a ring of at least `MaxLen + 6` bytes, a word of more
than three rings; and `LinkAssumption` of `BtLink`, a page of at least one position. The
firmware has 255, 1024, 65536 and 256. The theorems about unpaced producers have the
hypothesis `ReportsOnly`: no result codes, and a ring of at least
`MaxLen + MaxBare + 48` bytes. In the firmware's ring `MaxBare` can be 721, which is 120
reports without a payload.

- `TypeCorrect`: `Spec => []TypeOK`, for every rate and with or without codes.
- `FillBoundsBacklog` and `ReportsNeverOverrun`: with reports only,
  `[]FillCoversLive` and `[]CheckIsSound`. The inductive invariant `RingInv` is
  `8 * Live <= 7 * fill + bare`, `Live <= fill <= Size + MaxLen + 6` and
  `bare <= MaxBare`. `CheckIsSound` alone is not inductive, as it says nothing of how
  the counter relates to the backlog. A report adds `n + 6` to the backlog and `2n + 6`
  to the counter, and the worst ratio of those with a payload, 7 to 8, is at `n = 1`;
  one without a payload adds six to both, and to `bare`, which makes up for the
  difference. A drained byte takes one from each. The bound on `fill` keeps the sum
  in the test from wrapping.
- `RingImplementsQueue`: if producers are paced, or under `ReportsOnly`,
  `Spec => ImplementsQueue`, the whole refinement, since neither specification has
  fairness. The lemmas say what
  each access does to `Backlog`: a frame written behind `last` extends it at its
  back (`WriteExtends`), a drained byte is its head (`NextTakes`), and the
  foreign write touches at most the byte that a `BtQueue` allows to change. In
  the unpaced case the room that `WriteExtends` needs comes from `CheckIsSound`.
- `LinkSentInOrder`: `LinkSpec => []SentInOrder` for paced reports. `InOrder` adds to
  the property what the main loop may rely on between its accesses: a backlog that it
  has seen is still one, `at` is still `begin`, and the low byte loaded from `last`
  belongs to its high byte or there is a backlog anyway. It is inductive only
  until a report first discards.

  Without the pace `SentInOrder` is false, which the attempt to prove it showed. A
  report between the load and the store of `bt_rx_buffer_fill_size--` is not
  counted, and `8 * Live <= 7 * fill` does not survive that, even if every report has
  a payload. TLC finds, in a ring of 49
  bytes, eight reports after which the counter is 47 with 48 bytes waiting, and a
  ninth that passes the test and overruns them. The theorems about `BtRing` at full
  rate are about its atomic drain.

### 5.2 `SciProofs`

Assumption: `MessageAssumption`, messages of 1 to `BuffSize` bytes.

- `SciTypeCorrect`: `Spec => []TypeOK`, for any partner. `TypeOK` is not
  inductive without `TypeInv`'s two conjuncts: inside `sci_do_tasks` there is a
  message, and the copy has not passed its end.
- `SciOneByteOut`, `SciRecvIsEcho` and `SciImplementsExchange` (initial states map
  to the initial state, steps to steps or stutters), for a partner that waits.
  The inductive invariant `EchoInv` distinguishes three phases: `Quiet`;
  `Loading`, where nothing is on its way but at the end the first byte, and what
  was copied so far equals the message; and `Echoing`, where the bytes received are a
  prefix of the message, the byte after them is on its way, alone, and length,
  index and buffer are such that the interrupt will send the one after it, if
  there is one. `OneByteOut` and `RecvIsEcho` are not inductive: they do not say
  what the interrupt would send next.
- `SciHeardOnce`, for any host and vehicle, as long as `recv_buff` has room: the model
  stops where the code would write behind it (3.3). The property is inductive; what it needs is
  `FlattenAppend`, that a report appended to the reports appends its bytes to
  theirs, for any number of reports (5.9).
- `SciStepsRunOut`, for any partner: every step but a new message of the host
  decreases `Rank`, in which a byte still to be sent weighs three, one on the line two
  and one on the bus one; a byte of the vehicle's own can only make the interrupt
  send the next byte early, which adds nothing. `SciRestsSettled`: when main loop, UART
  and bus have nothing under way, no exchange waits and the buffer is empty. `Pending`
  is the invariant: an exchange that is under way has a byte on its way, although a
  byte may be ignored or a message replaced by the next.

### 5.3 `IsoProofs`

Assumptions: those of `Iso9141` on its constants; none is needed beyond them.

- `IsoOwnsTimer`: `InitOwnsTimer` is inductive as it stands.
- `IsoAnsweredOnce`, for a host that waits: `AnsweredInv` adds where an
  initialisation is (`OneAtATime`), since what has been answered depends on whether
  the request is still in the main loop, under way, or over.
- `IsoHeardOnce`, for any host: `HeardInv` adds only that the three histories are
  sequences over some set.
- `IsoTypes`, for any host. `IsoType` has the types in three parts and says
  further where the message is while it is copied.
- `IsoAddressInOrder`, for a host that waits: `AddressInv` ties the levels sent to
  what is left of the address after as many shifts.
- `IsoSentAsAsked`, for a host that waits: `OneMessage` says that from the copy
  to its last byte a message is alone, and `SentInv` that what is in the buffer
  behind the position is what is asked for and not yet on the bus, at each step of
  `iso9141_do_tasks` before and after the checksum. That the checksum is a byte is proved
  by induction (5.9).

`IsoInv` is the conjunction of the invariants of these six.

- `IsoNeverStuck`, for any host: an initialisation that is not over has a step of the
  call to take, or the timer runs with one of the two callbacks that bring it on. It
  follows from `InitOwnsTimer` and `OffForInit`, that nothing else turns the UART off.
- `IsoInitRunsOut`, for any host: the steps of the call and, after them, the ticks of
  the timer decrease `Rank`; no message, byte or second request sets it back, but a
  new call that begins with turning the UART off again.

### 5.4 `FrameProofs`

Assumption: `FrameAssumption`, any buffer, payloads whose length fits its byte, any
residue on the stack.

- `FrameTypes` and `FramesDoneAsAsked`, for hosts whose payloads and ends hold no `+ B`
  (`HeaderOnlyAtStart`). `FrameInv` says how much of the last frame is read, which
  frame each thing done was done for (`Assigned`), and what the buffer can hold: it
  begins with a frame of the host from its first byte on and nothing was done for
  that frame, or it cannot be taken for a frame (`Buffered`).

  The hypothesis is needed. A stale newline in the slot behind the last byte can
  make the loop drop the beginning of a frame, and if the rest holds `+ B 3 5`,
  TLC shows that this is run as a command. The payloads of the run have none.

### 5.5 `CommProofs`

Assumption: that of `CommHandler`, an answer of any number of frames.

- `CommTypes`: `TypeInv` bounds the frames taken by those asked for and the
  tries by three.
- `CommAnswers`, for prompt threads and answers in time. `CalmInv` follows an
  answer on its way: frames without a request come first and are dropped
  (`Dropping`), the reader has frame `k` in its hands (`Handling`), the frames
  after it are on the line (`Coming`), frame `k` is in the buffer and the event
  is set (`HandedOver`), the answer was taken up to frame `k` (`Answered`), or no
  answer is on its way (`Unanswered`); and the calls that are over returned a
  whole answer of their own or nothing (`Past`). `AnswersItsRequest` speaks of
  the last of these only.
- `CommStepsRunOut`, for any threads and traffic: every step but a new call decreases
  `Rank`. It counts, for the caller, the tries and frames that are left; for the reader,
  how far it is with its frame; and the frames on the line, each with the seven steps
  that the reader may take for it. A try is charged with the answer that it may put there.
- `CommNeverStuck`: during a call the caller or the reader has a step. The case that
  matters is that of prompt threads, where a wait ends without the event only if no
  answer is coming, and the reader takes a frame only while the caller waits: then the
  answer is with the reader or on the line, and the reader and the port are there
  (`StepInv`), so these two waits never hold at once.

### 5.6 `CcdProofs` and `QueryProofs`

Assumptions: `CcdAssumption`, any width of a byte and any messages;
`DisplayAssumption` (the values of an item have one length) and `QueryAssumption`.

- `CcdTypes`: `TypeInv` adds that a byte on the bus is one of its message.
- `CcdReports`: `Quiet` says what cannot be without a host (no message to send,
  no byte clocked out), and `Due` that what was reported, with what is in the
  buffer and what is still to come of the message on the bus, is what is due.
  `ReportsWhatIsSaid` is that formula at a pause.
- `DisplayTypes` and `DisplayBehind`. `DisplayInv` says of each item what a
  getter in the middle of its bytes has seen (`Reading`), what it has shown
  before it takes the flag down (`Clearing`), that the first value raises the flag
  (`FirstSet`), and the property itself when nobody is at work (`Settled`).
- `QueryTypes` and `QueryBehind`: every step of the query thread and of the user
  interface is a step of `DataDisplay` or leaves its variables alone
  (`QueryDisplays`), so the theorem about values carries over.
- `QuerySpeeds` and `QueryLow`: `SpeedInv` gives, for each place of the thread,
  the speeds that adapter and controller have there.
- `CcdNeverForgets`, with messages of the host too: a buffer that is not empty has
  more of the message on the bus to come, or an idle timer that the bus lets run
  out. `Watched` is the invariant, and the point of it is that the idle
  timer may be off in the middle of a byte only.
- `QueryRunsOut`, for finitely many items (`IsFiniteSet(Items)`, as a menu has): each
  step of the thread decreases `Rank`, but for the one that begins another round
  when nobody has told it to stop; what the user interface does meanwhile leaves
  `Rank` alone, except `Dispose`, which closes the port; and a stop signal that came
  after the beginning is not taken back. It rests on the items still to be asked for being a
  finite set that a round takes from.

### 5.7 `ScanProofs`

Assumption: `NullAssumption`, that null is no position of the multiplexer and no
bus. Nothing is assumed of the vehicles or the number of tasks, and only
`ScanLoadedAsStored` assumes anything of the file.

- `ScanTypes`: `Spec => []TypeOK`, also for tasks that overlap. `Shape` says which kinds
  of module are at which steps; `Quiet`, that no task begins before the database is
  there. The loader's methods have one thing in common (`Fills`), so that none of
  them runs once it is there (`LoaderEnds`).
- `ScanOneController`, `ScanPolledWhereFound` and `ScanOneModuleShown`, if a task ends
  before the next click. `OneByOne` says that at most one task is busy, and none
  once a module is shown; `Sourced` gives, for each step, which of the values
  heard so far came from where the multiplexer is now. It says nothing of the
  values that a failed attempt at position A left behind, and the proof shows that
  each of them is heard again before the lookup: after the switch both sequences
  of requests overwrite all four. Code that went on with the request that failed,
  instead of beginning again, would break the invariant at that step.

One lemma, `OneTaskMoves`, carries the invariant over a step of one task; the others
show what a request leaves in that task.

- `ScanLoadedAsStored`: if each file holds one and the same database in one of the two
  formats (`Holds`) and `Content` is that database's, then `Spec => []LoadedAsStored`.
  `Holds` asks what the methods cannot do without: at least 28 tables; numbers of 1, 2
  or 4 bytes, floats of 4 and a conversion of 6; no more bytes to transmit than the column
  has; a zero behind each text. Tables, rows, columns, widths and texts are otherwise
  arbitrary, and so is how tables lie in the file. `MCFilesHold` shows that files
  satisfy this. What the theorem covers is the way from bytes to cells:
  the header, columns left out, offsets, the order of bytes, where a text begins
  and ends. Which column becomes which member is what the run checks (3.9). The items of
  groups are excepted, as the code never reads them.

  The inductive invariant `ReadSoFar` says that the tables read so far are those of the
  layout and that each dictionary whose method has run is the stored one.
  `ColOffsets` is a recursive function, so that the offsets are the layout's is shown by
  a least counterexample (5.9); the order of bytes comes down to reversing twice
  and to swapping two pairs twice.

### 5.8 Only model-checked

- Liveness itself is out of the prover's reach, which has no rule for ENABLED. What
  a proof of it would rest on is proved where it is about the code's own order of
  steps: that steps use up a number (`CommStepsRunOut`, `SciStepsRunOut`,
  `IsoInitRunsOut`, `QueryRunsOut`) and that work that is not done has a next step
  (`CommNeverStuck`, `SciRestsSettled`, `IsoNeverStuck`, `CcdNeverForgets`). What TLC
  adds for `EveryCallReturns`, `Settles`, `UartOnAgain`, `BackToIdle` and `Stops` is that
  the fair actions are enabled where these theorems name a step, and the step to
  "eventually". The conditions that stand for "has a step" were compared with ENABLED
  by TLC on the instances of the runs: in `CommHandler` they are the same, and in
  `SciEngine` too while `recv_buff` has room; in `Iso9141` the condition implies it.
- `AllSent`, `FirstShown` and the fairness half of `ImplementsExchange` are TLC's
  alone. The first depends on interrupts that keep coming, the second on a user who
  looks.
- `ShownAsStored`: `Formatting` uses the bitwise and of a scaler's mask, which the
  prover's backends do not have.
- `KeywordsSuffice` and `OverflowMeansFull` are violated.

### 5.9 Induction

The induction theorems of the library take an operator as a parameter, which the
installed backends do not instantiate. The facts that need induction, the
checksum of `Iso9141`, the flattened reports of `SciEngine` and the offsets of columns in
`DrbDatabase`, use the set form instead: a set of naturals that is not empty has a
least element (`LeastNat`, from `WFMin` and the order on the naturals being
well-founded), so a set that has 0 and with each number its successor has all of
them. The recursive function is shown to exist and to be unique in the same way.

## 6. Hazards that shaped the properties

- The counter is wrong in both directions: a report's payload is counted twice, a
  result code not at all. With reports only the first error pays for what the
  test leaves out, unless a report has no payload: 170 lone zeros of the CCD bus that
  were not sent yet leave the test satisfied with four bytes of room. With codes
  the counter passes below zero and the next report discards replies.
- `recv_buff` of the SCI engine grows while messages replace each other in
  mid-exchange, without a check.
- A pointer wraps one cell late, so a cell that belongs to another variable is
  part of the ring.
- One byte leaves per wake, and the UART wakes nobody.
- An ISO message that replaces another may miss its length: `AddChecksum` reads
  a length that an interrupt has set to zero, and the position can then run past
  the array. `Iso9141` stops there.
- A second ISO initialisation can begin while the first is active.
- The ISO receiver is off while the vehicle answers an initialisation.
- The reader thread of the PC ends with the port and is not started again.
- `ProcessMessage` reads the current protocol several times, and the caller may
  change it in between.

Of the CCD engine, `CCD.c`:

- The step counter is one when the bit timer stops after a byte (`:151`), so the
  next byte has no start bit. The byte that is clocked out is never loaded from the
  message (`:123`).
- `ccd_do_tasks` loads the message and resets the bit position in every turn of the
  main loop (`:200`), which every tick of the bit timer wakes.
- The transmit-complete interrupt is enabled without a handler, so the first
  byte that the UART sends stops the adapter (`halted`). The handler that exists,
  for the empty data register, is not enabled (`:193`, `:212`).
- The period of the bit timer makes a bit 40 microseconds instead of 128.
- A lone zero is its own sum and is reported as a message without bytes. The
  buffer of 32 bytes has no bound check; messages of that length are not modelled.

Of the PC:

- `DataDisplay.cs`: flag and value are set in two steps by one thread and read and
  cleared in two steps by another (`:86`, `:160`). A value may stay one behind until
  it changes again, and may be made of bytes of two readings.
- `DataDisplay.cs:121`: for StarSCAN's order of bytes the loop ends before the
  first byte. The property about what is shown is of readings of one byte.
- `VehicleLinkManager.cs`: the way back to low speed is taken only while some item
  needs high speed (`:98`); `SCIHiSpeedQuery` decodes the bytes of its own request
  (`:75`), with offsets in another order than the items (`:69`); a thread that
  begins takes back a stop signal that `Dispose` has already set (`:88`), and
  `Dispose` then waits for ever.
- `ScanModuleType` keeps no user from clicking again. Two tasks share the
  multiplexer, so either may ask at the other's position: without `single`
  neither `OneController` nor `PolledWhereFound` holds.
- Lookups that never match: "SBEC/SBECII" is no part of a name (`TableIDUtility`),
  styles "PL41" and "PL44" are not what the tables ask for, `IsMatch` compares a masked
  value with the number of a bit, and a year of hexadecimal digits may not parse,
  which throws. The bus of a radio is never set. A body controller's level is asked for on
  CCD, whichever bus answered before.
- A link to an item that is not in the file makes `LoadModule` throw before it
  fills the lists, a link to a missing function half way through.

Of the database file: tables 13 and 18 are never read, because the second loop of
`ReadTXGroups` goes over table 7 again (`Database.cs:445`), so a group lists its
own module type; the hint of an item and the module type of a function are
not assigned; a column of three bytes would throw.

## 7. Disagreements between code and comments

- `bt_ring_overflow`: "buffer overflow" (`main.c:218`, `main.c:234`) is decided by a
  counter that does not count what the ring holds and a test that leaves out the
  six bytes of the frame. `OverflowMeansFull` fails in both directions. With reports
  without a payload, which the configuration has, the branch is not taken although the
  frame overruns the backlog: `bt_rx_last` passes `bt_rx_begin`, and what was waiting
  is lost although nothing was discarded. With
  `Payloads <- ShortPayload` instead, TLC shows the branch taken although there was room.
- `iso_keywords`: "Got SYNC / KW1 / KW2 - OK to continue" (`ISO9141.c:178`) is
  never reached, as the receiver is off.
- Seen by reading, without a run: "turn off SCI B multiplexer" (`main.c:57`) and the lines up to
  `main.c:66` set pins on ports that `definitions.h:22-29` does not have them on.
  The model keeps the ports of the code.

## 8. Limits

- `BtRing` treats each call as one step. `BtLink` takes the reader apart, not the
  writer, and has no result codes: a report that falls inside `bt_queue_cmd` is
  not modelled. `SentInOrder` says nothing after the first discarded backlog.
- Without `Paced`, `BtRing` bounds the reports without a payload that wait (3.1), and
  says nothing of what happens to the ring after an overrun.
- `BtFrames` stops where `idxLast` would leave `pendingRxBt.bytes`, and the two
  pins of the ISO K and L lines are as `main` leaves them. No property but the type
  invariant uses `mux`: it is carried because the commands set it.
- `SciEngine` leaves out the two baud rates, which touch no state that the exchange reads,
  and stops where `recv_buff` is full.
- In `Iso9141` the copy of a message is one step, and handshake bytes that are
  rejected are dropped as in the code.
- `CommHandler` has one caller of requests. The user interface calls
  `SendCommand` only. `Dispose` is left out. The test
  of `IsOpen` and the write are one step: that a port closes between them, and the write
  throws, is not told apart from a port that was closed before and cannot be opened.
- `QueryThread` and `ModuleScan` take a request as one step and are not composed
  with each other: a scan beside the query thread is not modelled. In
  `QueryThread` each item has a method and bytes to send.
- `CcdEngine` abstracts time as `Iso9141` does. The levels of the pins that
  `ccd_tx0_timer_tick` drives are left out, as the UART owns the pin.
- `DrbDatabase` reads files that are as long as their header says and have columns
  of 1, 2 and 4 bytes.

### Not modelled

- `J1850VPW.c`: it receives nothing (section 2) and sends nothing.
- The Arduino sketch: the earlier adapter, with channel changes and buffers of
  its own; it would need models of its own (section 2).
- Of the user interface: connecting (`OpenComms`, the list of ports), the box for
  raw commands, and the generated layout. `ScanMaster.Shell` is an empty window.
- Lookups that nothing calls: SKIM, tire pressure, door multiplexer.
- The vendored Atmel framework: timers, UARTs and sleep are the environment of the
  models. Hardware files and binaries.
