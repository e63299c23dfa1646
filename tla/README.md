# Verification of the keyboard firmware

TLA+ specifications of the firmware in `src/picow/kbd`: a split keyboard made of
three Raspberry Pi Pico W boards. The **AP** is the USB dongle; the **left node**
has half of the keys, a display and a clock; the **right node** has the other
half and the track ball. The AP connects to both nodes over Bluetooth LE. File
names below are relative to `src/picow/kbd` unless they start with `src/`.
`src/pico/kbd` is the wired predecessor of this firmware: two units, left and right,
on a serial line.

## The system

Each board runs two loops that never yield to each other. **core0** runs the
Bluetooth and WiFi stacks and a poll every 5 ms (`core0.c`); **core1** does
everything else (`core1.c`). They meet in `kbd_system`: shared buffers with one
writer, one reader, a time stamp and a spin lock (`util/shared_buffer.c`), and a
few plain fields such as `comm_state`.

| component | state | operations | hard because |
|---|---|---|---|
| Flash store (`util/flash_store.c`) | a ring of versions and a tracking bitmap per dataset, on a serial flash of the AP | create, load, save | power cuts between flash commands, wrap around, erase before program, bit arithmetic |
| Packet exchange (`ble_comm.c`, `ble_client.c`, `ble_server.c`) | sequence numbers, receive queue of two, send buffer, can-send request, per link | connect, subscribe, poll, send, receive, disconnect | each end sends only when in step with the other; connection lost, devices restarted at any moment |
| Session handshake (`core0.c`, `core1.c`) | `comm_state[2]` on each board | `update_comm_state` on core0, `validate_comm_state` on core1 | two boards and two cores each; either board restarts alone |
| Task flow (`screen_model.c`, `core0.c`, `core1.c`) | requests, responses, acknowledged ids and shared buffers on both sides | request, repeat until acknowledged, execute, respond | at-least-once delivery made exactly-once by 8-bit ids that restart and resets |
| Configuration sync (`screen/welcome.c`, `screen_model.c`) | the AP's datasets, the nodes' copies, 8-bit positions of each | save, apply, sync while idle | stale positions after restarts, widths that differ |
| Screens (`screen/*.c`) | the editors' selected field and values | events on the AP, tasks on the nodes | editors live on the node, saving on the AP |
| Input processing (`input_processor.c`, `key_layout.c`) | pressed keys now and before | key matrices to a report and an event | more keys than the report holds; stale matrices |
| Track ball (`core1.c`, `core0.c`) | motion accumulated at the right node, a shared buffer on each board | capture 5 ms, publish 25 ms, read 20 ms | four unsynchronised rates and a buffer of one |
| Idle and backlight (`core1.c`) | idle flag, saved backlight | `process_idle`, backlight keys | eight-bit minutes, three writers of the backlight |
| USB HID (`usb/usb_hid.c`) | the report under construction, `had_events` | start a chain of reports, continue it on completion | a refused report ends the chain |
| Connection manager (`ble_client.c`) | per node: state, handle, address | scan, connect, discover, subscribe | two nodes connecting at once, every step can fail |
| Scheduling and shutdown (`core0.c`, `core1.c`) | poll timer, time of the last contact | start, `bt_poll_handler`, `is_ap_long_lost`, `stop_system` | a timer that is not added again never fires; a node must not stay on without the AP |
| Firmware update (`tcp_server.c`) | downloading flag | three TCP commands | stops both loops for good, but not the stacks |
| Serial protocol (`src/pico/kbd/peer_comm.c`) | per unit: role, the dataset coming in and the one going out | find the peer, take a role, a cycle of bytes every 5 ms | each byte is sent in answer to one; a lost byte silences both |
| Drivers (`util/*.c`), LED animation, deployment tool, experiments | | | not modelled |

How they interact: an event on core1 of the AP (a key, or a tick of the loop)
reaches a *screen*, which makes a *task* for a node. The task goes through a
shared buffer to core0, rides on every *packet* until the node acknowledges its
id, goes through a shared buffer to core1 of the node and is executed; the
response takes the same way back. Packets carry tasks only after the *handshake*
has agreed that both ends know of each other's restarts. What the user saves
goes to the *flash store*, and *configuration sync* makes tasks of it.

## Modules

| module | models | built on |
|---|---|---|
| `FlashStore` | one dataset of the flash store, each flash command a step | |
| `DurableSetting` | abstract: a setting that survives restarts | |
| `FlashStoreRefinement` | `FlashStore` implements `DurableSetting` | both |
| `FlashStoreProofs` | the proofs about `FlashStore`, the refinement included | `FlashStoreRefinement` |
| `LinkLife` | abstract: the life of one connection as its two ends see it | |
| `Connections` | the AP finding, connecting and losing two nodes; starting and stopping the units | implements `LinkLife` for each node |
| `ConnectionsProofs` | the proofs about `Connections` | `Connections` |
| `SyncLink` | packet exchange of the AP and one node | `LinkLife` |
| `PacketPipe` | abstract: two pipes, used in turns, that a poll empties newest first | |
| `SyncLinkRefinement` | `SyncLink` implements `PacketPipe` | both |
| `CommState` | the handshake's transition function and packet contents | |
| `Handshake` | `comm_state` of both ends and both cores | `SyncLink`, `CommState` |
| `HandshakeProofs` | the proofs about its link, an instance of `SyncLink`, and about `Handshake` | `Handshake` |
| `TaskFlow` | requests, responses and acknowledgements | `PacketPipe`, `CommState` |
| `TaskFlowProofs` | the proofs about `TaskFlow` | `TaskFlow` |
| `ConfigSync` | one dataset between AP and node | (promises of `TaskFlow`, `FlashStore`) |
| `ConfigSyncProofs` | the proofs about `ConfigSync` | `ConfigSync` |
| `PowerScreen` | the power screen's editor, saving, backlight keys and idleness | (promises of `TaskFlow`, `ConfigSync`) |
| `PowerScreenProofs` | the proofs about `PowerScreen` | `PowerScreen` |
| `HidReports` | from key matrices and motion at the AP to the USB host | |
| `HidReportsProofs` | the proofs about `HidReports` | `HidReports` |
| `Editors` | fields and values of the track ball, pixel and date editors | (tasks and saves as in `PowerScreen`) |
| `PeerComm` | the serial protocol of the wired keyboard, with the loops that drive it | |
| `PeerCommProofs` | the proofs about `PeerComm` | `PeerComm` |

### FlashStore

`header` is the first byte of a 64K block, `used` the set of positions whose
tracking bit is 0, `cell` the 32-byte records, `fd` the `flash_dataset_t` in RAM.
`flash_store_load` is one action, since it only reads. `flash_store_save` is four:
the call itself, `SaveErase`, `SaveTrack` and `SaveData`, one for each flash
command, and `Restart` is possible between any two of them. An erase clears the records of one
sector (`EraseCells`, `SectorOf`); the sector of the first position begins with the tracking page and so
has fewer records than the others. A program command
clears bits only (`Programmed`), so writing over data that is not erased gives
`Foreign`. The initial block is erased or holds anything at all in its tracker.

- `ProgramsErased`: every program command finds its target erased.
- `TrackerInOrder`: an owned block has the bits cleared exactly up to one position.
- `ReloadAgrees`: between saves, a load would find the record and position in RAM,
  except at the last position.
- `ImplementsSetting`: as seen by its user, a saved value survives any number of
  restarts until the next save begins to mark its place.
- `EveryVersionReloads` (not checked, since it does not hold): the same as `ReloadAgrees`
  with the last position. There every bit is 0, the search at `util/flash_store.c:75` leaves the
  page buffer, and what is found depends on the byte behind it. `LoadOutcomes` has
  both outcomes, and with this property as an invariant of `FlashStore.cfg` TLC finds a
  restart that falls back to the default record.

Bounds: 2 bits a byte, 4 bytes a page and 4 records a sector give six positions,
two sectors, a first sector that is partly tracker, and the wrap around; with
two versions every overwrite by a different value occurs. The real geometry is
8, 256 and 128; the proofs cover it.

Not covered by `TrackerInOrder` and accepted by `DurableSetting`: a power cut
between `SaveTrack` and `SaveData` leaves a cleared bit over an erased record, and
the next load returns it, although `util/flash_store.c:9` reads a cleared bit as
"version present". `DurableSetting` says `Nothing` for that outcome.

### LinkLife, Connections

`LinkLife` is what `SyncLink` takes for granted of a connection: an end connects only
after both have let go of the last connection, the node subscribes before the AP does,
and each end hears of a loss for itself. `Connections` says how this comes about. `client` is
the AP's table of two clients (a handle that is none, valid, or left by a failed attempt, and
the state of discovery), `server` the node's end, `made` a connection complete event the AP
has not handled. `mode` is what a unit runs: off, on, on with its network open, or downloading
firmware, when its poll timer and core1 have stopped and its stacks have not.
`AdvReport`, `Complete` and `ApDisconnected` are cases of `hci_event_handler`, `QueryComplete` and
`QueryFails` of `gatt_event_handler`. `GiveUp` is the poll of a node that has not heard of the AP for
30 s (`ap_connected`, which `SeeAp` and `MissAp` keep), `StartDownload` and `FinishDownload` the
commands of `tcp_server.c`. Any unit is switched off or on at any time.

- `ImplementsLink`: for each node, scanning, discovery and their failures add up to `LinkLife`.
- `Served` (liveness): a node that stays on is connected and subscribed in the end, whatever
  state an interruption found either end in, unless the interruptions go on for ever. A
  connection that could not be made is excluded: `ble_client.c:297` takes its complete event
  for success, discovers services on a handle that is not its own, and nothing leads back.
- `PowersDown` (liveness): if a node's patience ends as `core0.c:301` says, it does not stay on
  without hearing of the AP, be the AP off, stuck in a download with its connections up,
  or unable to serve this node.

What the code does not do: free a unit whose download was abandoned. `core0.c:337` sets the timer
and does not add it, so its loops do not run again before it is switched off. A node opens its
server only when the AP's network is up, which closes after ten minutes.

Fairness: the stacks deliver their events, an advertising node is found while the AP scans, and
both loops of a unit that polls run. Nothing makes a connection hold, a user act or a
download proceed. `GiveUp` is not assumed fair, because `Served` is about a node whose patience
lasts; `PowersDown` has the assumption in its antecedent. No bounds: two nodes, every
combination of their states; a third would share only the scanning flag with them. The proofs take
any set of nodes, of which the AP is none (`NodeAssumption`).

### SyncLink, PacketPipe

`comm[e]` is `ble_comm_t`: the sequence numbers `x` and `y`, the queue `recv`, the
send buffer `send` (a sequence of at most one packet), and `auto_send`. `Process`
is one call of `ble_process`: drain the queue from its newest end, produce a
packet when in step. `SendData`, `Receive`, `Subscribe`, `Connect` and
`Disconnected` are callbacks of the Bluetooth stack. `chan` is the radio link,
which is external: in order, and lossy only by dropping the connection
(`LinkLoss`). `Reboot` is a restart of either device.

These are checked with the handshake's packets as payload, in `HandshakeLeft`:

- `NeverDropped`: no packet finds the queue of two full (`ble_receive_data` would
  drop it).
- `KeepsTalking` (liveness): as long as the connection holds both ends keep sending.
- `ImplementsPipe`: for its users, the exchange is a pipe in which the ends send in turns: an end
  sends only when it has taken all its peer sent but the one packet by which the peer may be ahead
  (`MaySend`). Nothing else bounds the packets under way or those that a poll finds. `TaskFlow` is
  built on that pipe. A connection that ends keeps what has arrived at an end that is open,
  a part of the rest, and nothing at an end that is closed.

Fairness (`FairSpec` of `Handshake`): the 5 ms timer fires, the stack delivers its callbacks and
an advertising node is found. Nothing is assumed about the radio link. Bounds:
sequence numbers modulo 4 instead of 256. Only equality and the successor are
used, and the ends never differ by more than one, so 4 separates everything that
256 does.

### CommState, Handshake

`update_comm_state` is the transition function of `core0.c`, `Reported` what a
packet says of the sender's state. In `Handshake` each board has its array of two
states; `Slot` is the element core0 uses and `Validated` those core1 looks after.
`stale` is a history variable: this end still has data of a session that the
other end's restart has ended.

- `FreshSession`: both ends exchange data only when neither is stale.
- `Settles`: once the link holds and no poll finds two packets, both ends reach
  `data` and stay there. The second condition is needed: `ble_process` consumes the
  newer of two packets first, and an older `init` consumed after a `ready` throws
  the end back, although `data_model.h:90` calls `ready` "handshake done".
- `ResetIsTemporary`: core1 leads every end out of `reset`. `Settles` implies it for the left
  node while the link holds. With `Side = 1`, the right node, it is violated: core0 uses `comm_state[0]` and
  core1 validates `comm_state[1]`.

### TaskFlow

`ap` and `node` hold what core0 and core1 of each board keep for tasks. `TakePackets`
and `Consume` are a poll that found packets (`todo` keeps those it has yet to
consume, so that core1 may run between two of them), `SendPacket` one that produces. A task is an
id, the boot it belongs to and whether it is a navigation event; the boot is not
in the packet as far as any guard is concerned, only ids are compared.

- `CompletedWasExecuted`: a response the AP takes for its request is to that request,
  across restarts of both. The one exception is `Confusable`: a poll has found two packets, and the AP has
  restarted.
- `EditsInOrder`: the node executes no edit before the task before it, across restarts of both; and it
  executes none a second time or after a newer task, unless a poll has found two packets. `Confusable`
  is excepted as above.
- `AckMeansReceived`: the AP stops sending a request only when the node has it. Holds
  through restarts of the node; violated when the AP restarts
  (`TaskFlowApRestart`), since `comm_rcv_req_id` of the node survives the reset.
- `TasksAnswered` (liveness): once the link holds, a pending request is answered, whatever polls find.

A poll takes every packet that has arrived, as `ble_process` does (`ble_comm.c:22`), the newest first. The
pipe admits two, when a timer comes late at one end; `overtaken` records that it happened. Two exceptions in
the properties say what the code does then, and without either of them TLC finds a counterexample in `TaskFlow`:

- The node takes the older of two requests last, it replaces the newer one in the buffer, and its edit is
  executed again. That contradicts `screen_model.h:51`, "there is only one task possible at a time for any
  node. no more tasks until the current one is completed". What remains of it is that no edit is executed
  before its predecessor.
- The AP takes the node's `init` first, is `ready`, and takes the older packet for data of the new session: its
  response is to a request that the AP made in an earlier boot. As the AP numbers its requests from 1 in
  every boot, it can have the id of the present request.

Fairness: both cores of both boards keep running. `SendPacket` has strong fairness, because an end may send
only in its turn; it stands for `KeepsTalking` of `SyncLink`. Users need not press anything, but the event
that follows a start or a reset (`reset_screen`) comes by itself.

Bounds: `MAX_ID = 2` requests in each boot and `MAX_BOOTS = 2` boots of the AP: a request of the new session
can meet an id, an acknowledgement and a response of the old one, in every order. Ids are not reused within
a boot; the wrap after 255 is out of the bounds. The node, its session and that of the right node may restart any
number of times, and packets under way are bounded by the turns alone. `TaskFlow` does not go on from a state that is
`Confusable` (`CONSTRAINT Distinguishable`), since its properties except all that follow, and has 1.3 million states
(3.7 million without the constraint, in which it passes too). `TaskFlowLive`
leaves out restarts of the AP, for which `AckMeansReceived` fails (`TaskFlowApRestart`), and has 318 thousand.

### ConfigSync

`fd` is the AP's record, `ap.applied`, `node.applied`, `node.pos` and `ap.known` are
the 8-bit positions. `Save` is what a configuration screen does with the node's
response, `IdleSync`, `Execute` and `Respond` are the welcome screen's part, `ApApply` and
`NodeApply` are `apply_config_screen_data`, `Adjust` is a backlight key or idleness, and the
resets are those of `validate_comm_state`.

- `KnownMeansHeld`: when the AP sees nothing to send, the node has its record.
- `AppliedIsCurrent`: what was saved or loaded is in use.
- `AdjustmentHolds`: a record is applied once, and does not override later
  adjustments, as long as its position fits into eight bits.
- `NodeCatchesUp` (liveness): on the welcome screen, with the link up, the node comes to
  use the record (`NodeIsCurrent`).

The code has three cases in which a record is not treated as it should be. Each is an exception in the
properties above, and TLC finds each property violated without its exceptions:

- The first save of an empty store keeps the position of the default (`flash_store.c:98`), and every
  device starts with an empty store. If the default has been applied or sent under that position, the first
  record is not, until the next save or restart. The history `first` marks that record; what is in use instead
  can only be the default.
- A node starts with `applied` and its position 0, so that a record whose position is 0 in eight bits is
  never applied by a node that has restarted. What it uses instead is the default it started with, and it catches up with
  the next save.
- A position of 256 or more never equals `applied`, so that the AP applies the record in every round of its loop
  (`screen_model.c:224`), and what the keys or `process_idle` set is undone at once. `AdjustmentHolds`
  promises nothing then.

Bounds: `WIDTH = 4` and positions 1 to 7 have positions below, at and above the width, one that is 0 in the byte,
pairs that are the same in it, and the wrap around. Stores start empty or not (`FRESH`). `MAX_BEHIND = 2` bounds the
positions taken between two confirmations: at three the position has come round to the same low bits (7 modulo
4). In the code that takes 248 saves (2040 modulo 256) with the node not syncing once. `behind` counts them; the first
save of an empty store takes no new position. Three values tell the default, the record and another one apart. Fairness: both
core1 loops run, and tasks are answered, which is what `TasksAnswered` gives.

### PowerScreen

One round of core1 of the AP is two steps: `process_inputs` (`ShowWelcome`, `Navigate`,
`BacklightKey` or `HandleEvent`), then `EndRound`, which is `process_idle` and the
`apply_config_screen_data` of the next round. `HandleEvent` is the last part of
`handle_screen_event`: nothing while a task is pending, the response to a save before
any key, and otherwise a task for the editor. `line` and `back` are the tasks and
responses under way; of ids only remains whether a response is to the AP's current
request. `LeftWorks` is the worker with its editor, `Reset` a session that starts anew.

- `BacklightFollowsUser`: the backlight is off while idle, and otherwise what the user
  has set last. Three writers share it (keys, saved records, `process_idle`), and the
  minutes of inactivity wrap, after which the device wakes by itself. A backlight key
  that ends idleness only wakes the device.
- `SavesWhatIsShown`: a record is stored only when asked for on this visit, and is what
  the editor shows at that moment, although the editor is on the other board.
- `SaveIsStored` (liveness): a requested save is stored unless the user leaves or a
  session is reset, whatever keys are pressed.

What does not hold: that the editor opens with the backlight the user has set. When
the key that opens the screen also ends idleness, `screen/power.c:29` sends the 0 of the
idle device, since `process_idle` restores the backlight later in that round, and a
save then stores 0.

Bounds: backlight 0 or 1 (off and on tell the writers apart), minutes modulo 3, idle
after one minute or never. At most two tasks and one response are under way, one
more than the screen itself makes, since only screen changes do not wait. A minute
does not pass between a save and its answer, which takes milliseconds. Fairness: core1
of each board runs, and tasks are answered, as `TasksAnswered` says.

### HidReports

`keys` and `motion` are the AP's buffers, `report` is `hid_report_out`. `ReportInputs` and
`WorkConfigScreen` are `execute_input_processor` outside and inside the config screens,
`usb_hid_task` and `usb_hid_idle_task` call `tud_task`, which handles the completion of a
report (`SendsMouse`), and `hid_task`. `ep` is the endpoint's buffer, `completed` a report the
host has taken whose completion is not handled; `Poll`, `Suspend`, `Resume` and `Unplug` are
the host and the bus, which are external.

- `MotionAccounted`: every unit of motion is in exactly one place, from the buffer to the
  host, or was overwritten or discarded; it is never doubled.
- `EscapeStaysInside`: the escape that leaves a config screen is not reported, unless a MOON is
  pressed while it is held. Then the key means PIXELS, the screen is left although
  `input_processor.c:216` says "exit on key up", and escape is reported when the MOON goes up.
- `EverythingReleased` (liveness): keys that are up and a bus that stays ready
  mean that the host learns of it, and so do buttons, whatever was suspended or refused before. Buttons
  travel in the second report of a chain; they need one more event, because a chain cut
  by a suspension or a busy endpoint is not started again without one.

What does not hold: that a config screen is left only by an escape pressed in it. The
static `exit` (`input_processor.c:208`) survives a session reset while escape is held, and
the next config screen is left at once.

Bounds: one unit of motion (a second would only add sums), one reported key with
a MOON, one button. Fairness: core1 keeps running and the host polls.

### Editors

`part` is one value of one record, `shown` the editor's copy of it, `stored` what the store
or the clock holds and `current` what the boards use. `NextValue` and `PrevValue` are
`select_next_value` and `select_prev_value` of the screen, `Written` and `Read` the way to the
record or the clock's registers and back. The parts are independent, so that following
each alone loses nothing; the fields of all of them are selected.

- `ValuesUsable`: whatever is saved, `input_processor.c` does not divide by zero, the sensor
  does not cap the resolution, and the clock gets no month 13. Nothing between the editor
  and these users checks a value.
- `StepsReversible`: next and prev, written apart, take each other back, and a colour the
  display can show is followed and preceded by such.
- `SaveIsReadBack`: the clock gives back the date that was saved.

What does not hold: that a colour component stays at or below `0x7f`, "the max value"
of `screen/pixel.c:88`. The default colour has the component `0x0f`, which is not a multiple of
four; four presses of prev on its low digit underflow a byte (`screen/pixel.c:140`) and
give `0xff`. And years from 2200 on, which the editor offers, are read back a hundred years
earlier, since `rtc_set_time` has one bit for the century.

Bounds: none, the bytes are bytes. The clock stands still; a save of the date writes
back the time at which the editor was opened.

### PeerComm

`pcc` is `peer_comm_config_t` of each unit of the wired keyboard, `line` the bytes on their way
to it, `pc` and `role` where core1 stands and what core0 has made of the role. `Seek`, `TryMaster`,
`SetRole`, `TakeRole` and `AskVersion` are the start-up loops of both cores. `OnData`, `OnEndData` and
`OnCommand` are the cases of the interrupt handler `peer_comm_on_receive`; the cases of a cycle
end with `EmitNextByte`, whose stages are operators of their own. `Tick` is
`peer_comm_init_cycle`, every 5 ms on the master. `fresh` are the datasets whose time stamp is
not the one they were last sent with, `Write` any of the writers. A dataset is `SIZE` bytes, each
with seven bits that say which version it belongs to, and a first bit that is set in every
byte of one of two versions and travels later, with those of its neighbours: `msbs` is the set of
the positions of its bits that are 1.

- `Intact`: what a unit holds of its peer is what the peer wrote at some time, byte for byte,
  though it is rewritten while it is sent, no check guards it, and a byte may be lost.
- `Delivered` (liveness): the unit with the USB host becomes the master, both come to exchange
  data, and once nothing is written nothing waits to be sent, even after a lost byte; if
  none was lost the peer has the last version of everything.

What does not hold: start-up does not survive a lost byte. `SEEK_SLAVE` is sent once
(`peer_comm.c:100`), so if it or its answer is lost both units wait for ever. `Delivered` excludes this
case, and it is why `PeerComm.cfg` does not check for deadlock. And a dataset counts as
sent when it is read, so one whose cycle was cut short is sent again only when it is
written again.

Bounds: one byte lost (at any point, start-up included), two datasets one way and one the other, three
bytes and two first bits a byte instead of up to 32 and six: a dataset then has a full
byte of first bits and a partial one, with and without bits in it. Versions alternate, so a
mixture of two consecutive ones shows. One unit has a host, as `src/pico/kbd/peer_comm.h:6` says. A
byte takes 5 us, so a tick finds the line silent, and a loop that sends by itself has seen
all but one answer. Fairness: both cores run, and a byte that is not lost interrupts core1.

## Runs

| run | expects | shows |
|---|---|---|
| `FlashStore` | pass | the four properties above and `ImplementsSetting`, power cut anywhere |
| `Connections` | pass | each connection lives as `LinkLife` says, nodes are served and power down |
| `HandshakeLeft` | pass | the exchange is lossless and live and implements the pipe; sessions are fresh and settle |
| `HandshakeRight` | violation | the right node stays in reset |
| `TaskFlow` | pass | completion and order of tasks, whatever polls find, through restarts of AP and node and resets of the right node's session |
| `TaskFlowLive` | pass | acknowledgements are right and requests are answered, whatever polls find, through restarts of the node |
| `TaskFlowApRestart` | violation | a restarted AP can take an old acknowledgement for a new one |
| `ConfigSync` | pass | the sync through restarts and edits, from an empty store or not, with positions wider than a byte |
| `PowerScreen` | pass | saves, idleness and backlight keys in every order |
| `HidReports` | pass | motion, escape and releases from the matrices to the host |
| `Editors` | pass | fields, steps and ranges of the track ball, pixel and date editors |
| `PeerComm` | pass | the serial protocol keeps data whole and recovers from a lost byte |

Only `PeerComm` turns the deadlock check off; elsewhere the firmware never stops.

## Proofs

`FlashStoreProofs` proves about `FlashStore`, for every geometry that satisfies the
named assumptions (at least one bit in a byte, two bytes in a page, a sector
larger than a byte's worth of records) and every set of versions:
`TypeCorrect`, `AlwaysProgramsErased`, `AlwaysTrackerInOrder` and `AlwaysReloadAgrees`.

All follow from `Inductive`: `Spec => []IInv`. The properties are not inductive
by themselves. That a save programs an erased record depends on what earlier saves
erased, so `IInv` adds `ErasedAhead`: from the newest position to the end of its
sector every record is erased. It is established by the erase of each sector when its first position is
reached, which needs that two positions with no multiple of the sector size between them are of one sector
(`NoStartBetween`, from `DivMod`), and that the erase leaves the position before alone (`StartsSector`). It
survives a power cut because `FlashInv` speaks of the flash alone. `SaveInv` says
what each command of a save relies on, `ReadyInv` relates RAM to the tracker and
`CreatedInv` the created dataset to the first position. There is one lemma for each
action (`LoadStep`, `SaveStep`, `EraseStep`, `TrackStep`, `DataStep`, `RestartStep`).

`HandshakeProofs` begins with the link under the handshake, `Link`, which is `SyncLinkRefinement` with
the handshake's packets as payload, for four sequence numbers or more and a queue of two or more
(`Link!Sizes`, which the handshake has as `LinkAssumption`). No proof about the link looks into a payload, so
nothing in them is particular to the handshake. That no packet is dropped (`LinkNothingDropped`) needs
to know why the lockstep works. `LinkInv` looks at each direction while the link is up
(`Lane`): the packets under way, in the receiver's queue, on the radio
link or in the send buffer, are the last ones the sender numbered, up to its own `x`; the receiver's
`y` is the number before the oldest of them, or one less when its last poll found two; and
the two ends' `x` differ by at most one, which bounds the packets by two. An end outside of
a session counts as one that has just begun (`LinkSession`), so that the subscription of
either end changes nothing. `LifeInv` says what connection events keep: nothing is under way while
the link is down, and the node subscribes first. `LaneDrain`, `LaneAhead` and `LaneSend` are the
three things a poll does, `FlowMoves` and the lemmas after it carry packets from one place to the
next without changing the direction's sequence.

That the link implements `PacketPipe` (`LinkKeepsPipe`) follows from the same invariant
and assumption. `Flow` is what is under way to an end, its received part first: a poll takes that part
and adds what it produces to the other end's (`PollRefines`), which is its turn because an end that may
send has taken all but the one packet by which its peer's `x` is ahead (`LaneTurn`, `AheadFacts`);
`SendData` and `Receive` move a packet from one part to the next
and leave the flow alone (`SendRefines`, `ReceiveRefines`); a loss leaves the received part
(`HasArrived`). `NothingYet` says why a link that fails before the node subscribed loses nothing.

Every step of `Handshake` is a step of that link or leaves it alone (`ImplementsLink`), for either side, so
`NothingDropped`, `KeepsPipe` and half of `TypeCorrect` follow. For these `Handshake` quantifies over
`Session` in `Process`, so that what a poll computes from its packets need not be known.

`SessionsAreFresh` (`FreshSession`) does need it. What a fold returns for any sequence is out of the
prover's reach, for one or two packets it is not: `BatchOfTwo` unfolds the folds of `Process`, `LinkInv`
says that a queue never holds more, and `BatchWithin` says what a poll leaves behind when
none of its packets helps to start a session. The invariant is `StaleInv`: an end that is
`stale` is still in `data` or has been reset, its peer waits in `init`, and everything on the way to
the peer, in its queue, on the radio link or in the send buffer, says `data` or nothing. So the peer
cannot leave `init` before the stale end has been cleared, although a loss, a late callback or another
restart may come at any time.

`ConnectionsProofs` proves `KeepsToLink` (`ImplementsLink`) for any set of nodes, `ExchangeIsMutual`
(two ends that exchange packets belong to a connection that is up) and `TypeCorrect`. The invariant
says `Linked` of each node: a connection that was made and not handled finds its client in `CONNECT` without a
handle; a connection that is up is held at both ends, the AP's handle possibly waiting in its event; and an AP
that exchanges data over it has a node that does. A step of one node is its own (`Here`), leaves the
others alone (`Elsewhere`), or ends everything a unit had (`Forgotten`), and `LifeNext` names the step of
`LinkLife` it is.

`TaskFlowProofs` proves three properties, `UsesPipe` and `TypeCorrect`, for any number of ids and boots, any
devices that restart, and polls that find any number of packets. `UsesPipe` says that every step of
`TaskFlow` is a step of `PacketPipe` or leaves it alone, so that the task flow asks nothing of the link but
what `KeepsPipe` proves of the packet exchange. `AckedWasReceived` (`AckMeansReceived`) holds as long as the AP does not
restart, as the violated run shows it must: `KnownInv` says that any task anywhere was made by the AP in
this boot or an earlier one, `AckInv` that an acknowledgement of the pending request, wherever it is, was earned.

The other two allow restarts of either device. Most of their invariants hold until a poll has found
two packets. Till then the packets to an end, taken and still coming, are one sequence
(`Flow`) that is consumed from its head, grows at its end and loses what comes last (`TakeMoves`,
`ConsumeMoves`, `SendMoves`, `LoseMoves`). Since there may be any number of them, the invariants speak of `Places`:
a packet of that sequence with the set of those before it and the set of those after it.
`PlacesInTail`, `PlacesInLonger` and `PlacesInPrefix` say what becomes of the places when the sequence loses its
head, gets one packet more or is cut, and `SessionMoves` sums up each step of the system in these terms.

- `CompletedOnlyExecuted` (`CompletedWasExecuted`): in the AP's first boot from `KnownInv` alone, since an id then
  belongs to one task. After it, until a poll finds two packets, from `Quiet` (an end that is closed has no packets)
  and `CleanInv` besides: behind a packet that lets the AP begin a session there is no task of an earlier boot of
  the AP, nor is one at the node or on the way to it.
- `EditsAlwaysInOrder` (`EditsInOrder`) has two parts. In the AP's first boot, whatever polls find, `ReachedInv`
  says that an edit is made only when the task before it was executed; it rests on `KnownInv` and `DoneInv`, that an
  answer is as new as anything executed. Until a poll finds two packets, `Inv` says more; it adds, each
  resting on those before it: `SessionInv`, what two ends know
  of each other's session while packets of another are still about (`Raises`: the packet that will bring its
  receiver into `data`; `Remains`: if its peer only starts, it was left over from a lost link); `Plain`,
  packets outside of a session carry no task; `LiveInv`, where tasks of the AP's present boot can be; `EditInv`,
  an edit is made and travels within one session; `OrderInv`, a task never overtakes another on the way to
  the node; and, with `DoneInv`, `ReadyInv`, whatever edit may be executed next
  comes directly after the newest task, or was the last one executed.

`FlashStoreProofs` also proves `KeepsPromise`, that `FlashStore` implements `DurableSetting`, for
every geometry. `Mapping` says what the abstract setting is in each state of the tracker, and
there is one lemma for each action (`LoadRefines`, `SaveRefines`, ...). Besides `IInv` it needs
`OpenInv`: the first position is written only when the abstract promise is no longer in force,
because the tracker is used up or never was the store's own.

`ConfigSyncProofs` proves `SavedIsUsed`, which is `AppliedIsCurrent`, for stores that start empty or not. `AppliedInv`
adds that a position that was applied is known by its low eight bits, and that a position yet to be applied
differs from the one applied last, unless it is that of a first record. This needs that an empty store
holds the default at the first position (`EmptyIsDefault`), and that a save moves to a larger position or
to the first one: so the theorem has the hypothesis `Distinct`, that the low eight bits of the last position are not the
first position (in the code 2047 and 8, so 255 and 8). `TypeCorrect` does without.

`NothingLeftToSend` is `KnownMeansHeld`, if fewer positions are taken between two confirmations than a position needs
to come round to the same low bits (`FewBehind`, 248 in the code). `KnownInv` counts them: the position the AP
knows of is the present one, `behind` positions ago (`Before`), and `ToldApart` says that its low bits differ from the
present position unless `behind` is 0. `AdjustmentHoldsInAByte` is `AdjustmentHolds`, for every geometry and without
a hypothesis: it needs only that after `apply_config_screen_data` the position applied is the record's
(`PositionApplied`).

`PowerScreenProofs` proves `FollowsUser` (`BacklightFollowsUser`), `StoresWhatIsShown` (`SavesWhatIsShown`) and
`TypeCorrect`, for any number of levels, minutes and choices. The current request is at one place
(`OneCurrent`): in the line of tasks, in its last position, or among the answers, or taken. If it
is a save, it was asked for on this visit and, once answered, carries what the editor shows
(`Saves`), which no later task can change because the line is then empty. `Opened` says that nothing
is answered before the editor has its record, `Awake` that idleness cannot set in while a save
is under way or unapplied, and `Backlight` extends `BacklightFollowsUser` to the middle of a round, when a
key has been handled and `process_idle` not yet. The choices of minutes stay choices because a set
of numbers has a least element and a bounded one a largest (`Least`, `Largest`).

`HidReportsProofs` proves `AllMotionAccounted` (`MotionAccounted`) and `EscapeNotReported`
(`EscapeStaysInside`), for any amount of motion, and `TypeCorrect`. With the type invariant the
first needs only that the keyboard report carries no motion, since it is the one a chain begins with;
the second that a config screen is not left while its own escape is held and that the report
under construction has no escape then (`EscapeInv`).

`PeerCommProofs` proves `StaysIntact` (`Intact`) and `TypeCorrect`, for any two disjoint sets of datasets, any
size, any number of first bits a byte carries, any pattern of them in the data and any number of
lost bytes. In the code these are eight datasets of at most 32 bytes, of which a unit sends
two or three, and six bits. `Intact` by itself says nothing of what is under
way; the invariant adds three things. `OneInv`: the units answer each other, so at most one byte of a
cycle is under way. `StepInv`: while one is, both directions are in step once it is taken, that is, the
receiver has as many bytes as the sender is past, and each has its first bit or will get it with
the bits the sender still keeps (`Matches`); when the end of a dataset is under way none is
kept, so all of it is there. A lost byte ends the cycle, and nothing need be in step until the
next one, whose first byte resets both. `OwnInv`: the units send different datasets, because only the
one with the host becomes the master; otherwise one could take its own data for its peer's.

Only model-checked are two groups of properties:

- all liveness properties (`KeepsTalking`, `Settles`, `TasksAnswered`, `NodeCatchesUp`, `SaveIsStored`,
  `EverythingReleased`, `Served`, `PowersDown`, `Delivered`), since liveness under fairness is beyond the prover;
- `Editors`: it has no constants, so TLC visits every state there is and a proof would add nothing.

## Not modelled, and why

Drivers have no state worth checking. LED colours, drawing and layout are pure
output. (`util/pixel_anim.c` keeps the direction of a fade in a static: a colour or cycle changed while
the fade goes down makes its counter start at 0, go to 255 and come back from there. Only colours show it.)
Of the UART firmware only what differs from
`src/picow/kbd` is modelled, its serial protocol. The deployment tool only copies files.
The 64-bit time stamps of the shared buffers are modelled as "written since
last read"; a torn read of one delays or repeats a read.
Each link is modelled on its own: the two share only the ids of tasks
and the reset of the AP's tasks, which `TaskFlow` has as the device `"right"`.

## Plan

In this order:

1. `SaveIds`: the ids of saves and responses with a small modulus, where they wrap.
2. `Trackball`: capture, publish and send at the right node, abstract: `HidReports`'s `Publish`.
3. `KeyReport`: layout, layers and the six key codes, and the matrices of a node that is gone.
4. Right-node tasks in `TaskFlow`: the ids shared between two nodes.
5. Proofs: those of the new modules, and that the sessions of `TaskFlow` are those of `SessionsAreFresh`
   (its pipe is that of `KeepsPipe`, by `UsesPipe`).
