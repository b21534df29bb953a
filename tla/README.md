# A verification of the PTN101x firmware's core

The repository holds the SDK of the PTN101x, a Bluetooth audio chip: firmware in C
that runs without an operating system, one main loop and its interrupts on one
processor. This directory holds TLA+ models of the parts that everything else
relies on, the TLC configurations that check them, and proofs for TLAPS.

Paths below are relative to the repository. `BLE/` stands for
`rw_ble/Src/modules/`, `app/` for `host/port/beken_app/`, `drv/` for
`host/port/beken_driver/`.

1. [The system](#1-the-system)
2. [How the components work together](#2-how-the-components-work-together)
3. [The modules](#3-the-modules)
4. [The runs](#4-the-runs)
5. [Fairness](#5-fairness)
6. [The proofs](#6-the-proofs)
7. [What was found](#7-what-was-found)
8. [What is not modelled](#8-what-is-not-modelled)
9. [The plan](#9-the-plan)


## 1. The system

### Components with state of their own

| component | source | state | operations | what makes it correct |
|---|---|---|---|---|
| ke: events, messages, tasks | `BLE/ke/src/ke_event.c`, `ke_msg.c`, `ke_task.c`, `ke_queue.c`, `ke.c` | a field of event bits; the queues of sent and of saved messages; the state of each task | set an event, run the highest; send, forward, free, save a message; change the state of a task; reset | no message is lost, doubled or reordered; no message waits without its event; no deep sleep over a message, and no event before the clock is right after one; a saved message comes back when its task changes its state; higher events do not wait for a second message |
| ke: timers | `BLE/ke/src/ke_timer.c`, the 1 ms target in `BLE/rwip/src/rwip_driver.c` | a queue sorted by time; one comparator of the Bluetooth clock | set, clear, expire; arm the comparator; interrupt; sleep and wake-up | expiry in the order of times, across the wrap-around of the clock; the comparator follows the first timer; an overdue timer is served |
| ke: heaps | `BLE/ke/src/ke_mem.c` | per heap a doubly linked list of free blocks in address order | `ke_malloc`, `ke_free` | blocks never overlap, none is lost, neighbours that are free are joined, the list links exactly the free blocks |
| nvds | `BLE/nvds/src/nvds.c` over `drv/driver_flash.c` | tags one behind the other in a sector of NOR flash | put, get, delete, lock; purge when full; start | a tag reads as it was last written; a locked tag stays; a power loss costs at most the tag being written |
| host: message pool | `host/port/beken_no_os/msg.c` | a ring with two free-running counters and a status | put from the main loop and from interrupts, get | a bounded FIFO; requests of which one is enough are not put twice, or twice at most when an interrupt puts them too |
| host: timers | `host/port/beken_no_os/timer.c` | a singly linked list sorted by tick | reset, stop; the 10 ms interrupt takes due timers off and posts messages | a pending timer is on the list, fires in order and in time, also when the pool is full |
| firmware update | `app/beken_ota.c`, `drv/driver_ota.c`, `drv/bootloader.c` | a spare area of the flash, its info record, `driver_ota_param`, `beken_ota_param` | INQUIRY, START, DATA, END, REBOOT; write in the main loop; copy in the boot loader; erase at the next start | what is installed is one whole image; what was installed is what runs; the remains of an update are marked as such |
| environment: storing | `app/app_env.c` | blocks of a flash sector, used one after the other | write, read | what was written is read at the next start |
| connection establishment | `app/app_bt_connect.c` | one state, one event, a timer, a count | page, authenticate, encrypt, SDP, HFP, A2DP, AVRCP, each with its answer, its failure and its timeout | every attempt ends; a request goes over the link that is up; an event is an answer to the request that was made last |
| connection management | `app/app_bt_management.c`, the callbacks in `app/app_bt.c` | an entity per phone, scan and reconnection state | reconnect, scan, disconnect, give up | one attempt at a time, whose result goes to who asked for it; a link has its entity; a phone that is wanted is tried again or given up |
| work modes | `app/app_work_mode.c`, `app/app_msg.c` | current and requested mode | switch, refuse, fall back | one mode owns the audio path |
| BLE profiles | `rw_ble/Src/profiles/*`, `rw_ble/Src/plf/prf/prf.c` | a task each, IDLE or BUSY per connection | attribute requests, notifications | a busy profile becomes idle again and serves what it has saved |
| HCI transport | `BLE/h4tl/src/h4tl.c` | receiver state of the UART | header, payload, resynchronisation | it finds packets again after a corrupted one |
| jos | `host/jos/` | registries, buffer chains, a heap | | |
| ring buffers | `drv/driver_ringbuff.c`, `drv/drv_ring_buffer.c` | two indices | write, read | |

`PROJECT.json` lists every component, with the reason for those that are not
modelled (section 8).

### What is hard about it

- **Interrupts.** They come between any two accesses of the main loop to shared
  data that is not guarded by `GLOBAL_INT_DISABLE`. `host/sys/sys_irq.c` masks the
  other kernel interrupts while one is handled, so they do not nest.
- **Sleep.** `rwip_sleep` decides about the deep sleep of the Bluetooth core with
  interrupts disabled. `SYSpwr_Halt_System` enables them again, ignores its result, and
  then halts the processor if the core sleeps; `main` halts without a look at the kernel at
  all. Whatever comes in between waits for the next interrupt. And the processor is
  awake long before the core: until its clock is corrected, events have to wait.
- **A clock that runs on while the code runs**, wraps once a day, and whose
  comparator is silent about moments that have passed.
- **Power losses.** A NOR flash clears bits one write at a time, and erases whole
  sectors; the power goes between any two writes, and the next start has to make
  sense of what is left.
- **A bounded pool and no waiting.** When the pool is full, or a heap, something
  must give: a message is refused, a timer is put back, the chip is reset.
- **A client on the radio** that repeats, loses and cuts off what it sends, and that
  nothing holds to the protocol.
- **Callbacks between two passes.** The host reports links, profiles and answers
  whenever it is scheduled. They meet a connection attempt that keeps its last event
  in one variable and an entity that another event may have freed or given away.

## 2. How the components work together

```
  interrupts ----------------+--------------------------+
      | ke_event_set         | ke_msg_send              | msg_put
      v                      v                          v
  event field  --KE_MESSAGE--> sent queue          message pool <-- host timers
      |   ^                      |   ^                  |             (10 ms tick)
      |   | ke_msg_send          v   | ke_state_set     v
      |   +--------------- handlers of tasks     common_msg_handler
      |                          |                      |
      +--KE_TIMER--> ke timers   +--> saved queue       +--> callbacks, app
                        |                               |
                 1 ms comparator                env, firmware update --> flash
                                                nvds ------------------^

  BR/EDR host --callbacks--> entities --bt_connection_req--> connection attempt
       ^                    (app_bt_management)  <--result--  (app_bt_connect)
       +---- page, authenticate, encrypt, SDP, profiles, close ----+
  main loop (drv/Main.c):  pool, BLE scheduler, connections, pending flash writes,
                           then rwip_sleep or halt
```

The BLE side and the host side have a scheduler each, and the main loop calls one
after the other. They share the flash with its one write protection bit, and the
firmware update runs in both: its data come as BLE messages or through SPP, its
writes are made in the main loop.

The main loop calls `bt_app_management_sched` for each entity, then
`bt_connect_scheduler`, then the host. Management asks for an attempt and polls its
result; the attempt asks the host and polls the event that a callback has left; both
change the entities.

The models follow this cut. What one component expects of the other is in the
guards of the actions that stand for it: KeKernel has interrupts that send at any
moment, KeTimer a main loop that may be late, OsTimer a pool that others fill.
BtManage composes management and attempt over a host that does anything a host can.

## 3. The modules

| module | what | lines of the code |
|---|---|---|
| `KeQueue` | operators on the queues of ke: push, extract, ordered insertion | `co_list.c`, `ke_queue.c` |
| `KeMailbox` | what the kernel promises about messages | abstract |
| `KeKernel` | events, messages, tasks, interrupts | `ke_event.c`, `ke_msg.c`, `ke_task.c` |
| `KeTimerService` | what users of timers are promised | abstract |
| `KeTimer` | ke timers over their comparator | `ke_timer.c`, `rwip_driver.c` |
| `KeMem` | the heaps | `ke_mem.c` |
| `NvdsStore` | a map from tags to values | abstract |
| `Nvds` | the tags in the flash | `nvds.c` |
| `MsgQueue` | a bounded FIFO | abstract |
| `MsgPool` | the ring and its counters | `msg.c` |
| `OsTimer` | the timer list of the host | `timer.c` |
| `Ota` | firmware update, boot loader, environment | `beken_ota.c`, `driver_ota.c`, `bootloader.c`, `app_env.c` |
| `BtEntity` | the container of entities and what closes a link | `app_bt_management.c` |
| `BtConnect` | the connection attempt, state by state | `app_bt_connect.c` |
| `BtManage` | the entities' procedures, the main loop, the host | `app_bt_management.c`, `app_bt.c` |
| `MC*` | the instances for TLC | |
| `*_proofs` | the theorems | |

Each mapped definition and the lines it stands for are in `PROJECT.json`. Names
ending in `_Something` next to a definition are *mutants*: the definition with a
plausible mistake in it. For each property of a run one of them makes TLC find the
property violated.

### KeKernel

`sent` and `saved` are the two queues, as sequences of message blocks; `live` is
the set of blocks that are allocated. `field` is the event field as a set of bits.
`pc` says where the main loop is. It has a value for each point where an interrupt
makes a difference, and the code between two of them is one action:

| action | code |
|---|---|
| `RunEvent`, `ScheduleDone` | the loop of `ke_event_schedule`: the highest bit, or none |
| `PopMessage` | the first part of `ke_task_schedule`, up to the call of the handler |
| `Alloc`, `Free`, `Send`, `Keep`, `StateSet`, `AddProfile`, `Reset` | what a handler may call |
| `SetMessageEvent` | the second critical section of `ke_msg_send` |
| `MoveSaved`, `MoveSavedDone` | the rounds of `ke_task_saved_update` |
| `ReturnConsumed`, `ReturnSaved`, `ReturnNoFree` | the three ways a handler returns |
| `ClearEvent` | the last part of `ke_task_schedule`, with interrupts disabled |
| `RwipSchedule` | the gate of `rwip_schedule`: no events during a deep sleep or a wake-up |
| `RwipSleep`, `SkipSleep` | `rwip_sleep`, and the passes that do not call it |
| `SysHalt`, `WakeUp` | the halts of `SYSpwr_Halt_System` and of `main` |
| `IsrWakeup`, `IsrWakeupEnd` | `rwip_wakeup`, `rwip_wakeup_end` |
| `IsrSetEvent`, `IsrSend` | interrupts |

Handlers are not modelled one by one: a handler is any sequence of the calls a
handler can make, and returns in any of the three ways. The properties so hold for
every profile and application.

`late` and `stale` are history variables: how many messages were taken in a row
with a higher event set, and which messages were saved under a state that their
task has left. They change no behaviour.

`prevent` has the two flags of `prevent_sleep` that the kernel itself sets:
`RW_DEEP_SLEEP` from `rwip_sleep` to the wake-up interrupt, `RW_WAKE_UP_ONGOING` from
there until the clock is corrected. The other flags, the time to the next target and the
transport can only keep the core awake: `RwipSleep` may do nothing. `rwip_sleep` does not
look at events while the core wakes up, and its caller does not look at its result, so that
the processor halts, or goes on, whatever was decided.

`ke_task_msg_flush` is left out. It has one caller, `prf_init`, which calls it when
both queues are empty. With any other call it would damage the queues: it extracts
from `queue_sent` the message that it has found in `queue_saved`, then frees it.

### KeTimer

`now` is the clock, modulo `M`; half slots and half microseconds are one unit.
`target` is `timer_1ms_target`, `irq` the pending interrupt of the comparator, and
`masked` says whether interrupts are disabled. `Tick` is enabled everywhere, so
time passes between any two steps of the main loop. The comparator raises its
interrupt when clock and target are equal, and only then.

`Runs` is in the guard of each step of the main loop: when an interrupt is pending
and not masked, it is taken first.

`left` is a history variable: the time until the moment that the caller of
`ke_timer_set` has asked for, which is negative when the timer is overdue. It is
what the abstract `KeTimerService` talks about, and it does not wrap.

The delay in clock units is computed modulo `Word` (2^32 half microseconds in the
code). Delays above 35 minutes overflow, though the code accepts up to
`KE_TIMER_DELAY_MAX` = 41943039 ms: such a timer expires far too early. The runs
keep to delays without overflow, for no caller in the repository uses others.

`PastTarget` and the deep sleep are parts of `rwip_sleep` that it reaches only when no flag
prevents a sleep, and host and controller allow one. They may be taken whenever no event
is pending, or never.

### KeMem

Addresses count words. `node` maps the address of each free block to its
descriptor, `used` the address of each used block to its size. Calls run with
interrupts disabled and are one action each. The code finds its place by walking
the `next` pointers; the model takes the node in front of the block by address.
The two are the same while `Linked` holds, which is one of the invariants.

`ke_free` is four actions, for the four cases of its neighbours. When no heap has
room, `ke_malloc` returns NULL (`MallocFails`): it calls `platform_reset`, but the body of
that is commented out (`arch_main.c:116`).

### NvdsStore and Nvds

A byte has three bits instead of eight: those of the status. The magic number is
one byte. A call computes the sequence of its flash accesses, `todo`, from what is
in the flash when it starts, and `Work` carries them out one by one. `Crash` drops
what is left and starts `nvds_init`. Programming is a bitwise *and* with what is
there.

`flash_write_data` programs lines of 32 bytes, merged with what they hold. A tag lies
anywhere across lines, so the power can go between any two of its bytes, and
programming a byte again with its own value changes nothing.

`Nvds` implements `NvdsStore` while the power stays on. Afterwards the store is
`Lost`, and the invariants that speak of power losses take over.

### MsgPool

The counters wrap at `Range` (2^32). `Check` and `PutMain` are the two halves of
`msg_lush_put` in the main loop, before and after interrupts are masked. `IsrIds` are the
messages that interrupts put; MSG_VUSB_DETECT_JITTER is one of them and is put from the main
loop as well (`Driver_vusb.c:114`, `app_msg.c:166`).
`msg_priority_put` and `msg_uninit` have no callers.

### OsTimer

Each access of the main loop to the list is a step. Where the code reads a link
twice, as in `if (*iter) *iter = (*iter)->next`, a compiler may read it once or
twice, for nothing is volatile: `Cut` and `Point` take the value that was seen or the
one that is there.

The interrupt comes between any two steps. `torn` is a history variable: an interrupt has
taken a timer off the list, or put one back, while the main loop had a place of the list in
hand (`Inside`). After that the list can be anything, as the run `os_timer_race`
shows; the properties of the run `os_timer` say what holds until then. That includes
interrupts inside `os_timer_reset` and `os_timer_stop` that find nothing due, jumps of the
counter, and the pool being full. `MCOsTimer` has a state constraint, `Whole`, that stops at
torn states, of which no property of that run says anything.

### Ota

`area` is the spare area, `dest` the firmware, unit by unit; a unit stands for what
is erased and programmed at once. `info` has the mark, the header (`body`) and the
crc over both (`seal`). `Reaches` and `LockAfter` are the write protection as the
driver handles it: erasing lifts it and always sets it again, programming does so
only while no update is going on. `mode` says which program runs: the boot loader
("boot", "copy", "used"), the start of the application, the application, or the
end of an update.

`MaxFaults` copies go wrong in the boot loader, which compares and copies again.
`UpdatesFrom` bounds the model, not the code: it names the firmware on which clients
start updates.

Clients are not held to the protocol, because the code does not do that: START is taken
without an INQUIRY before it and for any image, INQUIRY and END come when they want. Only
DATA come from a client whose START was accepted and that has asked for nothing since. A START
without an INQUIRY leaves `update_flag` 0; then nothing empties the buffer, and END, or DATA
when it is full, wait until the watchdog bites (`Hang`, mode "stuck").

The erasing at the start of the application goes down from `addr1 + len` in whole sectors
(`Walks`, `Cleaning`). For an image in `Ragged`, whose length is no multiple of a sector, it
passes over the last unit and erases the sector below the area, here number 0. The headers
of two images that lie over each other read as a length that neither had: then the walk may
begin anywhere. `spared` is a history variable: the units that the last walk did not reach.

### BtEntity, BtConnect, BtManage

`BtEntity` has the container as functions of its value, because one callback often
makes several changes in a row: `FreeByAddr(ClearFlags(E, ...), ...)`. With all entities in
use, `Alloc` gives away the last one, as the code does. `Find` takes the
first entity with an address, used or not, as the code does.

`BtConnect` has `g_conn_st` as the record `conn` (with the event, the state, the
result, the pointer `link`, the timer and the count of the attempt) and `ask`, the
request the host has not answered yet. `bt_connect_scheduler` maps the event
to a state (`EventToState`) and takes the one step of that state. A request over a
link that the host refuses is made again on the next pass (`AskLink`). `link` is
"stale" once the link it points to is gone.

`BtManage` has one action per state of an entity, one for the attempt, and the
reports of the host as `Host`:

| action | code |
|---|---|
| `unused_`, `scanning_`, `standby_`, `working_`, `sniff_mode_`, `connecting_procedure` | `bt_app_*_procedure` |
| `Schedule` | `bt_connect_scheduler` in the main loop |
| `LinkMade`, `LinkLost` | `app_bt_conn_compl_wrap`, `app_bt_disconn_wrap` |
| `ProfileUp`, `ProfileDown`, `EndOfStream` | `app_bt_profile_conn_wrap`, `a2dp_disconnected`, `a2dp_stream_suspend_cb` |
| `LateConnected` | `a2dp_time_out_to_scan` |
| `HostAnswers` | success, failure and refusal of what the attempt has asked for |
| `MatchButton` | `app_button_match_action` |
| `Expire`, `RetryExpires` | the time of the attempt, and of the next one |

`turn` goes over the entities to the attempt. The host runs only when a pass is
over, and then takes any number of steps, as it runs once per pass. `Alloc` and `Bind`
are called by the host library, through `bt_app_entity_bind`, before the application's
callback; that order is an assumption about the library.

Two history variables belong to the properties: `asked`, the phone for which an entity asked
for an attempt last, and `evicted`, the phones whose entity was given to another phone.

`MaxSurprises` bounds how often something happens that the program has not asked
for: a refusal, a lost link, a call, a profile that the phone connects or disconnects,
music, the match button. Answers to requests, failures among them, are not bounded: the
code counts them itself.

## 4. The runs

| run | states | what it shows |
|---|---|---|
| `kernel` | 397 k | 3 messages, 2 tasks, 2 events, all interleavings with interrupts, sleeps and halts: integrity of the queues, no lost wake-up, bounded priority inversion, saved messages reactivated, order, no deep sleep over a message, no event before the clock is right, `KeMailbox` implemented, everything sent is handled |
| `timer` | 324 k | 3 timers, a clock of 12 units: the comparator follows the first timer, `KeTimerService` is implemented, what is overdue is served or was missed, and what was missed is served once `rwip_sleep` looks |
| `mem` | 6.7 k | 2 adjacent heaps of 18 and 11 words, 3 sizes: tiling, linkage, joining |
| `nvds` | 271 k | 2 tags, values of 2 lengths, 2 power losses at any byte |
| `nvds_torn_tail` | | *violation*: see section 7 |
| `msg_pool` | 24 k | 4 slots, counters that wrap after 12, interrupts that put requests too |
| `os_timer` | 4.5 M | 3 timers, pool of 2, ticks of 1 and 3, interrupts between any two accesses to the list, until one of them changes the list under the main loop |
| `os_timer_race` | | *violation* |
| `ota` | 2.9 M | 2 images of 2 units, one with a partial last sector, a buffer of 1, 2 blocks of the environment, clients that do what they want, a power loss and a faulty copy |
| `ota_env` | | *violation* |
| `bt` | 5.2 M | 3 phones for 2 entities with HFP, A2DP and AVRCP, every step may fail or be refused, two surprises: each link has its entity unless another phone took it, results reach who waits, one attempt at a time, no answer is judged twice, no first request over a link that is gone |
| `bt_live` | 52 k | 1 phone with A2DP and AVRCP under fairness, one surprise: attempts end, a phone without a link is connected or given up |

### Why the bounds are enough

*kernel.* The queues hold one message in the hands of each actor (the main loop,
an interrupt) and one that waits, or two saved ones and one that is being moved:
every order of two messages around a third one occurs. One event above
`KE_MESSAGE` is what priority is about. A task in the boot set and one that is added
and removed cover the messages for tasks that do not exist. The safety part is
proved for all sizes (section 6).

*timer.* Three timers are needed for a queue with a first, a middle and a last one. The
clock wraps after 12 units, four times the longest delay, so that the half-range comparison of `CLK_LOWER_EQ` is
used on both sides of the wrap. `MaxLate` bounds how long a timer stays overdue: the
code has no such bound; the model needs one to be finite, and one unit beyond the
margin and the clock step of a deep sleep is enough to be overdue behind them.

*mem.* The first heap has room for up to five blocks beside its first node, so that a block is
freed between two free ones, between two used ones, and at either end. A request of
3 words is cut off or takes a node whole. The heaps lie side by side, where an
address can be mistaken for one of the other heap. The invariants are proved for
any heaps.

*nvds.* 13 bytes hold two short tags and an end marker, or a long one and a short
one, but not two copies of both: purges occur after two or three calls, with and without enough
room afterwards. The second power loss hits what the first one has left.

*msg_pool.* `Range` is three times the ring: full, empty and partly filled rings
meet the wrap.

*os_timer.* One timer to be changed, one it stands on, and one behind it. A pool of
two slots, which other interrupts fill too, refuses messages. `MaxTick` ends the
run; each timer can be set, expire, be put back and expire again before. TLC checks
no deadlock at the end because clients can still stop and reset timers.

*ota.* Two units are the least for an image that is cut off in the middle, and a
buffer of one forces writing while data come in. Two images let a second client start over
the remains of a first one; one of them has a partial last sector. Two blocks make the
environment erase its sector every second time. One power loss, at any
access, and one faulty copy; the theorems hold for any number of both. `UpdatesFrom = {Old}` keeps to updates of the first firmware:
after one is installed, clients still send INQUIRY, END and REBOOT, but no START. From
then on the states are those of the beginning with other firmware; the run `ota_env` and the
theorems have no such bound. Without it TLC needs three times the states and no longer
ends in five minutes.

*bt.* Two entities are all the code has. With a third phone they are not enough, and the
phones compete for the one attempt, its timer and `temp_id` as well. The phone's records
name HFP alone, A2DP with AVRCP, or all three, so that the attempt takes each of its ways
and meets each of the named exceptions: without its exception each of `LinkHasEntity`,
`WaiterIsAnswered` and `RetryIsFresh` is violated in this instance. One attempt after the
start and one after a time-out let a phone be given up and come back. Two surprises at any
two points of every history are needed for two phones to call at once, or for a
phone to be connected and then lost. The theorems of section 6 hold for any number of
phones, attempts and surprises.

*bt_live.* One phone and one entity: what could keep a phone from being served by another
one is `OneWaits` and the flag that the property names. The link of an attempt may
fail with or without being told (`TellsFailure`).

### The properties

They are stated and commented in the modules. Those that say most:

- `KeKernel!NoLostWakeup` — `ke_msg_send` and `ke_task_schedule` use two critical
  sections each, in opposite order; a message in the queue has its event set, or its
  sender is about to set it.
- `KeKernel!SavedUpToDate` — no message stays saved under a state that its task
  has left.
- `KeTimer!HwFollowsFirst` — when the main loop is outside `ke_timer.c` and nothing is
  pending, the comparator is armed for the first timer.
- `KeMem!Tiled`, `Linked`, `Coalesced` — the heap as a partition, as a list, and
  without two free neighbours.
- `Nvds!EarlierTagsSurvive` — a power loss while a tag is written costs no other
  tag its value, unless the sector was being purged.
- `Nvds!NoMixture` — what is left of the tag itself is the old value, the new one,
  none, or one that `nvds_get` refuses.
- `OsTimer!OnTime` — with a full pool, too, no due timer is left behind.
- `Ota!RunsWholeImage` — the firmware that runs is complete, wherever the power was
  lost; `Ota!BootInstalls` — and an update that is complete at a reset gets there in the end.
- `BtManage!WaiterIsAnswered` — an entity that waits has an attempt that is its own, or
  was told that it has none, and always a result to come.
- `BtManage!RetryIsFresh` — a request that was made again, but for that for AVRCP, is not judged
  by the failure of the one before; `BtManage!LinkIsLive` — nor is one made for the first
  time over a link that is gone.
- `BtManage!PhoneIsServed` — in the end a phone without a link is connected or given up.
  It names the three situations in which the code leaves it alone (section 7).

- `KeKernel!EventsAwaitClock` — from the moment the core goes to deep sleep until its clock
  is corrected no event, message or task runs, though the processor is awake earlier.
- `MsgPool!PutOnceUntilWrap` — a request of which one is enough is in the pool once; twice, when
  an interrupt puts it between the look of the main loop and its put, but never three times.

Several properties name exceptions: `OverdueIsServed`, the three of the run `os_timer` (`torn`),
`DirtyIsMarked`, and those of `BtManage` but `TypeOK` and `OneWaits`. They are situations of
the code, found by TLC or by the reader, and the property is what holds outside of them.
Each exception is described in section 7.

## 5. Fairness

*KeKernel.* `WF(Scheduler)`: the main loop does not stop. `SF(HandlerReturn)`,
`SF(CallbackReturn)`: handlers are code without a wait in it, so they return whatever
they call before. `WF(IsrWakeup)`, `WF(IsrWakeupEnd)`: a core that sleeps wakes up
and corrects its clock, for it has a sleep time. Other interrupts are not fair: none has to
come. `SentIsHandled`
supposes that events above `KE_MESSAGE` do not keep coming, because they have
precedence without limit.

*KeTimer.* `WF(Tick)`: the clock runs. `WF(Isr)`: pending interrupts are taken.
`WF(Schedule)`: the code in `ke_timer.c` goes on. `SF(TimerEvent)`: the main loop serves
its events; strong because tasks that set and clear timers disable it for a while. That
`rwip_sleep` gets as far as its look at the target is *not* assumed: a flag in
`prevent_sleep` can keep it from that for ever. `OverdueIsServed` has two halves: what
holds without it, and what holds if it looks again and again (`SF(PastTarget)` in the
premise of the property).

*Ota.* Weak fairness of the boot loader and of calls that have started. Clients
and power losses are free; power losses are bounded by `MaxCrashes`, which is
what makes the boot loader come to its end.

*BtManage.* `WF(Loop)`: the main loop goes on. The others are strong, because the
host is heard only between two passes: `Expire` and `RetryExpires`, as times pass; for
each phone `LinkMade \/ LinkFailed`, as the controller ends a page with one or the other;
and the loss of a link that the host was asked to close. Answers to requests
over a link are *not* fair: `AttemptEnds` has to hold if they never come, by the
timer. Phones and users are not fair either.

The other modules have no liveness properties.

## 6. The proofs

`tlapm` checks all of them to the last leaf, with Z3, Zenon and LS4. They hold for
every value of the constants that the named assumptions allow
(`KernelAssumption`, `TimerAssumption`, `MemAssumption`, `MsgPoolAssumption`,
`NvdsAssumption`, `StoreAssumption`, `OtaAssumption`, `OsTimerAssumption`, `EntityAssumption`,
`ManageAssumption`), which TLC evaluates for the instances. One theorem needs more, `TimersAreServed`, and says so in
front of its arrow (`NearFuture`).

**`KeKernel_proofs`.** The lemmas at its head (`PushLemma`, `PopLemma`, `UnlinkLemma`) say
what the operators of `KeQueue` do to the members of a queue, to its type and to its
distinctness; those that the timers need as well are stated in `KeTimer_proofs` again, for
the two modules have no other in common. `TypeCorrect` is inductive by itself. The other invariants are
not: that a handler which returns KE_MSG_SAVED does not save a message twice depends
on who may hold it at which point of the main loop. `IInv` adds

- `CurPc`, `HdlPc`: a message is in hand only inside the handler of `KE_MESSAGE`;
- `UpdPc`: a task is being updated exactly inside the loop of `ke_task_saved_update`;
- `StaleSaved`: only messages for that task are out of date, and they are in the saved
  queue;
- `LatePc`: once a message was taken before a higher event, that event is still set
  and the loop is past the point where it could take another.

One lemma per part (`IntegrityStep`, `ControlStep`, `WakeupStep`, `StaleStep`) goes
through the actions that disturb it; `QuietOrNamed` sums up the others.
`Integrity`, `NoWakeupIsLost`, `PriorityIsBounded`, `SavedIsUpToDate` and `EventsWaitForClock` follow from
`InductiveInvariant`. `NoSleepOnMessage` and `OrderIsKept` are action properties over
it. That `rwip_sleep` does not look at events while the core wakes up is harmless because
`RW_WAKE_UP_ONGOING` prevents the deep sleep itself. `KernelImplementsMailbox` is the refinement: `MailboxStep` shows that each step
moves at most one message from a place to another one that `KeMailbox` allows.

**`KeTimer_proofs`.** `TypeCorrect`, and `TargetFollowsFirst`. `HwFollowsFirst` speaks of
the main loop outside of `ke_timer.c`; `Armed` extends it to the three places
behind a call of `rwip_timer_1ms_set`, where the comparator is right already, but for
an interrupt that came since. `Busy` and `Working` say that the places that look at the
first timer, or at the one being set, find one.

`TimersAreServed` is the refinement: `ImplementsService`. Its invariant is `Punctual`: the
queue has no doubles, is ascending in `left`, and the field `time` of each member is `now`
plus `left` around the wrap of the clock (`OnTime`). `CLK_LOWER_EQ` compares two of these by
half the range, so the proof must know that no two members are further apart than that
(`ClockOrder`); from it follow that `co_list_insert_before` finds the right place
(`InsertOrder`) and that a timer which is taken off has come to its moment. The hypothesis
`NearFuture` says exactly this: a delay does not overflow `Word` (35 minutes in the code) and,
with the lateness that the model allows, is below half of the clock (11.6 hours in the code).
With longer delays the theorem is false, and so is the promise of the code (section 7).

**`KeMem_proofs`.** `TypeOK`, `Tiled`, `Linked` and `Coalesced` are inductive together and
only together: a block joined on one side needs the links of its neighbours, the
links need the order of addresses, the order needs the tiling, and the tiling with
blocks large enough for a node needs the joining to have been complete. There is one
lemma for each way a node is cut, taken, grown, joined or linked, over three general ones
about lists (`LinksAfterRemoval`, `LinksAfterInsertion`, `LinksAfterReplacement`).
`EmptyHeapIsSeen` follows, and is in no run: the test of `ke_mem_is_empty` is exact.

**`Nvds_proofs`.** For any tags, values, sizes of the area and of the sector, and any number of
power losses. Three properties of the same flash, which several calls program and a loss
leaves half written, so the invariant speaks of every point between two accesses:

- `Resting`: no access is left, and the flash is the `Goal`: the tags the client is sure of read
  as it expects, and before the first loss there is one copy of each and nothing behind the
  last (`One`, `Tidy`).
- `Purging`: the flash the call is going to leave, f, is fixed when it begins. It erases first
  (`Erasing`) and then writes f from the front (`Building`): the flash is `Part(f, e, l, k)`,
  k bytes of it and blank behind, and the accesses left are the `Rest`. The last tag, of l
  bytes at e, is written data first: `Spot` says which byte is the k-th.
- `Tame` and `Changes`: a call that does not purge programs the status of its own tag or bytes
  behind the last one (`Off`), and no other tag lies there (`Held`), so that they survive a loss
  at any of these points. What becomes of the tag itself is in `Replacing`, `Building` and
  `Changing`, with `Fair` for each flash on the way. After a loss nothing is known of it
  (`Spoiled`).

Under these lie the lemmas about the walk. `Walk` is a recursive function over addresses that
only grow; `Reach`, the least set closed under going on to the next tag, is what it gives
(`WalkLemma`), and it is the form the proofs work with: two flashes that agree up to a place on
the walk have the same tags before it, and whatever a torn header does to the walk behind it, the
tags in front of it are visited as before. `PurgeLemma` is the purge as a whole: the valid tags moved
together are found again with the same content. `NoMixture` also needs that the length is
programmed last: until it is, it reads as `Blank`, and the tag leads out of the area or has that
length. `NvdsAssumption` says that a header fits between the area and the end of the sector:
`nvds_walk_tag` reads a whole header even at the last address.

`CallsImplementStore` is the refinement. By the invariant, the flash at the end of a call says
what the client expects (`SeenLemma`), so that a call is one step of the store, at its
beginning. What remains is the capacity: the code compares addresses, the store adds up what the
other tags take. `TakenLemma` maps the bytes a purge keeps one to one to the bytes of the other
tags, which needs `One`: every tag once, and none that no client has put there.
`StoreAssumption` says that `Absent` and `Lost` are no values.

**`MsgPool_proofs`.** For any size of the ring that divides the range of the counters.
`Ring` says what the status means: the distance from `out_id` to `in_id` around the wrap
(`Ahead`) is 0 when it is empty, `MSG_COUNT` when it is full, and in between otherwise;
the slots of the counters alone do not tell the two apart. `SlotWraps` is where the
divisibility is needed: a counter that wraps goes on at the next slot. From these
`PoolImplementsQueue` follows: `InsertQueue` and `GetQueue` show that a put appends and a
get takes the head, also over the wrap. `Single` is for `PutOnceUntilWrap`: until the first wrap the counters are in order, so that
`msg_check` sees every message. What it did not find (`Absent`) is still not there when it is
put, unless an interrupt has put it meanwhile, and that happens once at most (`NoPair`), since
the interrupt looks as well; so the put of the main loop makes two, never three (`NoTriple`).
Nothing is assumed about which messages interrupts put (`IsrIds`).

**`Ota_proofs`.** For images of any length, a buffer of any size, any number of power
losses and of wrong copies. Since the power can go between any two flash accesses, the
invariant has to say what the rest of the running call still will do: `Calls` lists the
shapes that `todo` can have (`Cleanup`, `Header`, `Flushing`, `Sealing`, `Resting`) with
what holds at each of their points, and there is one lemma for each. `InfoFirst` is the
order of the accesses: the info is written before the area and erased after it; from it
follows `DirtyIsMarked`. `Owned` says that an image that is sealed is in the area and that
neither the buffer nor the client can change it (`Closed`), which needs that START is
refused while the first unit is there; from it follows `SealedIsWhole`. `Boots` is for
`RunsWholeImage`: what runs is whole, or a sealed image is still to be copied.

Nothing is assumed about the clients: they may start another image over the remains of one.
Then the info has the header of neither, no image with that header can be sealed (`Sure`),
and the walk of the erasing may begin anywhere. `Sweep` follows it down from its first sector
to its last, and says that what lies above is blank, but for the units in `spared`, which is
the exception of `DirtyIsMarked`.

`EnvironmentIsKept` is separate, for the environment has its own sector and its own
calls. It says that updates, erasings, resets and power losses *elsewhere* leave the
environment alone; what a power loss costs that cuts off a save is not its subject: what is
found then counts as saved. What the calls of an update still will do stays
off the environment (`Foreign`), and the blocks in use come before the blank ones
(`Contiguous`). `EnvCall` has the three stages of `app_flash_write_env_data`: the blocks in use
lose their tags one by one (`Outdating`), the sector is erased if none is left, and the next
block is written, its first line first (`Saving`); at the end the first block with a tag is the
new one. `OtaAssumption` says that a block which has lost its tag is not taken for a value
(`Used`), for the start goes by the tag.

**`OsTimer_proofs`.** For any number of timers, any delays, jumps of the counter and size of
the pool. The invariant speaks of a sequence that the program does not have: `Chain` says that
the links from `timers_head` run through `l` and end in NULL, `Listed` that `l` has exactly
the pending timers, but for the one that the running call adds or takes off, and `At` that
the call's pointer stands at position `k` of it. `CutChain`, `PointChain` and `JoinChain`
are the three ways in which an access changes the links. `Timely` is for `OnTime`: clients
wait for exactly the timers that are pending, none comes earlier than was asked for, and
none that is late is left when the interrupt returns.
`List`, which the properties look at, is a recursive function; `ListLemma` shows that on a
`Chain` it gives `l`, by giving a function that satisfies its equation and showing that no
other one does (`LeastNat`). The theorems have no hypothesis: the invariant is `torn \/ Intact`,
and the properties speak of what holds until an interrupt changes the list under the main loop;
the run `os_timer_race` shows what comes after.

**`BtManage_proofs`.** For any phones, profiles, limits and answers of the host.
`TypeCorrect` includes that no phone fails more often than it may be tried. That is not
inductive: the failure is counted long after the attempt was allowed. `Spare` adds that
an entity in CONNECTING has a failure to spare. `OnePhoneWaits` is inductive with the
types. Most of the steps are *tame*: they add no failure, let no entity start to
connect and none start to wait (`Tame`), so that one lemma (`TameStep`) serves them all,
and a lemma for each function of `BtEntity` says that it is tame. Two steps are not,
`Reconnect` and the failure in `connecting_procedure`.

The other four are about what the attempt has seen. `bt_connect_scheduler` has some thirty
states, and what one pass may leave behind is said once, for all of them: `Outcome` is the
conjunction of `Careful` (what it asks of the link), `Telling` (what it does with the result)
and `Renewing` (what it leaves in the event), `AttemptOutcome` proves it state by state, and
`EventLeads` and `PassOutcome` put `EventToState` in front.

`RequestsFindTheirLink` has the invariant `Live`: an answer that is to come, or has
come and was not looked at, is about a link that is up and that the attempt points to.
A request is made on the pass that reads such an answer, hence over a link that is up.
An encryption that is asked for again is not covered: the host has refused it, or it failed, and
the attempt still has the pointer of the first time. This is the exception in `LinkIsLive`.

`LinksHaveEntities` has `Kept(ent, Minded)`: each phone in `Minded`, those with a link whose
entity no other phone has taken since, has an entity in use and bound. The callbacks are
shown to keep such entities (`Safe`); when all of them are in use, `bt_app_entity_alloc`
takes one away, and its phone enters `evicted`.

`WaitersAreAnswered` has the invariant `Told`: an attempt that has come to its end knows
whether it has succeeded, one that is over has let go of its link, and only while none has
looked for a link may the result be an older one (`Unheard`). An attempt that only wanted HFP
ends with CONNECTING, which is the exception in `WaiterIsAnswered`.

`RetriesAreFresh` has the invariant `Fresh`. An answer takes the request away, and what a phone
does of itself is no failure of a profile that is asked for, since that one is not connected;
so no failure comes while a request waits, and the one there was is taken back when the
request is repeated, but for AVRCP. It holds with all profiles and whatever the host refuses.

`ManageAssumption` says that the paired phones are distinct: `app_env_store_autoconn_info` looks
with `app_env_key_stored` whether the phone has a place already (`app_env.c:1520`).

What only TLC checks: liveness (`SentIsHandled`, `OverdueIsServed`, `BootInstalls`,
`AttemptEnds`, `PhoneIsServed`), which the prover does not reach. The library's theorems for induction take an
operator as a parameter, which the provers do not instantiate; induction over a *set* of naturals
is within reach (`LeastNat`, from `WFMin`), and with it what a recursive function such as
`OsTimer!List` or `Nvds!Walk` gives.

## 7. What was found

**A new NVDS value can be damaged without an error** (`nvds_torn_tail`,
`nvds.c:890`). After a power loss between the data and the header of a tag there are
programmed bytes behind the end of the tags. The next `nvds_put` programs its value
over them, does not read it back, and returns `NVDS_OK`.

**A host timer can get lost** (`os_timer_race`, `timer.c:79`). `os_timer_reset` walks
the list with interrupts enabled. When the interrupt takes off the timer that it
stands on, the new one is linked behind a timer that is no longer on the list.

**What is saved during an update is lost** (`ota_env`, `driver_flash.c:734`). Between
INQUIRY and START, after an erase, and after END, the flash is protected and
`flash_write_data` does not lift the protection because an update is going on. The
link keys of new connections are gone after the reset.

These three are runs. The rest was met while modelling; no text of the repository
promises otherwise, or only in passing, and the properties name what they cannot
exclude.

**A target can be missed** (`ke_timer.c:289`). When a first timer is set
again, the comparator is programmed for the timer that follows, but the check looks at
the one that was set. If the new first timer falls due inside
`rwip_timer_1ms_set`, its interrupt is acknowledged and it stays silent until
`rwip_sleep` notices. It may be a long time until then: `rwip_sleep` is called only when the
system is about to sleep, and looks at the target only when no flag is set in `prevent_sleep`
(`rwip_driver.c:556`). `OverdueIsServed` says what holds in either case.

**The update erases too much and too little** (`driver_ota.c:149`). "erase addr from high to
low" begins at `addr1 + len` and goes down by whole sectors without aligning. When the length,
of 32-byte blocks with their crc, is no multiple of 4 KB, the last sector of the image stays,
the one below `addr1` goes, and the info that told of it is erased. The next image that is as
long is programmed over the remains and fails. `DirtyIsMarked` names these units. So it does
those of a second START for another image before a reset (`beken_ota.c:183`), where two headers
lie over each other.

**A request can be put twice** (`msg.c:108`). `msg_check` looks before interrupts are masked,
and `vusb_isr` (`Driver_vusb.c:114`) puts MSG_VUSB_DETECT_JITTER, which the main loop puts too
(`app_msg.c:166`). `PutOnceUntilWrap` allows it twice.

**Connections** (`app_bt_connect.c`, `app_bt_management.c`).

- *Stranded* (`app_bt_management.c:325`). When all profiles are connected the flag
  RECONNECTING goes. If the link is then lost, for another reason than a time-out and
  before the attempt has said so, the entity is still CONNECTING and is not freed,
  although "when acl disconnected,free entity by remote BT addr" (line 275). It keeps
  the handle of a link that is gone: the phone is neither connected nor scanned for.
- *Abandoned* (`app_bt_management.c:994`). The match button takes an entity out of its
  attempt and leaves CONN_PENDING set; the call of `bt_connection_cancel` is a comment.
  While the flag is set no phone is connected again.
- *ACL_FAIL* (`app_bt_connect.c:155`). The event is never cleared and leads away from
  CONN_END on every pass. Nothing in the sources reports it; the host library may.
- *A lost event* (`app_bt_connect.c:112`). When another event comes between ACL_CONNECTED
  and the next pass, the attempt waits in WAIT_ACL and, the link being up, asks to cancel
  the page on every pass after its time has run out.
- *AVRCP* (`app_bt_connect.c:787`). Its retry is the only one that keeps the event of the failure
  (`:644` resets it), so that three attempts are used up by one. `RetryIsFresh` names it.
- *A refused encryption* (`app_bt_connect.c:408`) is asked for again on the next pass with the
  pointer of the first time, though the link may be gone. `LinkIsLive` names it.
- *HFP alone* (`app_bt_connect.c:509`). Success is written to `result`, which CONN_END
  (`:795`) overwrites with `s_result`, still CONNECTING; the same end of A2DP and AVRCP sets
  `s_result` (`:571`, `:599`). The entity that waits is never told: "if finish connecting, the
  entity will from connecting state->standby state" (`app_bt_management.c:1024`) does not come
  about. `WaiterIsAnswered` names it. With AVRCP alone there is no state after SDP.
- *A freed entity* (`app_bt_management.c:288`). A missing link key frees the entity while
  its attempt goes on; another entity that asks then is refused and takes the result
  of the first.
- *More phones than entities* (`app_bt_management.c:22`). `bt_app_entity_alloc` gives the last
  entity away, whatever it holds, although "container has allocated all" (line 18) is what it
  should tell. The phone that had it keeps a link that no entity knows. `LinkHasEntity` names it.
- *A late timer* (`app_bt.c:1030`). `a2dp_time_out_to_scan` does not know whether the link is
  still there, and gives its event to an entity that may be at work by then.
- *A link that comes in* when the attempt starts: START then waits for no time, as the
  timer is set only when a page is made.
- Only `result` and the flags of an attempt are reset; the profiles that the last phone
  had and this attempt did not reach stay in `profile`.

**Elsewhere.** The delay of a ke timer overflows above 35 minutes (`ke_timer.c:257`). A
block freed twice corrupts a ke heap unnoticed (`ke_mem.c:420`). The counters of the pool
wrap after 2^32 messages: between the wraps of the two `msg_check` looks at nothing, and
`PutOnceUntilWrap` is stated up to there. `os_timer_stop` does not take back a message that
is in the pool (`timer.c:97`). The main loop looks at the pool without masking interrupts
and then halts, so that a message put in between waits for the next interrupt
(`Main.c:484`). The purge of nvds has the tags only in RAM (`nvds.c:643`), and `nvds_put`
reads the old value into a buffer of its own, whatever length the header has
(`nvds.c:838`). A START without INQUIRY never empties the buffer and waits until the
watchdog bites (`driver_ota.c:229`). The mark of an update is written behind its last data
and its result is not read back (`driver_ota.c:262`). The BLE profile of the update stays
busy after a notification that failed (`otas_task.c:174`). No property covers these; those
that a model here could reach are in the plan.

## 8. What is not modelled

- **Work modes, BLE profiles, the BLE application, h4tl, ring buffers**: control, and in
  the plan below.
- **The controller and the BR/EDR host**: libraries; the repository has their headers.
- **AES, P-256**: arithmetic on long words; a model would restate it.
- **Audio, players, codecs, effects**: data with little control, mostly third-party.
- **Drivers**: register accesses; the flash driver is modelled where nvds and the
  update use it.
- **jos**: registries used from the main loop only. Its heap is of the same kind as
  the one of ke.
- **USB and FAT**: vendored stacks.
- **Customer applications, build files**: tables and variants.

Inside the modelled connections: the mode for device tests, the flags of a power-down,
role switches, the times of the sniff mode, the requests of work modes (NO_SCAN, UNSNIFF),
the guards of an update in progress, HID and the two source profiles, and
endless attempts (`conn_max` -1). HFP is in the model, in the run `bt` and in the theorems,
though `host/config/config.h` does not compile it in. Calls over HFP, sounds and LEDs are left
out.

Inside the other modelled parts: versions and sequence numbers of the update; the variant
of an image that replaces the environment; sleep durations and their correction;
the half-slot and half-microsecond timers, which share the interrupt with the
1 ms timer but no data; tracing and statistics.

## 9. The plan

Done, in this order: the kernel (everything on the BLE side runs on it), its timers, its
heaps, the storage, the pool and the timers of the host, the update, the connections of
phones.

Next, components:

1. `Otas`: the OTA profile as a client of `KeKernel`, from the notification to the saved
   request; `PrfManager`: the table of profile tasks across connections.
2. The link key table of `app_env.c` under `BtManage`: which phones are `Paired`, in
   which order, and what a missing key removes.
3. `H4tl`: the receiver of HCI packets and its resynchronisation.
4. `WorkMode`: switching between sources, with requests through `MsgPool`.
5. `CoList`: singly linked cells under `KeQueue`, shown to implement it.
6. `RingBuffer`: one producer in an interrupt, one consumer in the main loop.
