# A TLA+ model of MGAcid's host

MGAcid runs the translated code of a PSP game on a reimplementation of the PSP
system software: a small operating-system kernel (priority threads, semaphores,
event flags, mutexes, timers, a vblank interrupt and an emulated clock), the
save-data utility and its dialogs, save states, the memory partition, and an ad
hoc network that goes through a matchmaking and relay server.  What fails in
such code fails late and far away: a lost wakeup is a hang minutes later, a
crash between two renames is a lost save, a message of a dead connection is a
player who sees an empty lobby.  This directory models these parts, checks them
with TLC on small instances, and proves some of their properties with TLAPS for
instances of any size.

Paths below are relative to `src/profiles/mga/host/` where no other root is
given.

## 1. Inventory

| Component | State it keeps | Operations | Interacts with |
|---|---|---|---|
| Scheduler, clock, interrupts (`kernel/kernel.cpp`) | `threads`, `ready_sequence`, `current_uid_`, `now_us_`, `next_vblank_us_`, `idle_vblanks_`, `interrupts_enabled_`, `dispatch_enabled_`, `pending_interrupts_`, `interrupt_active_`, `interrupted_idle_` | `finish`, `block`, `schedule`, `process_timers`, `on_starvation`, `interrupt_return_stub`, `begin_pending_interrupt` | every system call ends here; `Runtime` calls the starvation hook |
| Threads (`hle/hle_threadman.cpp`, `hle/hle_mga.cpp`) | `Thread` records: status, priorities, wait, wakeup count | create, start, exit, terminate, delete, priority, sleep, wake, delay, join, release | scheduler, waiter lists |
| Semaphores, event flags, mutexes (`hle/hle_threadman.cpp`, `kernel.cpp`) | count/limit, bit pattern, owner/lock count, and a deque of waiting uids each | create, delete, signal/set/clear/unlock, wait, poll, `release_*_waiters`, `cancel_waiters` | threads, timeouts, handlers |
| Callbacks, virtual timers, vblank handler (`hle_threadman.cpp`, `hle/hle_system.cpp`) | owner and notification; schedule; registration | create, delete, notify, start, arm; `deliver_callbacks`, `process_timers`, `on_return` | queue calls in `pending_interrupts_` |
| Host waits (`Kernel::wait_host`) | a `poll` function in the thread's wait | polled by `process_timers` | fixed pools, movies, dialogs, music |
| Kernel save state (`kernel/kernel_state.cpp`) | a copy of the above | `why_no_state`, `write_state`, `read_state` | save states |
| Save states (`state/save_state.cpp`) | a requested slot; a file of sections | request, `why_not_now`, save, load | memory, kernel, display, music, files, dialogs |
| Utility dialogs (`hle/utility_dialog.hpp`, `hle/hle_savedata.cpp`, `hle/hle_utility.cpp`, `ui/`) | a status the guest polls, the pending list request, what is on screen | init, update, shutdown, the player's answer, the grace of an undrawn list | save data, user interface, save states |
| Save data (`save_data/savedata_store.cpp`) | the files of a save | `write_save`, `load_save`, `delete_save` | utility dialogs |
| Save import and backup (`save_data/save_transfer.cpp`) | a staging folder, folders below `.backup`, a partial backup | import, back up, with and without replacing | save data on disk |
| Ad hoc server (`adhoc/server.cpp`) | players, groups and hosts; relay sessions, their partners and buffers | login, connect, disconnect, expiry; offer, accept, forward, close | clients over TCP |
| Ad hoc client (`adhoc/client.cpp`) | the group wanted and joined, peers, timers; stream sockets, links, retries | join, leave, reconnect; listen, open, accept, send, close | server, guest calls |
| Memory partition (`kernel.cpp`) | `free_ranges_`, `blocks_` | allocate at either end, aligned or at an address; free and merge | threads, pools, modules |
| Fixed pools (`hle_mga.cpp`) | used blocks | allocate, wait for a block, free | memory, host waits |
| Runtime dispatch (`src/src/runtime.cpp`) | execution-context generation, chained native frames | dispatch, starvation boundary, guest calls | scheduler |
| Recompiler, interpreter, decoder; renderer, audio, movies, installer, settings, fonts | data | pure functions and I/O | |

**What is hard.**  The kernel is one host thread, so its own code is never
interrupted.  What interleaves is the guest: threads, interrupt handlers and the
moments at which an interrupt or a boundary falls between two calls.  The
preemption rule is written out four times (`finish`, `schedule`,
`on_starvation`, `interrupt_return_stub`), each a little differently.  A wait can
end in five ways and not all of them touch the waiter list.  Release loops walk
a deque while they change it, and handlers may make calls that wait.  A dialog
is advanced by the guest's polls and answered by the player, and a save state is
taken or put back between any two of these.  A save is several files; each
operation on one may fail, and the program may end after any of them.  In the
ad hoc network each side learns of the other through ordered streams that break:
a console logs in again before its old connection is known to be dead, and the
answer to a request comes after the game has changed its mind.  `PROJECT.json`
lists each such place at its line with the property that watches it, or the
reason why none does.

**What makes each part correct.**
Scheduler: exactly the current thread runs; nothing more urgent is ready; a
pending interrupt is taken before a thread runs on; critical sections hold; the
deadlock report is true.
Threads: no wakeup is lost; a join ends; delays end.
Objects: nobody who waits is missing from the list; counts stay in range; grants
are first come, first served; one flag scan wakes all it can; a mutex is never
free with waiters and only its owner changes it.
Timers: one call of a timer is under way at most.
Save states: what may be saved can be loaded; nothing in the host's hands is
saved; a slot is never half a file.
Dialogs: each one ends, and input goes back to the game.
Save data: a load answers a whole save, or that it is broken, as far as there is a
hash to tell; an import or a backup loses nothing.
Ad hoc network: one login for a console; what a client believes of its group is
what the server knows; players who want one group meet; a stream has two ends,
delivers in order, and both ends learn of its end.
Memory: the free list is what no block covers.

## 2. Modules

| Module | Models |
|---|---|
| `UidLists` | uids in `std::map` order, a deque with entries removed |
| `Scheduler` | thread table, ready order, clock, interrupts, every exit of a kernel call, `cancel_waiters` |
| `Threads` | thread calls, sleeping, timed, join and host waits, masks |
| `Semaphores`, `EventFlags`, `Mutexes` | one kind of object each, with its release loop |
| `KernelEvents` | callbacks, virtual timers, the vblank handler |
| `Kernel` | composes all of these: `Next`, fairness, properties |
| `SaveSlot` | abstract: what loading a save answers, what was moved aside |
| `SaveData` | the files of a save, an import and a backup; implements `SaveSlot` |
| `SaveSession` | dialogs, the player, and save states taken and put back over them |
| `AdhocLinks` | the connections of the lobby, which deliver in order and break |
| `AdhocServer`, `AdhocClient` | the two sides of matchmaking |
| `Adhoc` | composes them: `Next`, fairness, properties |
| `RelayServer`, `RelayStreams` | the server's relay of streams; the clients' stream sockets, `Next`, fairness, properties |
| `Partition` | abstract: where a request for memory is granted |
| `Memory` | the list of free ranges; implements `Partition` |
| `MC...` | what TLC needs to instantiate these: model values, symmetry, the wait conditions tried on a flag |
| `...Proofs` | theorems and proofs |

`PROJECT.json` maps every definition to the lines it models.

### How state and actions correspond to the code

**Kernel.**

*Phases.*  Kernel code runs to its end without interruption, but it has loops and
branches worth seeing one by one.  `phase` says where in it the kernel is; only
in phase "guest" can the guest do anything.  A system call that does not block
is one action that changes the kernel's state and goes to "finish"; the three
`Finish*` actions are the outcomes of `Kernel::finish`.  A call that blocks is an action that
ends in "timers", which is the head of `schedule`'s loop: `ProcessTimers`, then one of the
`Pick*` actions, and `PickIdle` goes round the loop.  `Starvation(c)` is
`on_starvation`, with `c` the time charged; it shares `ProcessTimers` and goes on
in "boundary".  `release_semaphore_waiters`, `release_event_flag_waiters` and
`release_mutex_waiters` run one turn of their loop per step in "release",
`cancel_waiters` in "cancel"; `target` and `cursor` are their local variables.

*Threads.*  `status`, `prio`, `initPrio`, `wait`, `deadline` and `wakeups` are
fields of `Thread`, indexed by uid; a uid without a thread has status "Gone".
`ready` holds the ready threads in the order of `ready_sequence`, so `Best` is
`best_ready_thread`.  Registers, stacks and arguments are left out.  What a wait
returns to the thread is left out as well.

*Time* is relative: `vblankIn`, `deadline`, `left` and `at` are distances from
`now_us_`, so the state space is finite although the clock only grows.  A
deadline that has passed is 0; a timer's time keeps how late it is down to
`-MaxLate`, since its next time counts from the one it was due at.

*Handlers.*  A queued interrupt call is a record of kind, id and due time;
`handler` is the one that runs, with `NoCall` for `!interrupt_active_`.  While it
runs, `current` is still the interrupted thread, as in the code.  In the model
handlers signal, set and clear flags, wake sleepers, release waits, poll and,
where a run's `Uses` says so, make waiting calls, use mutexes and change the
masks.  They do not create, start, exit, terminate or delete threads, create or
delete objects, or arm timers and callbacks: `InThread` guards those calls.

*Objects.*  Uids of objects are model values.  An object lives once: "unused",
"live", "deleted", since `next_uid_` never gives a uid out again.  An event flag's
pattern is a set of bits.

*`Uses`* is the set of call families the guest program of a run makes.  It only
removes calls; the calls that remain are unrestricted.

*Left out everywhere*: logging, statistics, `calibrate_cpu_scale`, pacing against
real time, error codes.  A call that fails or only reads is `OtherCall`.

**Save data.**  `SaveData` is one folder of the memory stick.  A file holds the
version it was written as: two files agree, in the sense of the hash in
`PARAM.SFO`, exactly when one call of `write_save` wrote both.  `Unchecked` are the
versions whose `PARAM.SFO` has flags 0, so that `load_save` compares no hash
(`savedata_store.cpp:101`): imported unencrypted saves (`save_transfer.cpp:235`), and what
`write_save` writes for a game that passes no key.  Over such a `PARAM.SFO` any other data
loads, and `Content` answers `Mixed`.  Flags that are set with no hash listed for
the file have the same effect and are not told apart.  `slot`, `staging`,
`kept`, `backup` and `partial` are the folders the code uses on disk; `at`,
`version`, `file`, `queue`, `dir`, `moved` and `copied` are the local variables of the
operation under way and are lost when the program ends (`Crash`).  Every
create, write, copy, rename and removal is a step; each may fail instead, and
`Crash` may come after each.  `Removed` lets a `remove_all` that fails leave any
subset of the files.  `SmallFiles` are those that fit the buffer of a
stream: `write_file` looks at the stream before it is flushed
(`savedata_store.cpp:38`).

**Save session.**  One action per guest call (`...InitStart`, `Poll...`,
`...ShutdownStart`), per answer of the player, per display call (`Frame`,
`FrameSaves`, `FrameRefuses`, `FrameLoads`) and per step of a slot's write.  `game` is what
the game does with the dialog it asked for: it polls until QUIT, shuts the
dialog down and polls until NONE.  A state is its number, the `game` it restores,
whether something was in the host's hands, and the section that is damaged, if
one is.  A load restores the sections of `parts` one after another, as
`save_state.cpp:188` does, and leaves the host's side (`pending`, `list`, `dialogs`) alone
where the code does.  A function key pressed waits while a keyboard is open, which
also keeps the list from being run (`ui/menu.cpp:1544`, `1619`).  Of the interface only
the dialogs are modelled: a state asked for from the menu, and what the menu does
to the input when it is open over a running game, are not.

**Lobby.**  `up` and `down` are what each side of a connection has sent and the
other has not handled, in order, as TCP delivers it; the last item may be the
end of the connection or its loss.  The server runs on one thread and each of
its actions is one packet handled, one expiry or one failed write, with every
`send` and `leave_group` it makes: handlers are functions from one server state
to another (`Tell`, `LeaveGroup`, `JoinGroup`, `Erase`) and `Become` assigns the result.
Client actions are the game's calls and the turns of the network thread, each
under the client's mutex.  Timers are choices bounded by `MaxEvents`.

**Relay.**  As the lobby, for links of stream sockets: `sessions` is the server's
map of links with kind, partner, `in` and `out`; `Window` is what the network
takes in before the console reads, so that with `QueueLimit` backpressure
occurs.  A link marked dead leaves the map at once, since every search skips it;
what it leaves its partner is written in the same turn of the loop.  A link whose
input the server does not want is seen to have ended all the same (`HangUp`,
`server.cpp:679`), and what it had still to send is lost.  `group` is, per console, what the
client's thread asks before it starts a link (`joined`, `client.cpp:795` and `821`): a
socket may be opened in no group and in any state of a join, but gets a link only
while its console is joined.  `Join`, `JoinTimesOut`, `OnConnectBssid` and `LoseGroup` change it as
`join`, `leave`, the client's upkeep and the loss of the connection do, closing the
sockets' links where these call `close_relay_links` and leaving them alone where they do not.  That the
server confirms a join is a choice here; the lobby modules say when it does.
`close` may cut what the link had not sent at any point.  Ports are names:
`PtpOpen` asks for no free one, as the code does not where the game names the port.

**Memory.**  Addresses are granules of `kMemoryGranularity`.  Sums that the code
computes in 32 bits are taken `% Width`; `FitsHigh`, which the code computes in 64,
is not.

**Abstract specifications.**  `SaveData!SlotSpec` is `SaveSlot` with `loads` the
content of the slot, `kept` the whole saves moved aside and `saving` the version
under way: only the game's own save, interrupted, leaves something broken, or a
mixture if the save under it is unchecked (`Spoilt`), and an import moves whole saves.  `Memory!PartitionSpec` is `Partition`, which has no
free list: a request gets the lowest, highest or named place where it fits
between the blocks, and is refused only when there is none.

*`X_Mutant`* (in places `X_Silent`), before a definition `X`, is `X` as a plausible
mistake would have made it.  No specification uses it: put in the place of `X`
it makes one named property fail, which shows that the property depends on that
code.

### Bounds

*Kernel.*  `MaxThreads` threads are ever created.  `MaxWakeups` and `MaxWaiters` disable the
step that would pass them (a stored wakeup, one more list entry), as does
`MaxPending` for callback deliveries; a vblank call beyond `MaxPending` is
dropped, the one place where a bound changes an outcome and does not remove a
behaviour.  Virtual timer calls are not bounded.  `MaxCount`, `MaxSignal` and `MaxLocks` bound the numbers the
guest passes.  `IdleLimit` stands for `kIdleVBlankLimit` (18000) and
`VBlankPeriod` for 16683 microseconds.
*Save data.*  `MaxRun` saves in one import, `MaxKept` folders below `.backup`, `MaxFaults`
failures and crashes in all; each version is written once.
*Save session.*  `MaxRequests` save-data requests between two starts of the game, `MaxSaves`
states told apart.
*Ad hoc.*  `MaxConns` connections and `MaxEvents` calls, losses and timeouts in all;
`MaxHandles` sockets, `MaxPerPort` of them connecting from one port, `MaxLinks` links,
`MaxSent` blocks on a socket.
*Memory.*  The sizes, alignments and addresses asked for, and the blocks in use at
one time (`Ids`).
All are constants of any size in the proofs.

## 3. Runs

| Run | Instance | Checks | Distinct states |
|---|---|---|---|
| `objects` | 3 threads, a semaphore and a mutex, timeouts, restarts, terminations, deletions | `TypeOK`, `WaitersConsistent`, `SemaCountInRange`, `MutexHeldWhileWaited`, `SemaFirstComeFirstServed`, `OnlyOwnerChangesMutex` | 500 000 |
| `objects_released` | 2 threads and the vblank handler, a flag and a semaphore, released waits, waits from the handler | `WaitingIsListed`, `NoFlagMissed` | 582 000 |
| `scheduling` | 3 threads, 2 priorities, both masks, a handler that wakes threads | `OneRunning`, `UrgentRuns`, `InterruptsTaken`, `NoLostWakeup`, `NoPreemption` | 798 000 |
| `events` | 2 threads, a timer, a callback, the handler, interrupts suspended | `OneCallPerTimer` | 397 000 |
| `waiting` | 2 threads, delays, vblanks, joins, host waits, under `ChargedSpec` | `DeadlockIsReal`, `JoinedIsAlive`, `SavedStateLoads`, `ReadyRuns`, `DelayEnds` | 26 000 |
| `save_data` | two saves of the game, one import source, which has no hash, runs of 2 imports, 2 faults | `TypeOK`, `SlotSpec`, `NothingLost`, `ReplacedWhole` | 2 487 000 |
| `save_session` | 2 requests, 1 state, fair | `TypeOK`, `HeldIsPending`, `SavedIsQuiet`, `SlotIsWhole`, `DialogEnds` | 567 000 |
| `failed_load` | 1 request, 1 state | `FailedLoadChangesNothing` is violated | |
| `lobby` | 2 consoles, 2 groups, 6 connections, 3 events, fair | `OneLoginPerMac`, `JoinedIsMember`, `MembersKnown`, `HostAgreed`, `PlayersMeet` | 284 000 |
| `relay` | 3 sockets of 2 names on 2 consoles, 4 links, 2 blocks each, a queue limit the blocks reach, 1 event | `TypeOK`, `PairedBothWays`, `InOrder` | 897 000 |
| `relay_ends` | one connecting socket, 6 links, no blocks, fair | `OpeningEnds`, `EndIsSeen` | 67 000 |
| `memory` | 10 granules, 3 sizes, 3 alignments, 3 named addresses, 5 blocks | `FreeIsTheRest`, `PartitionSpec` | 13 000 |

Why the bounds are enough for what is asked.

* *Kernel.*  Three threads are needed where a list must have an order with
  somebody behind the first waiter, and where a third thread is switched to; two
  where the question is one waiter against one caller and a handler.  Three list
  entries hold two waits of one thread and a handler's.  A semaphore of two units
  lets a wait for two stand before a wait for one.  Two bits distinguish "any"
  from "all" and a match that clears its own bits from one that clears all.  A
  vblank period of two or three with a quantum of one puts boundaries before, at
  and after a vblank; a delay of three equals the period of `waiting`, so both
  fall due together, and is shorter than `IdleLimit` periods.
* *Save data.*  Two versions are the old and the new save; a run of two imports of
  one name is the case in which the place aside is taken already; a second fault
  hits what the code does after the first (an import puts back what it moved
  aside, and that rename fails too).
* *Save session.*  The second request meets the first in every stage; one state is
  saved, loaded, overwritten and refused.
* *Lobby.*  Two consoles are the one that acts and the one that is told; two groups
  make a change of group different from a leave; six connections are
  one more than two consoles that lose three can use.
* *Relay.*  An opener, a listener and an accepted socket are a stream; in `relay_ends`
  six links let each make a second attempt.  In `relay` two sockets may connect from one
  port and four links let one of the three be replaced, by the same socket or by the
  other of its port.  A queue of one block and a window of one put
  every reader behind its writer.
* *Memory.*  Five blocks in ten granules with sizes up to three reach every
  combination of neighbours free and used, and gaps that alignment leaves.

What the results say beyond that the properties hold:

* Where only signals, timeouts, terminations and deletions end waits
  (`objects`), list and wait records agree exactly.  With
  `sceKernelReleaseWaitThread` or waits made in handlers they do not: stale
  and double entries stay.  The weaker `WaitingIsListed` still holds, and so does
  `NoFlagMissed`: the loops skip what is stale.  In these runs a thread waits on
  one object only (see 5 below).
* A semaphore's count may pass `max_count` inside a signal, since the test counts
  waiters and not what they want, never after it.
* `OneRunning`, `UrgentRuns` and `InterruptsTaken` hold through all four exits,
  and `NoPreemption` holds for programs whose handlers leave the masks alone.
* The deadlock report is right as long as all delays are shorter than
  `kIdleVBlankLimit` vblanks.
* A save that is interrupted is answered as broken where the `PARAM.SFO` under it
  lists a hash, and as a mixture where it does not (13 below); no import or other
  failure makes either.  An import that fails at every step it can leaves the old
  save in its place or whole below `.backup`.
* What a client believes of its group agrees with the server once nothing is
  under way between them, although any confirmation counts for the group wanted
  last: the confirmations of one connection come in the order of the requests.

### Fairness

* `waiting`: `KernelRuns` is weak fairness of the kernel's own steps and of handler
  returns: kernel code is sequential C++ without unbounded loops, and the
  handlers of a program are assumed to return.  `WorkIsCharged` is strong
  fairness of a boundary that charges time: `account_dispatch_work`
  (`src/src/runtime.cpp`) counts dispatches whatever calls are made between them,
  so boundaries come again and again to whoever runs, but the thread may be in a
  call each time one looks, hence strong.  That the charge is not zero is an
  assumption about the program, true of one that computes for a microsecond or
  longer after its last call.  A program that polls the kernel without pause may be
  charged nothing, its clock stands still and no delay ends; `DelayEnds` says
  nothing of it, nor of programs with virtual timers (4 below).  No
  fairness is assumed of the guest: it may loop for good.
* `save_session`: the game polls a dialog it asked for and shuts it down when told
  QUIT, which the PSP requires of it (weak); a write ends and the grace of an
  undrawn list, which is real time, passes (weak); the player answers what is
  shown again and again, while the interface has the input (strong, since a frame
  may hide and show it).
* `lobby`: the server's loop handles what it has read, a client's thread what it
  has received, and a client that is not logged in connects again: loops with
  `poll` timeouts and a bounded delay.  One weak fairness for all
  connections of a side is enough, since its actions consume a finite supply.
* `relay_ends`: the same for the relay, and games go on reading.  A link is started by a
  console that is joined and by no other, so the fairness of `StartLink` obliges nothing
  outside a group; no join is assumed to be answered.  `OpeningEnds` speaks of sockets
  whose console is joined in the end (14 below).

The bounds on events are what makes "in the end" meaningful there: a network
that breaks every connection promises nothing.

### Findings

`failed_load`: `load` puts guest memory and registers in place (`save_state.cpp:188`)
before the kernel, display, music and file sections have been read, and each of
those commits by itself.  "A failed load leaves the running game untouched"
(`save_state.hpp:82`) and "Nothing was changed, so the caller carries on here
too" (`save_state.cpp:257`) are not so: after a file damaged past its first section is
refused, the game runs on with the memory of the state and the threads of
before.

### Known disagreements

Places where the code does not do what a comment of it, or its own next step,
supposes.  Their properties are in the modules, most of them in no run; the
runs above avoid the case by their instance.  The first three need an unusual
program.

1. `NoPreemption` fails when a handler suspends interrupts and returns:
   `interrupt_return_stub` (`kernel.cpp:1074`) tests `dispatch_enabled_` and not
   `interrupts_enabled_`, so a thread is preempted with interrupts suspended,
   which `finish` (`kernel.cpp:390`) calls the game's critical section.
2. `OneCallPerTimer` fails when the program sets a timer's handler again while its
   call is queued (`hle_threadman.cpp:489`): two calls of one timer are queued,
   against "it cannot fire again meanwhile" (`kernel.cpp:649`).
3. `SavedStateLoads` fails when a thread is terminated in a host wait:
   `terminate_thread` (`kernel.cpp:313`) keeps the wait record, and a host wait of a
   dormant thread is written to a state that `read_state` refuses
   (`kernel_state.cpp:381`).
4. `IdleAdvances`: `next_event_us` (`kernel.cpp:597`) adds the time of a disarmed
   timer, `UINT64_MAX`, to `now_us_`.  The sum wraps round to `base_us - 1`, in the
   past (for a timer started after time 0), and `advance_clock` does nothing.  With
   interrupts suspended, so that the timer's call stays queued, and all threads
   waiting, `schedule` goes round its loop at one moment for good: the clock
   does not move to "the next event" (`kernel.cpp:540`).
5. `ReleaseWakesItsOwn`: `sceKernelReleaseWaitThread` (`hle_mga.cpp:200`) leaves the
   thread in the list of what it waited on.  If it then waits for something else, a
   release loop takes it for a waiter of its own (`kernel.hpp:294`): an unlock ends
   the thread's sleep and makes it the owner of the mutex with a lock count of 0.
6. `ReplacedIsDone` (`SaveSession`, with two requests): a request that is no list leaves an
   older list request in `pending` (`hle_savedata.cpp:603`), although "a new
   request while one is still active replaces it" (line 587): its work is done at
   the next poll, under the new dialog.
7. A state saved while the game waits for NONE and loaded over another dialog:
   the host's dialog is that of the session it replaces, and the game polls it.  `DialogEnds`
   therefore promises QUIT and not NONE.
8. `ReportedSaved` (`SaveData`): `write_file` tests the stream before it is closed
   (`savedata_store.cpp:38`), so a file that fits the buffer is renamed into place
   whatever closing it did, and `write_save` reports success.  A load answers
   that such a save is broken.
9. `GoneIsTold` (`Adhoc`): "Leaving, or losing the connection, tells the others"
   (`server.hpp`).  A failing write marks the connection dead (`server.cpp:148`) and
   `remove_closed` erases the player without `leave_group`: the others keep seeing
   it, and its group keeps its host.
10. `ClosedAfterDelivery` (`RelayStreams`): when one end of a stream closes, the
   other "is closed after what it was sent has been delivered" (`server.hpp:25`).
   The survivor's `partner` is reset to 0, and `expire` (`server.cpp:570`) takes a
   closing connecting link for one nobody accepted: what it had not been
   written yet is lost.
11. `accept_stream` (`server.cpp:436`) may pair a connecting link that is closing
   already, for the same reason.
12. `FreeIsTheRest` for a size near 2^32 (`kernel.cpp:906`): `start + aligned_size`
   wraps in 32 bits and the request is granted.  The run asks for sizes that do
   not wrap.

13. `InterruptedIsBroken` (`SaveData`): "a save interrupted in between is reported as
   broken rather than loaded with mismatched contents" (`savedata_store.cpp:203`).  The player
   imports an unencrypted save, the game saves over it and the program ends after
   the data file: `load_save` finds flags 0 in the old `PARAM.SFO`, compares no hash
   (`savedata_store.cpp:101`) and answers the new data with the old parameters.
14. `ConnectsAtOnce` (`RelayStreams`): `ptp_open` "starts connecting at once and keeps
   retrying" (`client.hpp:180`).  A socket opened in no group, or while a join gets no
   answer, does neither: no link is started without `joined` (`client.cpp:821`), and a
   join that times out (`client.cpp:644`) fails no socket.  It stays `Opening`, with its
   retries uncounted, until the game joins again, leaves or closes it.

Also stated and in no run: `VBlankEnds` (`Kernel`), which `DelayEnds` covers as far as it
goes, and the type invariant of `Adhoc`, which section 4 proves.

## 4. Theorems

Each theorem is about the `Spec` of its module for all values of the constants
that satisfy the named assumptions, which TLC evaluates in the runs.

### Kernel

Assumed: `SchedulerAssumption`, `SemaphoreAssumption`, `EventFlagAssumption`,
`MutexAssumption`, `KernelEventsAssumption`, `KernelAssumption`: the bounds
are naturals, uids of threads, timers and callbacks are numbers, object uids are
none of them, the three kinds of object are disjoint, and `Never` is no number.

The proofs are in three modules, each extending the one before: `KernelProofs`
(lists of uids, types, timers), `ThreadProofs` (who runs and what threads wait
for) and `ObjectProofs` (lists of waiters, semaphores, flags, mutexes).

**Lists of uids** (head of `KernelProofs`).  `InUidOrder` and `Without` are defined through the k-th
least member of a finite set and not with the recursive `SelectSeq`, which the
provers cannot unfold.  `KthLeastProperties`: that member exists (by counting: the map
from a member to the number of members up to it is injective, so onto).
`InUidOrderType`, `WithoutProperties`, `WithoutComplete`: what the lists contain.

**`KernelTypeCorrect`** (`KernelProofs`): `Spec => []TypeOK`.  `TypeOK` alone is not
inductive: `BoundaryPreempt` appends `current` to the ready order, which is
no uid when nobody runs.  The invariant is `TypeInv`, `TypeOK` and
`BoundaryHasThread`.  One lemma per helper
(`MakeReadyType`, `BlockType`, ...) gives the type of what it assigns, one lemma per module
takes its next-state relation apart action by action, and `StepTyped` puts them together.

**`KernelOneCallPerTimer`** (`KernelProofs`): `RearmsLate => (Spec => []OneCallPerTimer)`.
`RearmsLate` says that the program does not set a timer's handler while its call
is queued; without it the property is false (known disagreement 2).  The invariant
adds `CalledDisarmed`, the code's "disarm until the handler returns", for a call
that is queued as well as for one that runs.

**`KernelOneRunning`** (`ThreadProofs`): `Spec => []OneRunning`.  The invariant is
`RunInv`, which adds to `TypeInv` and `OneRunning`
* `ReadyListed`, every thread in the ready order is ready: otherwise a switch to
  `Best` could pick the running thread, or one that waits;
* `NoneBeyondMade`, uids not yet given out have no thread: otherwise
  `CreateThread` could overwrite the running one;
* `HandlerPlace`: when `schedule` picks a thread none runs, no handler runs while
  timers are processed, and a handler that interrupted an idle kernel has no
  thread under it: otherwise `ReturnToSchedule` would clear `current_uid_` of a
  running thread.

**`KernelInterruptsTaken`** (`ThreadProofs`): `Spec => []InterruptsTaken`.  `finish`
looks for a pending interrupt only if a thread runs, so the invariant adds
`SomeoneRuns`: outside `schedule` there is a handler or a thread.  What a wait
queued before it blocked (`deliver_callbacks`) is then left to `schedule`.

**`KernelUrgentRuns`** (`ThreadProofs`): `Spec => []UrgentRuns`, in every program.  The
invariant adds `AllListed`, the converse of `ReadyListed`: a ready thread that the
ready order does not name is never seen by `best_ready_thread`.

**`KernelNoPreemption`** (`ThreadProofs`): for programs whose handlers do not change the
masks; it is false of others (known disagreement 1).  The proof shows why
`interrupt_return_stub` may look at `dispatch_enabled_` alone then: a handler was
begun with interrupts enabled, and nobody suspends them under it (`HandlerUnmasked`).

**`KernelNoLostWakeup`** (`ThreadProofs`): `Spec => []NoLostWakeup`, inductive with
`TypeInv`: every other step ends waits, or begins one that is no sleep.

**`KernelJoinedIsAlive`**, **`KernelSavedStateLoads`** (`ThreadProofs`): for programs that
terminate no other thread.  `terminate_thread` wakes nobody who waits for the end
of the thread it ends, and keeps the wait record of that thread (known
disagreement 3); `exit_current_thread` does neither.  The second rests on
`HostWaitsEnd`: a host wait's record does not outlive the wait.

**`KernelDeadlockIsReal`** (`ThreadProofs`): `ShortWaits => (Spec => []DeadlockIsReal)`, where
`ShortWaits` says that no delay and no timeout is longer than `IdleLimit` vblank
periods, the five minutes of `kIdleVBlankLimit`.  Without it the property is
false: the kernel gives up on a game that sleeps for longer.  `NearInv` bounds, for
every wait with a deadline, what is left of it plus the idle time counted before
it (`Left`); both change together as the clock moves, and a thread that runs
sets the count back, so a deadline never lies beyond the limit.

**Lists of waiters** (`ObjectProofs`).  Every step changes the lists, and the waits on
objects, in one of five ways (`ListKinds`): it leaves both alone; ends waits and
drops their entries; ends one and leaves the entry (`sceKernelReleaseWaitThread`);
drops the entry a loop is at; or lets the running thread join a list.  Each
module's next-state relation is taken apart into these once, and the theorems
follow from the five.
* **`KernelWaitingIsListed`**: `Spec => []WaitingIsListed`, in every program.
* **`KernelNoFlagMissed`**: `Spec => []NoFlagMissed`, in every program.  `AllScanned` says
  that a waiter whose condition holds is still ahead of the scan's cursor; that
  suffices because a match only clears bits (`MatchesLess`).
* **`KernelOnlyOwnerChangesMutex`** and **`KernelSemaFirstComeFirstServed`** are
  action properties, in every program.
* **`KernelWaitersConsistent`**: for programs that are `Tidy`, which release no thread
  from its wait and make no waiting call from a handler.  It is false of others: the
  release leaves the entry in the list, and a waiting call of a handler joins the
  list and then fails to block.
* **`KernelSemaCountInRange`**, for `Tidy` programs: the invariant adds `SemaWaits`, that
  what a waiter wants fits `max_count`; a count above it with a waiter in the list
  can then only be met while the release loop runs.
* **`KernelMutexHeldWhileWaited`**, for `Tidy` programs, with `MutexWaits` and `HeldByOwner`.
  What it needs of `Tidy` is that an unlock hands the mutex to somebody who asked for
  it (known disagreement 5).

### Save session (`SaveSessionProofs`)

Assumed: `SessionAssumption`, the bounds are naturals.

**`SessionTypeCorrect`**: `Spec => []TypeOK`, inductive as it stands.
**`SessionLetsGo`**: `[]HeldIsPending`.  The invariant adds `KeyboardAwaited`, that a keyboard open or
answered belongs to a dialog that is not over: the keyboard's dialog cannot be
shut down before its answer was handed over.
**`SessionSavesQuiet`**: `[]SavedIsQuiet`.  The invariant adds `Polled`, which relates what
the game does to the status of its dialog (`why_not_now` looks at dialogs, the
property at the game), and `ShotIsQuiet`, the same of the state on its way to the
slot, since a state is taken by one action and put in place by another.
**`SessionSlotWhole`**: `[]SlotIsWhole`.  The invariant adds `WholeIsClosed`: a file
about to be renamed is whole.

### Save data (`SaveDataProofs`)

Assumed: `ConstantsAssumption`, which keeps versions, markers and results apart.

All four theorems use the inductive invariant `IInv`:
* `Steady`: `TypeOK`; while an import is under way the queue has its save
  (`QueueThere`); what was moved aside is in the folder the import puts back from
  (`MovedToDir`);
* `StagedWhole`: what is staged for `Place` is the whole save imported.  Without
  it the slot could be given a mixture;
* `SavingVersion`, `NotSeenYet`: until `write_save` writes `PARAM.SFO` the one in the
  slot is of another version, and a version not yet begun is in no `PARAM.SFO`.
  Without them a save that is half written could load as whole.  What it loads as
  instead is said in `Overwritten`: a mixture if the one under it is unchecked, else
  broken;
* `CopiedFiles`: what was copied for a backup equals the slot, and a swap starts
  only when the old backup is gone.

`IInv` is proved by one lemma per operation.  From it
**`SaveDataTypeCorrect`** is immediate,
**`BackupReplacedWhole`** (`ReplacedWhole`: whenever the backup loses a file the
complete copy is beside it) and **`ImportLosesNothing`** (`NothingLost`)
are action properties, and **`FilesImplementSlot`** is the refinement `Spec => SlotSpec`: initial
states map to initial states, and each action maps to the step of `SaveSlot`
its lemma names, or to a stutter.

### Ad hoc lobby (`AdhocProofs`)

Assumed: `LinksAssumption` (the bounds are naturals, "no MAC" and "no group" are none).

**`AdhocOneLogin`**: `Spec => []OneLoginPerMac`.  Handlers are functions from one server
state to another, so the proof first says of each part (`Tell`, `LeaveGroup`, `Erase`, `JoinGroup`) what it
does to the players: it keeps who is logged in where, or removes one.  Only
`HandleLogin` enters a MAC, and there the invariant itself is needed: the
handler drops one older connection, which is enough because there was one at
most.

**`AdhocTypeCorrect`** (the type invariant), **`AdhocJoinedIsMember`**,
**`AdhocMembersKnown`** and **`AdhocHostAgreed`** all follow from one invariant, `LobbyInv`.  The three
properties speak of a game with nothing under way; none of them is inductive,
and `LobbyInv` says what is true while packets are on their way.  `Lasts(x, X, q, S, C)` reads: once the
queue `q` is handled, `x` will be in `X`, because the last packet of `q` that is in `C` (what could
undo it) is one of `S` (what makes it so), or there is none and it is so already.
* `Heard`: as long as the connection is not broken, what the server was asked for
  *last* is the group the game wants.  Once there is no request left in `up`, the
  game has been `Told`: of each other member the last packet in `down` that concerns it
  (`Enters`, `Removes`) enters it, or it is among the peers; likewise the host.
* `Owns`: a connection is logged in as its console or not yet, and carries no other
  login.  With `OneEach` (above) no other member of a group has the console's own MAC, which
  the client would drop from the list.
* `LoginsFirst`: a login is sent once and first, so only a player with a MAC is ever
  in a group, and a later login never takes away what a request already set.
* a group with members has a host; a console has its own connection and no
  other's; a game that is joined wants a group.

The delicate steps are those of *other* consoles: `SparesOthers` says of each handler that
whoever stays in a group is told of every change to it in the order in which it
happens.  A connection that was reset and not yet read is `Broken`, so nothing is
claimed of it: the server still counts it as a member, and the others still see it.

### Relay (`RelayProofs`)

Assumed: `RelayAssumption` and `StreamsAssumption`: the bounds are naturals and there is room
for one pending connection.  Names may connect and listen both, and any number of
sockets share one.

**`RelayPaired`**: `Spec => []PairedBothWays`, for any number of links and names.  The
handlers are functions from one server state to another, so the lemmas say of
each (`Erase`, `Written`, `Paired`, ...) which links it leaves and whether they
are still paired.  The invariant, `PairInv`, says
* `Partners`: a partner exists, has the link as its own partner, and the two are
  the connecting and the accepting end of the same pair of names;
* `Queues`: an init is the first thing a console sends on a link, and it is
  unread only while the link is `pending`.  A link gets a partner when its init or
  the other's is read; if a second init could be read, a link that has a
  partner could be given another;
* links not yet made are not in the server's table.

The server's choice among the links that fit (`Least`) exists because the
naturals are well-founded.

**`RelayInOrder`**: `[]InOrder`, for any number of sockets, links and blocks.  Order is
not a fact about one queue: a block passes from the partner's queue to the server
(`up`), the partner's `in`, the reader's `out` and the reader's queue (`down`), and any
of them may be cut short by an end.  The invariant, `OrderInv`, adds to `PairInv` facts about
all that is still to come for a socket, these four queues one after the other
(`Coming`), put after what it has read (`Flow`):
* `ReadsRuns`: a flow is a run, two blocks next to each other being of one sender and
  numbered one after the other.  While the notice that opens the stream is unread,
  the flow does not start with a block, so what comes before it is not lost;
* `SendsRuns`: so is what a link has sent and the server has not passed on, also
  before the link has a partner;
* `SendsLast`: the last block of a flow is the last one sent.  With it the next block
  continues the run; without it the invariant is not inductive;
* `Typed`, `Asked`, `Fitting`: what each queue may hold, and that two sockets never have the
  same link.  Only a listening socket's link is sent notices of others.

A handler of the server moves items along a flow, cuts it and puts an end after
it, or leaves it alone.  `Handled` says so of each handler by itself, `Carried` of a handler
together with the item it read, and `CarriedFlows` that the invariant survives
that.  Steps that touch the sockets are done on their own: a link that breaks,
an end or block that is read, one that is sent, a link that starts.
**`RelayTypeCorrect`**: `[]TypeOK`, from the same invariant.

### Memory (`MemoryProofs`)

Assumed: `MemoryAssumption`.  Both theorems have the hypothesis `NoWrap`: no request is
so large that its end wraps round 2^32.  Without it both are false (known
disagreement 12).

**`MemoryFreeIsTheRest`**: `[]FreeIsTheRest`.  The invariant, `MemoryInv`, adds to it that the
blocks do not overlap, and that a granule of the partition is in a block exactly
if it is in no free range.  Carving and merging are each shown to be a splice
(`IsSplice`): entries next to each other in the list make way for at most two, or one.
What a splice does to the order of the list and to the granules it
holds is then said once.
**`MemoryImplementsPartition`**: the refinement `Spec => PartitionSpec`.  `Partition` asks
whether a stretch is clear of blocks, the code whether one free range holds it;
`HeldInOne` makes these the same: ranges that do not touch hold a stretch together
only if one of them does, which is why `free_block` has to merge.

### Only model-checked

* All liveness, which is outside what these provers do (as is `ENABLED`): `ReadyRuns`, `DelayEnds`, `DialogEnds`, `PlayersMeet`, `OpeningEnds`, `EndIsSeen`.

## 5. Not modelled

* *Kernel*: the `poll` of a host wait is a choice of `ProcessTimers`: any subset of
  the host waits may have a result; `wait_host`'s first poll that succeeds is
  `OtherCall`.  `call_guest` and the native frames that a thread switch leaves
  behind, pacing against real time, more than one vblank handler, negative signals
  and 32-bit wraparound of counts, threads created or deleted by handlers.
* *Save data*: encryption and the SFO format, of which only "these two files belong
  together" matters; an export, which writes a fresh folder.
* *Save states*: the content of sections, more than one slot.
* *Ad hoc*: chat and scans, which change nothing on the server; datagrams, which
  keep no state but the link; the limits on connections and on unread
  matchmaking packets; discovery; the guest calls that poll the client.
* *Fixed pools*: a table over a block of `Memory` and a host wait of `Threads`.
* *Everything else in `PROJECT.json` marked `not_modelled`*: the recompiler,
  interpreter and decoder, renderer, user interface, audio, movies, installer,
  settings and fonts.  They make up by far the largest part of the source and
  are pure functions of their input, tables, or I/O on one thread: a model of them would be a
  copy.  The modules therefore cover a small share of the repository's lines,
  and most of those of the parts whose order of events matters.

## 6. What is left

1. An abstract semaphore (a count and a queue, each call one step) that
   `Semaphores` in `Kernel` implements while no wait is released from outside.
2. The relay's datagram sockets, and start and stop of the ad hoc client.
3. `call_guest` and the execution-context generation of the runtime, as far as
   it can be said without the generated code.
