# A2PM in TLA+

A2PM predicts when virtual machines are about to fail and rejuvenates them in
time.  A **controller** receives measurements from the machines' agents,
predicts their remaining time to crash, tells a machine to reboot and a
stand-by one to take over, and tells the **load balancer** which machines
exist.  The load balancer spreads web clients over the machines.  Several
controllers elect a **leader** among themselves.  Offline, measurements are
**aggregated** and handed to learners that produce the prediction models.

This directory holds TLA+ models of the parts that have state and control,
TLC configurations that check them on small instances, and TLAPS proofs of
their safety properties and refinements for all instances.
`PROJECT.json` lists components, runs, mutants, the map from definitions to
source lines, findings, hazards and theorems.

## 1. Inventory

| Part | Source | State | Operations | Hard because |
|---|---|---|---|---|
| Registry of machines | `controller/server.c` | `vm_data_set`, `current_vms`, `allocated_vms`, `mutex`; a copy of its slot in each thread; descriptors | handshake, insertion, service loop, rejuvenation, removal | mutex locked by main and unlocked by the new thread; removal by address; descriptors closed and reused; reconnections |
| Notifications | `controller/server.c` | mailbox `virt_machine`, flag `state_man_vm`, `manage_vm_mutex` | publish ADD, DELETE, REJ; send | one place, written by every thread, released by a thread that never locked it |
| Rejuvenation rate | `controller/server.c` | `rej_rate`, `index_rej_rate`, features | receive a data point, predict, average | test outside the mutex; array written without a bound and reallocated without the mutex |
| Prediction models | `controller/ml_model.c` | none | linear regression | floating point only |
| Leader election | `controller/leader.c`, `timer.h` | `leader_socket`, `agreement_running`, proposals, timers | suspect, open a round, collect, decide | two threads without a lock; lost and repeated datagrams; timeouts |
| Broadcast | `controller/broadcast.c` | one pending message, its flag, table of callbacks | broadcast, send on a select timeout, receive | single slot; flag cleared after the sends |
| Dispatch | `controller/balancer.c` | table of machines with their clients, `actual_index`, `mutex`, `vm_client` | follow the controller, accept a client, choose its machine | table changed without the lock its readers hold; argument on main's stack |
| Forwarding | `controller/balancer.c`, `sockhelp.c` | two buffers per worker, a shared growth counter | select, write, read, append | short writes; `realloc` moves the buffer; ends of streams |
| Thread creation | `controller/thread.c` | `thread_counter`, the helper's block | create, take an id, run, free | compare-and-swap loop; one block for n threads |
| Atomic operations | `controller/atomic.c` | a lock word | compare-and-swap, spin, try, unlock | two ways to take one word, which both write to it when they fail |
| Agent of a machine | `controller/client.c` | connection, service, state | connect, negotiate the service, send measurements, obey | a byte stream read as if it kept messages apart; structs of different sizes; end of stream taken for a command; no timeouts; `SIGPIPE` |
| Aggregation | `model_build/aggregate.c`, `list.c` | lists of data points, the current window | parse, average over windows | several accumulators reset in several places; empty windows |
| Training pipeline | `model_build/FRAMEWORK.sh`, `*.py`, `lasso/` | files | aggregate, regularise, learn, report | order of steps; numerics |
| Anomaly injectors | `utilities/` | none worth a property | leak memory, start threads | |

Interactions.  An agent and its `communication_thread` talk over TCP, one
answer to each message.  `main` and the `communication_thread`s share the table
under `mutex` and the mailbox under `manage_vm_mutex`; the `balancer_thread`
polls the mailbox and sends it to the load balancer's `controller_thread`,
which changes the table that the load balancer's workers read.  Controllers
talk over UDP.  The database that `aggregate` reads comes from a collector that
is not in this repository.

What makes the parts correct: the registry holds exactly the machines that are
served and is compact; a thread talks to its own machine; every arrival and
departure reaches the load balancer, in order; every sample is averaged once;
a client stays with its machine while that exists; bytes are forwarded once, in
order, to the right side; agent and controller take turns, agree on the service
and notice each other's end, and a machine reboots when told and only then; a
round of the election ends and chooses the greatest
proposal made in it; ids of threads are unique; aggregation computes what the
definition of the windows says.

## 2. Modules

Each component `X.tla` has an `MCX.tla` that TLC runs; `Feed` and `Lock` are
abstract specifications that others implement, and `Atomic` runs on top of
`Threads` in `MCThreads`.  All modules name what they model
as the source does.  A *step* is what one thread does between two points at
which another thread can see or disturb it.  A critical section is one step
together with the acquisition of its mutex; where a mutex is held across
several observable operations (main holds `mutex` from the insertion into the
table until the new thread's start) it is a variable holding its owner.

Failures are switched on by the constant `Faults`, so that each run says which
of them it considers.

* **Controller** is `server.c` without the measurements.  `main` goes through
  `accept`, `info`, `reply`, `again`, `insert`, `publish`, `create`; a
  connection's thread through `start`, `recv` (or `spin`, the busy loop of a
  machine in stand-by), `continue`, or the rejuvenation `switch`, `rejuvenate`,
  and its end; the balancer thread through `poll`, `clear`, `unlock`.
  Connections are numbered, and the number doubles as the port; `fd` maps
  descriptors to connections, and `accept()` returns the lowest free one.
  A prediction is a nondeterministic choice.  `lb` and `told` record what was
  sent to the load balancer and to the machines, and `feed` the last operation
  sent for each group and address.
* **Feed** is what the load balancer can rely on: for each group and address
  ADD first, DELETE last, REJ in between.  It joins the two programs: Controller
  implements it (`KeepsFeed`, a refinement with the identity on `feed`), and
  Balancer receives nothing else (`ControllerFeed!Notify` is a conjunct of its
  `Recv`), so that the two need not be run in one state space.
* **Session** is one agent (`client.c`) composed with the controller's side of
  its connection: the handshake of `accept_new_client` and the loop of
  `communication_thread`.  The connection is two queues of *units*: the two
  fields of the agent's `struct vm_service`, of which the controller's `recv`
  would take a third, or the head and the rest of a message of 4096 bytes.  A
  `recv` may return a part of a message, or the end of one and the start of the
  next; `send` may be cut off by its timeout; data sent to a closed connection
  is answered by a reset, after which a further `send` raises `SIGPIPE`.  The
  ghost `aligned` holds while every call moved one whole message.  Pieces are
  cut between units only.
* **Mttf** is the path of a measurement: parsing, the features kept per thread,
  `rej_rate`, and the averaging thread.  A measurement is its number and `Garbage`
  is memory that nobody wrote.  `rej_rate` has a size in bytes, and a sample may be
  written beyond it; when a group grows, main's `realloc()` takes effect in place
  or copies the block first (`Grow`) and assigns the pointer later (`Moved`), in
  between which the threads go on using the old block.  What is read in a cell
  outside the memory, or in a block that moves, is any of what it may hold; after
  a store outside, the allocator may end the program (`Abort`).  The ghost
  `astray` collects the samples to which one of this has happened.
* **Balancer** is the load balancer's table: what the controller's
  notifications do to it, step by step where a worker could look, and how a
  client is given to a worker and a machine.  The `controller_thread` takes no
  lock, so a worker's steps interleave with all of its; the ghost `raced`
  records that one of them looked in the middle of a change, and `astray` that
  `actual_index` has left the used slots.
* **Forwarder** is one worker afterwards, with its two directions.  `clipped`
  collects the bytes that were left out by a write that stopped early.
* **Leader** is `leader.c` on `broadcast.c`: two threads for each controller in
  `Running`.  Controllers outside `Running` may send proposals at any time,
  which covers everything they can do to the others.  A timer is a flag "older
  than the threshold" which may become true at any time and is cleared by a
  restart.  With the fault `"race"` `leader_propose` is four steps: it stores the
  socket, reads the count, and stores the value and the new count in either
  order, which `leader_proposals[last_proposal++] = content` leaves to the
  compiler.  The history `sent` says to whom the message in the one slot was sent,
  and `overtaken` that it was stored while `do_bcast` was running.
* **Threads** is `create_threads` and its helper.
* **Atomic** gives the threads of Threads an entry point that uses the spinlock
  of `atomic.c`, which nothing in the repository calls: it takes the lock by
  `spin_lock` or tries once by `spin_trylock`, releases it and returns.  **Lock** is the abstract
  lock; the refinement mapping of `TheLock` is the set of threads that are
  between a successful attempt and their `spin_unlock`.
* **Aggregate** is `aggregate.c`, with the reference it is compared with: where
  the next window opens (`NextOpening`), the row of a window (`Row`) and the
  rows of a run and of a database chained together (`RowsFrom`, `RowsOfRuns`),
  none of which keeps anything from one window to the next.

`XProofs.tla` holds the theorems about component `X` (`ThreadsProofs` those
about Threads and Atomic).

## 3. Runs

Runs that must pass:

| Run | Instance | Shows |
|---|---|---|
| `controller_core` | 2 groups of 1 slot, 2 addresses, 3 connections, reset handshakes | `RegistryExact`: the used slots are exactly the machines served, through growth, removal and reconnection; `OwnSocket`: a thread's descriptor stays its own; `KeepsFeed`: the notifications implement Feed |
| `controller_faults` | 1 group, 2 connections, all faults | `TableCompact`, `HandOver` (mutex is locked while a thread has yet to read its slot, and the slot is its own) |
| `controller_liveness` | 1 group, 2 connections, failing sends, early reconnection | `MailboxStable` (no pending notification is overwritten), `NoDescriptorLeak` (only the stand-by loop keeps a descriptor for good), `DepartureCompletes`, `ArrivalAnnounced`, `MainReturns` (only a wrong service can keep main from `accept`) |
| `session_messages` | 1 group and a wrong one, 2 messages each way, torn messages, crashes | `Lockstep` (whole messages never queue up, and none follows a REJUVENATE), `ServiceAgreed`, `RebootsOnlyWhenTold` (also when messages are torn), `ControllerSurvives`, `CommandObeyed`, `AgentEnds`, `DepartureNoticed` |
| `balancer_dispatch` | 2 machines, 3 notifications, 3 connections of 2 clients, unsynchronised reads, lost controller, failing connect and thread creation | `TableFollowsFeed`, `ArgumentHandedOver`, `ClientsStick` (unless a worker looked in the middle of a change), `SentToRegistered` (unless a deletion overtook the round robin), `ClientServed` |
| `mttf_samples` | 2 threads of 2 points, 2 cells, 1 growth, in place or moving | `AveragedOnce` and `SampleAveraged` (unless a sample went astray), `NeverDividesByZero` |
| `forwarder_bytes` | 3 bytes one way and 2 the other, buffers of 2, short writes, failing reads, moving buffers | `Conserved`, `BufferFits`, `WorkerEnds`, `Delivered` (what was read is written, but for the rest of a write that stopped early) |
| `leader_rounds` | 1 of 2 controllers, 2 proposals kept, loss, races, no eth0 | `ElectsTheGreatest`, `NoLeaderInARound`, `RoundEnds`, `BroadcastSent` (a pending message goes to every controller once the others fall silent), `SentBeforeForgotten` (its flag is not lowered before, unless the message was stored during the sends) |
| `aggregate_rows` | all databases of 2 runs, 5 points, times 0..3, step 1 | `RowsAreTheReference`, `AveragesExist` |
| `threads_ids` | 3 threads, one to a call, each with `spin_lock` or `spin_trylock` | `TidsUnique`, `LockKept` (the spinlock implements Lock), `ThreadsReturn` |

Runs in which the code does not do what a comment of the repository says of it
(the comment and its line are in `PROJECT.json`, findings):

| Run | What happens |
|---|---|
| `controller_stale_copy` | a promoted machine's thread keeps `STAND_BY` in its copy and spins |
| `controller_foreign_socket` | a machine is registered with a closed descriptor, which the next one gets |

A third comment differs from the code in words only: `leader.c:45` says that a
round is decided when all have proposed *and* the period has expired, and the
code decides when either is so.  `RoundEnds`, in `leader_rounds`, shows that the
code's test ends every round; with the comment's test, which is the property's
mutant, a round that lost a proposal would not end.

Other behaviours of the code are in the models and limit what their properties
say, each at the place where it matters: a failed REJUVENATE is followed by a
second removal (`RegistryExact` is stated without failing sends); a failed
`recv` from the controller repeats the last notification (`TableFollowsFeed`
until then); a worker that looks while `delete_vm` moves an entry may miss a
machine (`ClientsStick` otherwise); the next index of the load balancer may lie
beyond the used slots and a full list is written at -1 (`SentToRegistered` until then; `ClientServed`
allows the end of the process); a handshake that fails by an error leaves its
descriptor open, and so does the thread of a stand-by machine, which never
leaves its loop (`NoDescriptorLeak` without that error, and for all other
threads); a sample written beyond `rej_rate`, or stored or summed while it is
being reallocated, may be lost or counted twice, and the program may end
(`AveragedOnce` and `SampleAveraged` otherwise); a torn message puts the
two sides of a connection out of step for good, and a machine that crashes can
end the controller by `SIGPIPE` (`Lockstep`, `ServiceAgreed` and
`ControllerSurvives` otherwise);
`realloc` may move a buffer (`Conserved` and `Delivered` for a buffer that has not
moved); the rest of a write that stopped early is dropped (`Delivered` for all
other bytes); a round opened in the middle of `leader_propose` may keep old
proposals, and one decided between its count and its value reads a cell that is
not written yet (`ElectsTheGreatest` otherwise); a message stored while
`do_bcast` sends is forgotten (`BroadcastSent` and `SentBeforeForgotten` for all
others); a run of one data point divides by zero
(`AveragesExist` otherwise).

**Bounds.**  Two addresses and three connections are the least with which a
machine can leave, come back and meet both its old thread and another machine's
reused descriptor; one slot per group makes the second machine grow the table.
For the mutexes and the mailbox two connections suffice: main, two threads and
the balancer thread then compete for both.  Three notifications (ADD, ADD,
DELETE) move a machine to another slot, and three connections of two clients
let the client of the moved machine come back.  One group and a wrong one are
all that the handshake tells apart, and a connection that holds two messages
each way lets a message meet the rest of another and a `send` run into its
timeout.  Three threads let one spin, or fail its attempt, while the lock passes
between the two others.  Three bytes one way and two the
other through buffers of two make `append_buffer` reallocate in both
directions.  Two controllers of which the modelled one is the smaller give it
its own and a greater proposal, in any order, repeated, late or never; two
proposals are enough to end a round early.  Two cells for four samples let
samples be written beyond the memory and in it, before, while and after the block
moves; the growth of this instance keeps two cells, and a growth that leaves fewer
(with two groups and one slot) is left to the proofs.  Five points give a run with two
windows of two points and a last point.  Every bound is a named constant.

**Types.**  Each module states its types in `TypeOK`, the place to look up what
a variable holds.  The runs check the controller's; it and those of all other modules with
proofs follow from the inductive invariants and so are proved (section 4).

**Deadlock** is not checked: behaviours are bounded by the number of
connections, messages or bytes, after which the threads rightly wait in
`accept`, `recv` or `select` for ever.  That nobody waits for somebody else is
stated by the liveness properties instead.

**Fairness.**  Threads that can run do (weak fairness of each thread's steps).
In the controller this includes the return of `recv` and `send`, because
`SO_RCVTIMEO` and `SO_SNDTIMEO` are set; it never includes an arrival.  In
`Forwarder` a socket is writable again and again (strong fairness of `select`
with that result): a peer that never reads is outside `Delivered`; and `read` on
a socket does not fail for ever, since a pending error is reported once.  In
`Leader` time passes, and nothing is assumed of datagrams; `BroadcastSent`
names its own condition.  In `Session` both programs run and somebody answers
the agent's question for a service; the agent's own calls have no timeout and
may wait for ever.  In `Atomic` a thread that spins on a taken lock does not
move; who gets a free lock is left open.

**Abstractions to keep in mind.**  In Controller and Mttf one `recv` is one
message, and a machine that was told to rejuvenate is silent; `Lockstep`
of Session justifies both for messages that are not torn.
`SIGPIPE` ends the process in Session; elsewhere a failed `send` is treated as
the code does when `send` returns.
Stores become visible in program order (but for the two that `leader.c:153`
leaves unordered), and the mailbox is filled in one step.  The reallocation of
`vm_data_set` and of the load balancer's table is one step: no thread uses the
freed block; that of `rej_rate` is not.  A store outside `rej_rate` damages the
heap of Mttf only.  After a
short write the rest of the buffer is dropped, as in the code; `Conserved` then still promises the order.
Smaller ones: after a failed `recv` the load balancer closes the controller's
socket (`balancer.c:434`), whose number may be used again, which Balancer leaves
out; its scan for the next machine is one step, and `raced` records that the table
was being changed during it; `do_agreement_reduction` is one step, and a
`sock_write_udp` that fails is a lost datagram; `system("reboot")` succeeds
(`client.c:290`); `aggregate` exits on an unknown token (`aggregate.c:94`) and has
room for 52 runs, and the model's databases are well formed and smaller.

## 4. Proofs

The theorems hold for every value of the constants that satisfies the named
assumptions of the module (sizes are positive naturals, the values that stand
for "nothing" are not among the real ones, `Faults` is a set of the faults the
module knows), and for every set of faults unless a theorem excludes some.
Nearly none of the properties is inductive: each module strengthens them to an
invariant that is, which TLC also checked on instances of the size of section
3, with one lemma per action and the property as a corollary.

| Theorem | Property | Excluded faults |
|---|---|---|
| `ControllerProofs!TypeCorrect`, `TableStaysCompact`, `MutexHandedOver` | `TypeOK`, `TableCompact`, `HandOver` | none |
| `ControllerProofs!NotificationNotOverwritten` | `MailboxStable` | `thread` |
| `ControllerProofs!DescriptorsNotShared` | `OwnSocket` | `send` |
| `ControllerProofs!EveryDescriptorClosed` | `NoDescriptorLeak` | `reset`, `thread` |
| `ControllerProofs!RegistryIsExact` | `RegistryExact` | `send`, `thread`, `overlap` |
| `ControllerProofs!ImplementsFeed` | `KeepsFeed` (refinement) | `send`, `thread`, `overlap`, `lb` |
| `ControllerProofs!NoMutexLeftLocked` | `LocksHaveAWayOut`: a locked mutex has a thread about to unlock it | none |
| `ControllerProofs!NoNotificationLost` | `NotificationsKept`: arrivals and departures were sent or wait in the mailbox | `thread`, `lb` |
| `BalancerProofs!BalancerTypes`, `ArgumentNotOverwritten`, `TableIsTheFeed`, `SentToAMachine`, `ClientsAreSticky` | `TypeOK`, `ArgumentHandedOver`, `TableFollowsFeed`, `SentToRegistered`, `ClientsStick` | none |
| `BalancerProofs!MutexNotLeftLocked` | `MutexHasAWayOut`: while the process runs, a locked mutex has somebody about to unlock it | none |
| `SessionProofs!SessionTypes`, `NoUnorderedReboot`, `TurnsAreTaken`, `ServiceIsAgreed`, `NoBrokenPipe` | `TypeOK`, `RebootsOnlyWhenTold`, `Lockstep`, `ServiceAgreed`, `ControllerSurvives` | none |
| `SessionProofs!TurnIsNeverLost` | `TurnNotLost`: the two programs never both wait | none |
| `MttfProofs!MttfTypes`, `SamplesAveragedOnce`, `DivisorNotZero` | `TypeOK`, `AveragedOnce`, `NeverDividesByZero` | none |
| `MttfProofs!AverageIsTheMean`, `SamplesNotLost` | `DividesByTheirNumber` (while no sample is astray), `NoSampleDropped` (action property: a step that drops a sample marks it as astray) | |
| `ForwarderProofs!ForwarderTypes`, `BytesConserved`, `BuffersFit` | `TypeOK`, `Conserved`, `BufferFits` | none |
| `LeaderProofs!LeaderTypes`, `RoundHasNoLeader`, `GreatestIsElected`, `ForgottenOnlyWhenOvertaken` | `TypeOK`, `NoLeaderInARound`, `ElectsTheGreatest`, `SentBeforeForgotten` | none |
| `ThreadsProofs!UniqueTids` | `TidsUnique` | |
| `ThreadsProofs!EntryPointsAreThreads`, `LockIsKept` | Atomic implements Threads; `LockKept` (Atomic implements Lock) | |
| `AggregateProofs!AggregateTypes`, `AveragedOverPoints`, `RowsOfEveryDatabase` | `TypeOK`, `AveragesExist`, `RowsAreTheReference` | |

The properties explained in the table, and not in section 3, are defined in the
`Proofs` modules.  They are what can be proved of the liveness properties: that
nothing is lost on the way, and that whoever must act is there to do so.  That
he does act is fairness, and left to the runs.

**Controller.**  `HandOver` says where a starting thread's argument points; that
nobody moves this slot follows because removals need `mutex`, which is still
main's.  That the slot is the thread's own needs `PortsInv` (main is about to
start the thread of the last entry of a group) and `MainInv` (what main's locals
hold, by program counter); that a thread's later removals concern its own group
needs `CopyInv`.  `ControllerInv` is the conjunction with the types.
`LocksHaveAWayOut` is inductive relative to it, under all faults.  Five more
layers stand on it:

* `MailboxInv`: `manage_vm_mutex` is locked from the filling of the mailbox to
  the end of the send.  When `pthread_create` fails, `main` unlocks a mutex that
  may stand for somebody else's notification, hence the excluded fault.
* `NewestInv` and `OpenInv`, under all faults: a connection has no thread before
  main starts one, and is open on one descriptor only, the one in main's
  variables, in its slot or in its thread's copy.  On them stand `OwnedInv` (an
  open descriptor belongs to main's connection or to one whose thread has not
  ended) and `LoopInv` (the threads in the stand-by loop, and no others, have a record in
  state `STAND_BY`): who gives a connection up closes the only descriptor it is
  open on, and who never gives it up is in that loop.  `SocketInv` adds, without failing sends, that this
  descriptor is open on this connection; a failed send closes it too early, and
  `accept()` then gives it to another machine.
* `RegisterInv`: an address and a connection occur once in the whole table, and
  exactly for the machines served.  `manage_disconnected_vms` looks for an
  address and the property is about connections, so the uniqueness of addresses
  is what makes it remove the right entry; lemmas `InsertHolds`, `SwitchHolds`
  and `RemoveHolds` say what each change of the table does to the relation
  `Holds`, whichever slots move.
* `AnnounceInv`: what the load balancer was sent last, or what waits in the
  mailbox, is not DELETE exactly for the machines that main or one thread has
  announced.  By `RegisterInv` nobody else stands for the same address, so an
  ADD finds the machine deleted and a DELETE or REJ finds it added.
  `BalancerSend` then maps to `Notify` of Feed and every other step stutters.
* `NotificationsKept` with `LastWord`: for each connection rather than each
  address, so that sends to machines may fail and machines may reconnect early.
  A notification is put in an empty mailbox (`MailboxInv`), hence replaces none;
  a thread that has published DELETE publishes nothing more, and main publishes
  only for a connection without a thread (`NewestInv`), hence nothing about the
  same connection follows it.

**Balancer** assumes of the controller only Feed, which `ImplementsFeed`
establishes.  `WorkerInv` follows the mutex from main to the worker.  The other
parts speak of the slots that count (`Live`): while `delete_vm` moves an entry
those are the slots without the gap, so that `TableInv`, `FeedInv` (the table is
the feed except for the notification in progress) and `HomeInv` (a client is in
the list of its machine only) hold at each store of the unlocked
`controller_thread`, not only between notifications.  `IndexInv` bounds
`actual_index` until a deletion overtakes it.  The worker that does not unlock
the mutex is the one that ends the process (`MutexHasAWayOut`).

**Session.**  `TornInv` holds whatever pieces a `recv` returns: the handshake is
over once an "ok" or a data point is on its way, and REJUVENATE is only read
where it was sent.  `TurnInv`, for whole messages, is the list of the
configurations of the two programs and the two queues (`Handshake`, `Exchange`,
`Closed`), from which the turns, the agreement and the absence of a broken pipe
can be read off; `Lockstep` says that at most one side has the turn and
`TurnNotLost` that one does.

**Mttf.**  A sample not yet produced is nowhere, in no cell of the block or of
its copy (`UnbornInv`), and the thread that averages enters its locked section
only after it saw a sample, which nobody else takes away (`PolledInv`).
`PlaceInv` says where samples can be lost: a cell outside the memory holds a
sample that is already astray (`OutsideInv`), and while the block moves a cell in
use was copied as it is or holds such a sample (`CopyInv`); with it a sample that
is not astray survives `Moved` and the sum, which is `NoSampleDropped`.  While
nothing is astray, as many samples are in the cells below `index_rej_rate` as it
says, and the sum is empty but between the two sections (`CountInv`): the divisor
is then the number of samples.

**Forwarder.**  What a side has received and what waits for it is an increasing
part of what the other sent (`StreamInv`).  The one counter that both directions
multiply their sizes with only ever makes a buffer larger than needed
(`RoomInv`).

**Leader.**  `ElectionInv`: from the decision to elect on there is no leader.
`StoredInv`: a pending message has a type.  `WrittenInv` and `RoundInv` follow
the proposals of a round through the separate stores of `leader_propose`, in both
orders of value and count; the ghost `torn` marks a round opened between them.
When the count is stored first, its proposer is in no cell until the value is:
`loopPc = "value"` is the one moment at which a decision may miss it.  `SentInv`:
the controllers below `do_bcast`'s index have the stored message, unless it
overtook the sends; at the end of the loop these are all.

**Threads.**  A thread between its read and its swap will take the number after
the one it read; a swap that succeeds has therefore seen the current counter,
which bounds all ids taken.

**Atomic.**  `LockInv`: a word of 0 means no holder, and there is at most one.  A
step that finds 0 then maps to `Acquire`, a step that stores 0 to `Release`, and
a failed attempt, although it writes, to a stutter.

**Aggregate.**  `WindowInv`: a window is empty only before the first point of a
run, and then its start is the time of that point, which is no step away from
itself; otherwise sum, count, first time and slopes are those of the points from
the one that opened it (`Filled`).  `RowsInv`: the rows written, followed by the
reference's rows from the open window on, are all rows of the reference.  A step
inside a window changes neither side; one that closes it moves one row across,
since no point before has closed it and this one is `NextOpening`.  The
reference is recursive over the data.  That its functions exist and satisfy
their equations for databases of any size is an induction, done by a least
counterexample: `LeastNatural` (from the library's facts on well-founded
relations) and on it `ChainExists`, `ChainUnfolds`, `ChainType` and
`TotalExists`.

Checked by TLC only: liveness (`MainReturns`, `DepartureCompletes`,
`ArrivalAnnounced`, `ClientServed`, `CommandObeyed`, `AgentEnds`,
`DepartureNoticed`, `SampleAveraged`, `WorkerEnds`, `Delivered`, `RoundEnds`,
`BroadcastSent`, `ThreadsReturn`).  Fairness and `ENABLED` are out of the
prover's reach.

## 5. Not modelled

* The prediction models and Lasso: floating point without control; Lasso is
  third-party Matlab code.
* `FRAMEWORK.sh`, the Python and plotting scripts and the report: a straight
  sequence of commands on files, text processing and layout.  Nothing in them
  is concurrent, and no state outlives a command but its files.
* The anomaly injectors: they leak memory and start threads at random on
  purpose, and have no property to keep.
* Functions that nothing calls: `get_connection`, `sock_gets`, `sock_puts`,
  `sock_read_udp` and `ignore_pipe` of `sockhelp.c`, `send_to_leader`,
  `start_server` of `client.c`, `insertFront`, `insertNext` and `deleteNode` of
  `list.c`, and the `atomic_add`, `atomic_sub`, `atomic_inc`,
  `atomic_dec`, `atomic_inc_and_test` and `atomic_test_and_reset`, which are one instruction each.
* Name resolution and socket set-up, and what `get_features` reads.

## 6. What is left

Every safety property and refinement that a run checks is proved, and the
safety half of the liveness properties of Controller, Balancer, Session, Mttf
and of `BroadcastSent`.  What could still be said for all instances: the same
halves for Forwarder (bytes read are in a buffer until they are written),
`RoundEnds` (a round that is open has a running timer) and Threads (who does not return is waiting
for the lock of somebody who will).  The models leave open what section 3 lists
under abstractions: a mailbox torn by unsynchronised stores, `SIGPIPE` outside
Session, and pieces of messages smaller than a field.

To repeat a check: `tlc -config <run>.cfg MC<Module>` and `tlapm
<Module>Proofs.tla` in this directory.
