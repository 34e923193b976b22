# TLA+ verification of ROSS

ROSS (`src/core`) is a parallel discrete event simulator. A model is a set of
logical processes (LPs) that exchange time-stamped events; ROSS executes them
on several processes (PEs), one per MPI rank, with the result that a sequential
execution in the order of the event signatures would give. Its main scheduler
is optimistic (Time Warp): a PE executes what it has, and an event that arrives
in the past rolls the kernel process (KP, a group of LPs) back.

The modules describe the default build: `AVL_TREE` and `USE_RAND_TIEBREAKER`
on, splay queue, MPI network, Allreduce GVT, `USE_RIO` off. Two of these are
also taken the other way: `PendingSet` has the hash table of `AVL_TREE=OFF` as a
second build, and `Rio` and some programs of `RollbackCheck` are builds with
`USE_RIO`.

## 1. Inventory

| Component | State | Operations | Hard about it | Correct when |
|---|---|---|---|---|
| Optimistic scheduler (`tw-sched.c`, `tw-event.c`, `tw-kp.c`) | per PE `event_q`, `cancel_q`, `pq`; per KP `pevent_q`, `last_sig`; causality links | `tw_sched_event_q`, `tw_sched_cancel_q`, `tw_sched_batch`, rollback, cancel, abort | the network is read inside rollbacks, queues change while they are walked; cascaded rollbacks; pool exhausted inside an event | KPs execute in signature order; commits are those of a sequential run; no buffer lost |
| GVT (`gvt/mpi_allreduce.c`, `tw-pe.c`) | `gvt_status`, white counters, `trans_msg_sig`, `GVT_sig` | step 1, step 2 (two Allreduces), fossil collection | transient messages, counters reset at different times, messages arriving during the computation | GVT is a lower bound of all that can happen, does not decrease, and every computation ends |
| Network (`network-mpi.c`) | `outq`, `posted_sends`, `posted_recvs`, owner and cancel flags of each buffer | send, receive and finish, cancel, minimum | a cancel meets an event in `outq`, in an Isend, or sent; completions are reported late and in any order | an anti-message finds its event; a buffer is freed once, when nothing refers to it |
| Conservative scheduler (`tw-sched.c`) | `pq`, GVT, lookahead | batch below GVT + lookahead | relies on no event being on its way | no event is late |
| Sequential scheduler | `pq` | one loop | – | the order that the others have to reproduce |
| Event lists (`tw-eventq.h`) | doubly linked lists in the event buffers | push, pop, shift, unshift, delete, pop list, push list, fossil collect | lists are taken apart while being walked | each buffer is in one place, links agree |
| Priority queue (`queue/splay.c`) | splay tree in the event buffers, cached least node | enqueue, dequeue, delete any, minimum | pointer surgery, cached minimum | always delivers the least event |
| AVL tree (`avl_tree.c`) | tree of received events, list of nodes | insert, remove | rotations, deletion, node list | finds every event that an anti-message can name |
| Hash (`hash-quadratic.c`) | the same with `AVL_TREE=OFF`: a table per sending PE, its size a prime | insert, remove, rehash | probing by squares ends only at what it looks for | same; every probe ends |
| Buddy allocator (`buddy.c`) | free lists by order, block headers in the arena | allocate, free, split, merge | blocks on two lists, merge at the top | free and held blocks partition the arena |
| GVT hook | trigger status and signature | trigger by time, by model call, by count | triggers are rolled back; several of them | the hook is called when all before it is committed |
| Set-up (`tw-setup.c`, `tw-lp.c`, `tw-kp.c`, `specialized-lps.c`) | LP, KP and PE tables | linear, round robin and custom mapping, analysis LPs behind all others | divisions that do not come out even; two rules to look an LP up | every LP has one KP on its own PE and is found by its number |
| Suspended LPs (`tw-lp.c`) | `suspend_flag`, `suspend_event` | suspend, pass over events, resume by rollback | nested with rollback | resumes exactly when the suspending event is undone; reverse handlers match handlers |
| Debug schedulers, `check-revent` | checkpoints of an LP | forward, reverse, compare | long chains undone; what is left over between passes | reverse undoes forward; a right handler is not reported |
| Random numbers (`rand-clcg4.c`) | four seeds per stream | draw, reverse | 31 bit modular arithmetic | reverse undoes draw; streams are apart |
| State deltas (`tw-state.c`), output (`tw-util.c`) | compressed differences in buddy blocks; lines in output buffers | snapshot, delta, restore; grab, print, return | held by an event as long as it may be undone | restoring in reverse order gives each event the state it had found; nothing is lost or given back twice |
| RIO (`rio/`) | buffered events past the end; metadata, sizes and data files | store, load, send anew | ranks share files; the next job has other ranks and KPs | every LP and event stored is there again |
| Instrumentation | lists of samples, buffers, shared files | sample, undo, commit, push, write | samples move in a list under rollback; offsets from what others write | no sample lost or mixed up; files whole |
| Options, statistics, utilities, LZ4, clocks, `models/` | – | – | – | – |

How they interact. The loop of a PE calls the network (`tw_net_read`), GVT
step 1, the two queues, GVT step 2 and the batch, in this order. Executing an
event calls the model, which calls `tw_event_send`: a local event goes to `pq`,
or to `event_q` when it is late for its KP; a remote one to `outq`.
`recv_finish` does the same on the other side, and puts the event that an
anti-message names on `cancel_q`. Rolling back calls `event_cancel` for all an
event has sent, which calls `tw_net_cancel` for remote ones, and that services
the network again. GVT step 2 reads the network until the white counters of all
PEs add up to zero, takes the minimum of all local virtual times, and collects
the fossils. Received events are also in the tree or hash table, from
`recv_finish` until their anti-message or their fossil collection. An event
that may still be undone holds what `tw_event_rollback` needs: links to what it
sent, a state delta in a buddy block, lines of output. After GVT the
instrumentation samples and all ranks write together; with RIO the job that ends
stores what the next one reads before its first event.

## 2. Modules

| Module | Models | Read with |
|---|---|---|
| `NetworkMPI` | sender's side of `network-mpi.c`: owner of a buffer, `outq`, `posted_sends`, cancels, white counters | `network-mpi.c` 480-687 |
| `TimeWarp` | several PEs with network, queues, rollback, GVT, fossil collection | `tw-sched.c` 44-320, 922-970, `tw-event.c`, `tw-kp.c`, `gvt/mpi_allreduce.c`, `network-mpi.c` |
| `SchedBatch` | one PE with the buffer pool, abort, `last_sig`, suspended LPs | `tw-sched.c` 44-320, `tw-eventq.h`, `tw-lp.c` 168-243 |
| `Conservative` | several PEs under `tw_scheduler_conservative` | `tw-sched.c` 778-920 |
| `Simulation` | abstract: commits per KP in signature order | `tw-sched.c` 691-776 |
| `GvtHook` | triggers of the GVT hook under rollback, on several PEs | `gvt/mpi_allreduce.c` 125-246, 476-559, `tw-sched.c` 195-205, 515-634 |
| `Rng` | the generators of `rand-clcg4.c` in integers of a small width | `rand-clcg4.c`, `ross-random-internal.c` 22-43 |
| `Setup`, extends `Rng` | LPs, KPs, analysis LPs and streams of several ranks up to `tw_run` | `tw-setup.c` 168-418, `tw-kp.c` 3-20, `tw-lp.c` 56-116, `specialized-lps.c` |
| `Rio`, extends `Setup` | jobs that store a checkpoint and jobs that start from it | `rio/io-mpi.c`, `rio/io-serialize.c`, `tw-lp.c` 117-145 |
| `Instrument`, extends `Setup` | samples, buffers and files of the instrumentation | `instrumentation/` |
| `RollbackCheck`, extends `Rio` and `Instrument` | the two schedulers that test reverse handlers; with the others, the program from set-up to end | `tw-sched.c` 635-685, 1026-1247, `check-revent/crv-state.c` |
| `SplayQueue`, abstract `PriorityQueue` | the splay tree | `queue/splay.c`, `queue/tw-queue.h` |
| `AvlTree`, `HashQuadratic` | the two stores of received events | `avl_tree.c`, `hash-quadratic.c` |
| `EventHash` | the interface to either | `hash-quadratic.c` 31-105, 205-236, `avl_tree.c` 330-344 |
| `PendingSet`, extends `SplayQueue` and `EventHash` | the lists, the queue and the store of one PE under the scheduler | `network-mpi.c` 355-471, `tw-sched.c` 44-300, `tw-event.c` 62-199, `tw-kp.c` 103-156 |
| `EventQ`, abstract `EventLists` | pointer lists and the moves between them | `tw-eventq.h` |
| `Buddy` | buddy allocator, as functions on its table | `buddy.c` |
| `EventMemory`, extends `EventQ` and `Buddy` | what events hold: deltas and lines of output | `tw-state.c`, `tw-util.c` 5-61, `tw-event.c` 221-307 |
| `TimeWarpProofs`, `ConservativeProofs`, `SchedBatchProofs`, `GvtHookProofs`, `RngProofs` | theorems about these modules | – |
| `EventQProofs`, and `EventMemoryProofs`, which extends it and `EventMemory` | what the pointer operations and the allocator do; theorems about the event lists and what events carry | – |
| `ProgramProofs`, extends `RollbackCheck` and `RngProofs` | theorems about the program's set-up, its debugging schedulers and the samples of the instrumentation | – |

`MC...` modules give the constants of the runs. `PROJECT.json` maps every
definition to the lines it stands for.

### TimeWarp and NetworkMPI

An event has a signature, a natural number (`tw_event_sig_compare_ptr` is a
total order), a destination KP and a parent, whose execution may send it. An
execution sends any subset of the events it may send, so that a second
execution after a rollback may do something else. Two buffers stand behind a
remote event: `owner` is that of the sender's, `loc` that of the receiver's.
`pc` is the place in the loop, `svc` tells that the PE is inside
`service_queues` (or the loop of `tw_net_send`, which services sends only),
`hand` is the straggler or cancelled event being dealt with and `rb` the event
being undone, so that a network read in the middle of a rollback is a sequence
of steps of its own, with anything happening at other PEs in between.
`recv_finish` is `RecvEvent` and `RecvAnti`, `tw_kp_rollback_to_sig` is
`RollbackNext` once per event, `event_cancel` is `CancelRemote` and
`CancelLocal`, once per event sent. MPI is a set of messages: any message that
was posted may be received next, and a send may be reported complete before or
after it arrives. Messages between two PEs are not overtaken by an anti-message
for the same event, since the second is sent only after the first completed.
`s_nwhite_sent` and `s_nwhite_recv` are the sets of counted messages: the sum
of all counters is zero when they have the same size, and this is what
`AllreduceWhite` compares. A popped `cancel_q` is `popped`: the code's test
`!dest_pe->cancel_q` does not see it.

### SchedBatch

The same loop for one PE, whose environment sends the events `Arrival`; a
buffer is taken for each posted receive and each event, `LowBuffers` is the
test at the head of the batch, `Abort` the path taken when the model finds the
pool empty, with `tw_eventq_peek` returning the tail of the list. The receives
that `tw_net_start` means to post in advance find no pool yet, so the first are
posted by the loop. A handler that misses an event it expects (`misses`, one of
the `Models`) calls `tw_lp_suspend` (`Suspend`), with `do_orig_event_rc` for the
events of `OrigRc`; events for a suspended LP are passed over (`Skip`), and
`Undo` follows the tests of `tw_event_rollback`. `applied` is a history: how often
the handler of an event ran, less its reverse handler.

### Conservative, Simulation

`Conservative` has signatures and time stamps apart: the first order events,
the second are compared with GVT + lookahead. Its network is that of
`NetworkMPI` without cancels. `Simulation` has one variable, the committed
events. Both `TimeWarp` (fossil collected events) and `Conservative` (executed
events) implement it.

### GvtHook

Rollback is one step here: a straggler undoes the executed events behind it on
its KP, what they sent is gone, what those had caused too, and
`tw_trigger_gvt_hook_now_rev` runs for the callers among them. What remains is
what the hook depends on: when a PE stops its batch, when it starts a GVT
computation, what the GVT becomes with the triggers in it, which PEs agree that
the hook is due, and how the trigger is set and reset. All PEs set the status
alike (it is set at start and inside the hook, which they call together), so it
is one variable; `sig_at` is one per PE. `every_n_gvt` counts down to the next
call instead of taking `g_tw_gvt_done` modulo `nums`.

### Rng, Setup, RollbackCheck

`Rng` does with a small `H` in integers of `IntBits` bits what the code does
with 2^15 in 32: `2^IntBits = 4 H^2` in both, the moduli are just below half
the range and `Int32` wraps what is assigned. A draw is the state it leaves;
`Unif` is its number times the product of the moduli, exact where the code
rounds. `Setup` starts with what the user chose (`conf`); `stage` of each rank
goes through `tw_define_lps` up to its Allreduce, the mapping, and the checks
of `tw_run`, and an error at one rank ends the program. With `conf.analysis` every
KP has one LP more, numbered behind all LPs of all ranks. `RollbackCheck` keeps
the PE in one record `sim`, on which `Event` (the model's handler), `Send`
(`tw_event_new` and `tw_event_send`), `tw_event_rollback` and the rest are
functions; the actions are the passes of the two loops. `plain` is a history:
the same events executed once each. The handlers are those of a model that
draws the target and the time of what it sends, counts, and asks for the GVT
hook at odd times; `conf.wrong` names the one thing that its reverse or commit
handler gets wrong.

### Rio and Instrument

`Rio` continues from `Setup` when a job has RIO. The simulation itself is
reduced to what reaches the checkpoint: a rank changes an LP and sends an event
past the end (`Work`), or a rollback takes both back (`Unwork`). Storing is two
steps, the Exscan of all ranks and then each rank's writes in any order; a data
file is a function of offsets, so that two ranks could overwrite each other.
`Restart` begins another job, with other ranks and KPs, from nothing but the
files. `Instrument` continues from `Setup` too: analysis LPs take a sample at each
of their events, in a doubly linked list with a cursor (`l`), rollbacks undo the
newest, fossil collection commits the oldest; at GVT the ranks collect, exchange
the sizes of their buffers and write to the files one after another in any order.
`conf.types` says which kinds of records a run follows: the kinds have their own
buffers, files and offsets and share only the event queue. Records are what they
must be told apart by, not their bytes.

### PendingSet and its stores

`SplayQueue` has the fields `up`, `next` and `prev` of the events and the
`least` node; its splay follows the code's loop over parent and grandparent.
`AvlTree` is a recursive value with the heights the code stores.
`HashQuadratic` is a table of cells with its probing, its load limit and the
rehash to the next prime. `EventHash` is either of them, by `build`; a probe
that would not end, an entry not found or a list of nodes used up sets `halted`.
`PendingSet` calls all three where the code does: an event received goes into the
store and into `pq` or `event_q`; an anti-message takes it out of the store and
puts it on `cancel_q`; the loops of the two queues, the rollback of the newest
event, the batch and the commit of the oldest event move it on. An undo is one
event, so that arrivals and anti-messages come in the middle of a rollback.

### EventQ, Buddy, EventMemory

`EventQ` has `next` and `prev` and, for each list, head, tail and size;
`tw_eventq_push_list` frees sent events into the list it is extending, and a
popped list is walked one event at a time while others arrive. `Buddy` has the
header fields at each block address and the lists by order. `EventMemory` adds to
each move of `EventQ` what becomes of the event's delta and its lines: the handler
of an event may take a snapshot and print, undoing it restores the state and
gives the block back, and fossil collection gives back what each event and what
it sent had, in the order of the walk. The contents of a block are one byte, the
wrapped difference, so that a block cleared or reused too early shows.

## 3. Runs

| Run | Checks | Shows |
|---|---|---|
| `tw_remote` | `TypeOK`, `QuietNetwork`, `GvtIsLowerBound`, `AntiFindsEvent`, `Causality`, `BuffersSafe`, `GvtMonotone`, `IsSimulation` | two PEs, a late event, an anti-message, a second send of the same signature |
| `tw_local` | `CommitsCaused`, `Termination` | two KPs on one PE, cascaded rollback, anti-message at its end; under fairness all PEs leave the loop |
| `batch` | `PoolConserved`, `SentIsCaused`, `InOrder`, `HandlersPaired`, `Stops`, `Completes` | a pool that runs dry in the middle of an event, and one that does not; LPs that suspend themselves on a wrong order and resume when it is undone |
| `batch_abort` | `HeadIsMax`, violated | finding 1 |
| `batch_suspend` | `SuspendReported`, violated | finding 4 |
| `cons_ample` | `NeverLate`, `IsSimulation`, `Completes` | conservative scheduler with room for all sends |
| `cons_full` | `NoPastEvent`, violated | finding 2 |
| `pending` | `Unlinked`, `HashedWhileLive`, `StoreSound`, `FindsRoom`, `IsPriorityQueue` | every order of arrivals, anti-messages, local sends and cancels, rollbacks and commits, with the tree and with the hash table |
| `memory` | `EachInOnePlace`, `Partition`, `CarriedByProcessed`, `RestoresState`, `ImplementsLists` | five buffers moving between all lists with deltas in an arena of four blocks and lines of output |
| `gvt_hook` | `HookOnTime`, `CallsHonoured`, `NotSpurious`, `HookComes` | requests for the hook made, undone by stragglers and made again, and a hook that sets its next time |
| `program` | `LpsFound`, `StreamsApart`, `NoFalseAlarm`, `Restored`, `Recovered`, `SamplesKept`, `FilesWhole` | up to three ranks with every mapping and number of KPs, with analysis LPs too; both debugging schedulers with handlers right and wrong, events past the end, and pools that last or not; jobs that store and others that start from what they stored; ranks with instrumentation |
| `program_rio` | `NoFalseAlarm`, violated | finding 3 |

Bounds. `SendBuffer` is 1 in the Time Warp runs, so that an event waits in
`outq` while another is in MPI, and a cancel meets it in each of its stages;
five or six events are what a straggler, a rollback, an anti-message, a repeated
send and an event in between need. `MBlock` 1 or 2 and a small `GvtInterval`
let GVT computations begin at different points of the two PEs' loops. They begin
too when the least event is `MaxLookahead` past the GVT, or `pq` is empty, which
counts as infinitely far (`NotPastLookahead`, `mpi_allreduce.c:128`);
`MaxLookahead` is such that some event is that far in `batch` and `cons_ample`;
in the Time Warp runs, as by default, only an empty `pq` is. In
`SchedBatch` nine buffers are too few for what one event sends on top of what
is queued, twelve are enough; the run starts with either, and with models that
never suspend an LP or do so in an order that a straggler corrects. In `GvtHook`
two events of one KP ask for the hook, one straggler comes from the other PE before
both and one behind the first, and the times lie before, on and behind events
and after the end. In `pending` five received events differ by time stamp, tie-breaker,
event number and sender in turn, so that each comparison of the tree decides
between some two; four of them meet in one cell of tables of three and of seven,
and the first table is outgrown; six local events give the splay tree all
cases of its rotations and of `tw_pq_delete_any`. The list of nodes is long
enough for a tree of all five, one of whose leaves may be deleted from beside a
child with two equal children, which takes the double rotation of
`avl_tree.c:149`, or so short that the third insertion ends the program; what
eight and more nodes could do to the tree is beyond the run. `MaxWaiting` is 1: `event_q` and
`cancel_q` hold one event each, next to three processed ones. In `memory` the
programs take blocks of one size, of growing and of shrinking sizes, up to the
whole arena, and ask for two lines of output where there is one buffer. In
`program` the moduli are 31 and 29 with `H` = 4: products meet both halves of
`MultModM`, and streams start 16 draws apart; two LPs and an end at 6 give up to a
dozen events, some past the end, and the debug scheduler stops at one free buffer
in place of 1024. All ranks have the same number of LPs, as `map_round_robin`
says it assumes. Jobs with RIO have one or two ranks with own or shared files, one or two
events stored by each rank, and a second job with all KPs of the first on half the
ranks, on the same ranks (which stores for a third), with too few KPs, too few
buffers, or more ranks; runs with instrumentation have buffers that one rank fills
before the other and places for samples that suffice or do not.

Fairness. A PE never blocks outside an Allreduce, so its own next step is
weakly fair; MPI guarantees progress of a posted send whose receiver polls, but
no single poll promises to report anything, so `SendFinish` and the receiving
actions are strongly fair. The Allreduces complete when every PE has called
them. Nothing is assumed of the model's choices of what to send.

## 4. Findings

1. `tw-sched.c:275` (and 434): after an abort `last_sig` becomes that of the
   oldest processed event, later stragglers are not recognised (`batch_abort`).
2. `tw-sched.c:829`: with `posted_sends` full, the conservative loop may execute
   events before one still in `outq`, and stop at its own error (`cons_full`).
3. `tw-event.c:40`: under RIO an event past the end is linked to its cause and
   counted as aborted too; the rollback of its sender takes two tie-breakers
   back for one that was drawn, and the rollback check reports a handler that is
   right (`program_rio`).
4. `tw-lp.c:214`: the comment promises that a suspended LP is reported and the
   program ends when GVT passes the event that suspended it. Nothing looks at the
   flag at GVT: the events of the LP are committed unexecuted and the run ends
   normally (`batch_suspend`).

Seen while modelling, with no run of their own:

- `avl_tree.c:149`: the comparison of the grandchildren is strict, so that after
  a deletion a double rotation may be taken on equal heights and leave subtrees
  that differ by two; the tree is then not an AVL tree. This takes eight nodes
  before the deletion. On equal heights `pending` takes the rotation in trees of
  five, where order and stored heights stay right and the subtrees balanced.
- `buddy.c:98`: the merge goes on at the largest order and reads a header
  behind the arena. `Buddy` lets that read find no free block, and `EventMemory`
  also lets it end the program.
- `hash-quadratic.c:173`: `find_entry` has no end for an entry that is not in the
  table. `pending` shows that the kernel never looks for one.
- `analysis-lp.c:103`, `:158`: when the last place of the list is taken
  `model_samples_current` is NULL, and the next sample or rollback follows it even
  if places have become free since; the code has a TODO there. `SamplesKept` and
  `FilesWhole` speak of runs up to that point, which is a fault in `Instrument`.
- `st-stats-buffer.c:168`: the help of the option speaks of the percentage of
  free space left, the code writes when the used share has reached it.
- `st-sim-engine.c:71`, `:72`: `s_ngvts` is never stored in the last statistics of
  a PE, so that each record has the total where a difference is meant;
  `last_all_reduce_cnt` is shared by the kinds of collection, so that its
  difference may be to another kind's sample.
- `rio/io-mpi.c:206`: `g_io_lp_types[0].deserialize` reads LPs of every type.
  Only the first stream of an LP is stored, not `core_rng` (`io-serialize.c`).
- `rio/io-mpi.c:234`: an event that is past the end of the restarted job too is
  buffered at the tail, where the next pass takes it again: the ones before it are
  never sent, and with no free buffer it is lost. `Recovered` leaves such
  jobs out.
- `io-serialize.c:68`: `src_lp` is looked up on the rank that reads; when the
  sender is on another rank now the lookup is beyond the table. `Rio` takes it
  for an error, so a restart on more ranks does not get through.
- Streams of analysis LPs have the numbers that core streams of other LPs have;
  they start apart because `core_rng` has seeds of its own.
- `gvt/mpi_allreduce.c:546`, `:557` and `tw-sched.c:610`: there is one trigger
  per PE. A second call of `tw_trigger_gvt_hook_now` replaces the time of the
  first, undoing one call takes back the other's, and a call that comes due at one
  PE resets the trigger of every PE. When LPs of two KPs or PEs call, a call
  can thus be lost: with `h10` on a KP of its own and `b2` as a second caller
  `CallsHonoured` fails. Callers on one KP, as in `phold-gvt-hook`, are safe, since their
  calls are made in order and undone in the reverse order; this is what
  `gvt_hook` checks.

- `tw-eventq.h:115`: fossil collection unlinks an event whose Isend has not been
  reported complete; `send_finish` later puts its buffer in the sent event queue,
  where no link leads to it and nothing frees it. `TimeWarp` does the same; no
  property forbids it.
- `tw-setup.c:195`: `map_linear` numbers the LPs from `g_tw_mynode * g_tw_nlp`, so
  ranks with different numbers of LPs give the same number to two LPs, although
  `tw-setup.c:269` says "We can't assume that every model uses equivalent values
  for g_tw_nlp across PEs".
- `tw-setup.c:250`: `map_round_robin` allocates a KP for every LP, and
  `tw_kp_onpe` refuses one that exists: the mapping works only when there are
  exactly as many KPs as LPs on a rank (with more, `late_sanity_check` stops).
- `tw-setup.c:174`: the number of KPs that `--nkp=0` is adjusted to is
  overwritten with zero again at line 283; the mapping then ends in an error.
- `gvt/mpi_allreduce.c:556`: under the debug scheduler
  `tw_trigger_gvt_hook_now` returns early and `tw_trigger_gvt_hook_now_rev` does
  not, so `triggered_gvt_hook` is decremented below its start. `Restored`
  leaves it out there; only the rollback check reads it.
- `tw-sched.c:1173`: the rollback check does not save the critical path in the
  event as the other loops do, so that `tw_event_rollback` sets that of the LP to
  the event's. It is a statistic.
- `crv-state.c:142`: only the first stream of an LP is compared; a model with
  `g_tw_nRNG_per_lp` above one is checked in part.
- `tw-sched.c:1128`: the two copies are allocated before
  `crv_init_checkpoints` tells how large a custom checkpoint is.

## 5. Theorems

Every theorem holds for all values of the constants that satisfy the ASSUMEs of
its module. An implication `Spec /\ []C => ...` or `C => (Spec => ...)` names a
condition `C` that is not an ASSUME; each is discussed below. Every theorem with a
run's property in it has been checked by that run first, and so have the
inductive invariants, as far as TLC can evaluate them.

| Module | Theorem | Statement |
|---|---|---|
| `TimeWarp` | `TypeCorrect` | `Spec => []TypeOK` |
| | `WhiteCountCorrect` | `Spec => []QuietNetwork` |
| | `CausalityHolds` | `Spec => []Causality` |
| | `GvtLowerBound` | `Spec => []GvtIsLowerBound` |
| | `GvtNeverDecreases` | `Spec => GvtMonotone` |
| | `ImplementsSimulation` | `Spec => IsSimulation` |
| | `AntiMessagesFind` | `Spec => []AntiFindsEvent` |
| | `BuffersStaySafe` | `Spec => []BuffersSafe` |
| | `CancelNeverFails` | `Spec => []OwnersKnown` |
| | `CommitsAreCaused` | `Spec => []CommitsCaused` |
| `Conservative` | `NothingLate` | `Spec /\ []Drained => []NeverLate` |
| | `NoErrorExit` | `Spec /\ []Drained => []NoPastEvent` |
| | `ConservativeSimulates` | `Spec /\ []Drained => IsSimulation` |
| | `RoomSuffices` | `Room => (Spec => []NeverLate /\ IsSimulation)` |
| `SchedBatch` | `BuffersConserved` | `Spec => []PoolConserved` |
| | `SentStaysCaused` | `Spec => []SentIsCaused` |
| | `ListsStayInOrder` | `Spec => []InOrder` |
| | `ReversesMatchHandlers` | `Spec /\ []NoSuspendLeft => []HandlersPaired` |
| | `PairedWithoutSuspend` | `NeverSuspends => (Spec => []HandlersPaired)` |
| `GvtHook` | `HookComesOnTime` | `Spec => HookOnTime` |
| | `EveryCallHonoured` | `OneCaller => (Spec => CallsHonoured)` |
| | `NoSpuriousCall` | `OneCaller => (Spec => NotSpurious)` |
| `EventMemory` | `EachBufferInOnePlace` | `Spec => []EachInOnePlace` |
| | `PointersImplementLists` | `Spec => ImplementsLists` |
| | `BlocksPartitioned` | `Spec => []Partition` |
| | `OnlyProcessedCarry` | `Spec => []CarriedByProcessed` |
| | `UndoRestores` | `Spec => []RestoresState` |
| `Rng` | `ProductsFit` | `MultModM(x, y, m) = (x * y) % m`, for `-m < x, y < m` and `H < m < 2 H^2` |
| | `DrawTakenBack` | `rng_gen_reverse_val(rng_gen_val(g)) = g`, for every state `g` of a stream |
| `RollbackCheck` | `EveryLpFound` | `Spec /\ [](Sane /\ EqualLps) => []LpsFound` |
| | `NoneBlamed` | `Spec /\ [](Sane /\ ProgramHere) => []NoFalseAlarm` |
| | `RollbackRestores` | `Spec /\ [](Sane /\ ProgramHere) => []Restored` |
| `Instrument` | `SamplesInOrder` | `Spec /\ []SamplesHere => []SamplesKept` |

### The optimistic scheduler

`TimeWarpAssumption` and `EventAssumption` say: finitely many PEs, any number of
events and KPs, signatures below the end, a KP on one PE, an event sent by the
PE that executed its parent and to a later signature. The last is a condition on
models: with `ross-types.h:520` an event sent with offset zero and a smaller
priority number would precede its parent.

No invariant here is inductive. `NetworkInv` adds to the types
`PhaseInv` (where PEs are relative to the Allreduces, when `hand` and `rb` are
in use), `BufferInv` (which owner, list and flags of a sender's buffer go
together, and which of its two messages can exist) and `WhiteInv` (messages in
the network are counted as sent and not as received, up to PEs which have not
yet reset their counters). From it, equal counts mean an empty network
(`WhiteZero`), hence `WhiteCountCorrect`. `KernelInv` adds that the list of each
KP is sorted, without repetition and exactly the processed events, that
nothing in `pq` or under rollback precedes its head, and what `hand` and `rb`
hold; it gives `CausalityHolds`. `GvtInv` says that the GVT of every PE is a
`Floor`: it precedes everything active, and `FloorStep` shows that a floor stays
one, because events are sent to later signatures and cancels reach only later
ones. That the minimum computed by the second Allreduce is a floor follows from
the empty network and from `trans_msg_sig` covering what has arrived since the
queues were drained (`TransOK`).

`CommitInv` says that the GVT of a PE separates what it has committed from what
it may still roll back. The lower bound keeps it so when an event is executed,
the order of the list when the GVT advances. Hence a commit never precedes an
earlier one of its KP, and every step maps to a step of `Simulation` or to a
stutter.

`SentInv` and `LifeInv` follow one event from its send to its end. While a cancel
can still be sent for it, it is on its way or in the hash table and live
(`Found`); once a cancel has reached it, nothing is left that could cancel it
again. What excludes the dangerous case, an event committed while its
anti-message is under way, is the lower bound of GVT. `OwnersKnown` says that
`event_cancel`, `tw_net_cancel`, `tw_sched_cancel_q` and the loop of
`tw_kp_rollback_event` always find one of the cases they know, so that their
four `tw_error`s cannot be reached; no run has it as a property. `CauseInv`
adds that what exists is linked from an execution that stands, or that
execution is committed, or a cancel is under way. PEs adopt a GVT one after
another, so that an event may be committed while its parent at another PE is
not yet: such a parent is in its list, linked to it and below the new GVT.

### The conservative scheduler

`Drained` says that no event waits in `outq` when the GVT is computed. Finding
2 is exactly its failure: `cons_full` shows a late event with one send buffer
too few. So the theorems are about everything else, and `RoomSuffices`
discharges the condition from a property of the constants: `Room`, a place in
`posted_sends` for every event that a PE sends to others. It holds in
`cons_ample` and fails by one in `cons_full`. `LookaheadAssumption` is what
`g_tw_lookahead` asks of models.

The invariant has GVT and GVT + lookahead separate the events: what is done is
below the latter, what has still to be sent or to arrive is not, and
nothing in `pq` is below the former. A new GVT keeps this as nothing is
between PEs while it is computed. An event not yet sent has an ancestor in
some `pq`, found by descending along `Parent` (`Unborn`), so it too is at least
the lookahead behind the new GVT.

### One PE with its pool and suspended LPs

`BatchAssumption` asks for finitely many events with signatures before the end,
each sent by one with a smaller signature, for LPs on one KP each and for at least
one read buffer, with a pool that holds at least the receives and the first events;
which handlers suspend their LP and `OrigRc` are arbitrary. `Inv` has the list of each KP
hold its processed events once each, what was sent linked to an execution in
the list or about to be cancelled (`SentOK`), and nothing to cancel or in hand when
the batch starts (`PhaseOK`); an event in `pq` has then sent nothing, which is why
executing it sends every event at most once. This holds even after an abort,
though `last_sig` is then wrong (finding 1). `OrderInv` adds, until an abort, that
the list is in order, that `last_sig` is that of its head and that nothing in
`pq` precedes it.

`NoSuspendLeft` says that no event that suspended its LP is committed before it is
undone. Finding 4 is its failure: a comment promises that the kernel stops there, and
it does not. While it holds, the event that suspended an LP is in the list of its KP, and
exactly what is above it for that LP was skipped (`PairOK`), which is what
`tw_event_rollback` tests. It holds in the instance of `batch`.

### The GVT hook

`HookComesOnTime` needs one fact beyond the order of events: no PE executes an
event at or past the time set (`TimeOK`). For hooks that models call for,
`sig_at` is one variable per PE, and section 4 shows that callers on two KPs can
lose a call. `OneCaller` is the condition under which they cannot: the callers are
on one KP, as in `phold-gvt-hook`. The events of a KP are executed and undone in
order (`OrderOK`), so at most one request is open and `sig_at` is its time
(`CalledOK`). What a rollback undoes is the least set closed under the two
rules of the model (`UndoneIs`).

### The event lists

`IsQueue` says that `next`, `prev`, head, tail and size of a queue all describe one
sequence, and `Elsewhere` that an operation leaves the pointers of other events
alone. For each operation of `tw-eventq.h` there is a lemma with the two: what
sequence the queue holds after it, given the one before. The two hard cases are
`tw_eventq_push_list`, where the walk over the list just joined (`Linked`) frees
what its events had sent onto the head of the same queue (`FreeSentIs`), and fossil
collection, where the walk from the tail has to stop at the event before the old
ones (`OvershootIs`, `FossilIs`).

`ListInv` says that the three queues and what is left of a popped `event_q` are such
sequences, without repetition and apart, that an event is on one exactly if its
`owner` is that one, and that what a processed event had sent is kept by no list
and sent by no other event (`Causes`): otherwise freeing it would put a buffer on
`free_q` twice. It quantifies over sequences, so TLC checks `EachInOnePlace`, its main
consequence, in its place. `EventQProofs` has that each action keeps it and is one of
`EventLists` or leaves the lists alone.

### The buddy allocator and what events carry

These three theorems hold for any number of buffers, any `MaxOrder`, any number of
byte values and output buffers, and any programs. Of the constants they assume
what `MemoryAssumption` says: a program leaves the state a byte, and asks for a
block of an order that exists or for none; `Null` is no block.

A block (`Blocks`) is an offset and an order, the offset a multiple of the block's
size. What the arithmetic of offsets has to give is in a few lemmas: a block and its
buddy are the halves of one block of the next order (`BuddyIs`, `HalvesAre`), so that a
partition stays one when a block is replaced by its halves or they by it
(`Splits`, `Unites`), and where the buddy of a block lies some block of the partition
begins that is no larger (`BuddyStarts`). The last is why the header test of `buddy_try_merge` is enough: it
reads the header at the buddy's offset, and a header that says free and of this size
belongs to a free block (`MergeStep`), never to something inside a block.

`BuddyInv` says of a table that the buckets hold the blocks of a set `F`, each once,
with their counts (`IsTable`); that `F` and the blocks in use, `H`, partition the
arena; that headers say which is which; and that no two blocks of `F` are buddies.
`buddy_free` and `buddy_alloc` keep it (`BlockGiven`, `BlockGot`), each by an
invariant of its loop: while merging, only the block at hand may have a free buddy;
while splitting, only the two halves just made are buddies, and the last split has
one of them taken. A bucket that is empty cannot hold a buddy, which is why
`buddy_free` need not look for one there.

`MemoryInv` joins this to the lists. With `p` for `pevent_q`: only events of `p` hold
blocks, each its own, and these are the blocks in use (`Deltas`); only they hold
lines, and lines held and buffers left add up to `NumOut` (`Lines`); and the
state before each event is the one after it minus what its block holds, as bytes
(`Undoes`). The last is about the whole list, as only then a rollback of the head
leaves it true of the rest. That other blocks keep their contents when one is given
back and cleared, or written, is the partition again (`KeptApart`). Fossil
collection walks each old event followed by what it sent (`WalkOf`); that
no event comes up twice follows from `Causes`. Like `ListInv` it quantifies over
sequences, so TLC checks its consequences.

### The random numbers

`RngAssumption` is what the code's constants satisfy: `M[j] % A[j] < M[j] \div A[j]`
is L'Ecuyer's condition for a product by `A[j]` without overflow, and 2^15 is `H`
for moduli just below 2^31. `ProductsFit` covers `MultModM` for any two factors: its
partial products, which `Shift` and `AddMul` compute by L'Ecuyer's decomposition, keep
each 32 bit variable within `Int32`, and each quotient `k` is small enough
(`Quotients`) for its correction to fit. `InverseAssumption`
says that `FindB` found the inverse of `A[j]`, as the moduli are prime; TLC evaluates it
for the small moduli, and it holds for the four pairs of `rand-clcg4.c`. With it
`DrawTakenBack` is modular arithmetic, once `Draw` and its counterpart
have shown that neither direction overflows.

### The program: set-up and debugging schedulers

The options and the model's calls are an input, the record `conf`, which a job of
RIO may replace by that of the next job; so the conditions on it are state
predicates that hold throughout. `Sane` gives its fields their types.
`EqualLps` is the comment "ASSUMPTION: g_tw_nlp is the same on each rank" of
`tw-setup.c:242`. `ProgramHere` says that a debugging scheduler runs a program with at
least one LP, stream and core stream and without RIO's buffers; the last is
needed: finding 3 is a false alarm with them.

`SetupInv` says that a rank past its mapping has exactly the tables of
`Tables`, and what the checks of `tw_run` establish. `EveryLpFound` is then
arithmetic of quotients and remainders: which KP and which place `map_linear`,
`map_round_robin` and the analysis LPs assign, against what `tw_getlocal_lp`
and the map of an event's destination compute.

The main lemma of the schedulers is `Undone`: `Effects` says all that an event's
execution changes (its LP's state, two draws, a draw of the core stream for each
`tw_event_new`, the events sent or counted in `aborted_total`, the buffers, the
hook), and `tw_event_rollback` in any state that agrees with the one it left
takes back just that. It needs `DrawTakenBack`, that each event in `pq` has a tie-breaker
drawn before (`Fresh`), so that the events a new execution sends are new,
and as many draws taken back as were made.

`CheckInv` has the loop of the check scheduler hold, after each pass, the execution
of the event in `plain`, the same undone up to the GVT signature, and the same again;
`NoneBlamed` and the first half of `RollbackRestores` follow. For the debug
scheduler `DebugInv` needs the whole past: there is a `History` of states whose
steps are the entries of `pevent_q`, and `plain` is the one (`Kept`) before
the first event at or behind `g_tw_rollback_time`. Executions make the history longer
and rollbacks shorter; that the events before the time are executed first
follows from the order of `pq` and from sends into the future. At the end the
history is as long as its kept part.

The functions of these modules that walk over LPs, or draw in a loop, are
recursive. The provers know nothing of such a function, not even that it exists.
`UpTo` is induction over the indices of a loop, by a least counterexample;
`Recursion` shows with it that a function with the recursive equations exists,
and `SameRecursion` that there is but one. The loops over event lists are proved
about in the same way.

### The samples of an analysis LP

`SamplesHere` says that a job with instrumentation has more than one place for
samples. The code asks no such thing of `g_st_sample_count` (65536 by default), but
with one place `analysis_init` links it to a second that was not allocated
(`analysis-lp.c:65`). `SamplesInv` says that there is an order `o` of the places
which `next` and `prev` follow, and that the first places in it hold the samples
that may still be undone. A sample taken keeps the order; one undone or
committed rotates it (`Rotated`), and `MovedToTail` shows that the pointer operations do
just that, whichever place but the last is moved. `AlongIs` is the recursion of
the walks. A search that starts where the wanted time stamp is ends there
(`FoundFirst`): at the place before the current one for a rollback, at the head
for a commit. Fossil collection commits in a loop, whose invariant is
`Collecting`. Like `ListInv` it quantifies over sequences.

### Only model-checked

- Liveness: `Termination`, `Stops`, `Completes` and `HookComes`. Fairness and
  ENABLED are beyond the prover.
- `SplayQueue`, `AvlTree`, `HashQuadratic` and `PendingSet`, with `IsPriorityQueue`:
  their properties are about what definitions that recurse over trees and tables
  compute, and the prover has no induction over data.
- `StreamsApart`: where a stream starts is a power of the multiplier modulo `M`; the
  laws of powers are inductions, and the library has no powers to state them of.
- `Recovered` and `FilesWhole`: functions that walk over the events of a job and the
  ranks that write a file; the induction over the indices of one loop, as above,
  would have to be made for each of them.

## 6. Not modelled

- Pure input and output: options, statistics and their printing, error texts,
  the text file of RIO, the layout of records in files; Damaris and the
  sequential output path of the instrumentation; real time and clocks.
- LZ4, of which only the size of the result matters, and the contents of LP states
  and messages beyond what a property tells apart.
- `tw_scheduler_optimistic_realtime`, which differs from the optimistic loop in
  the clock that starts a GVT computation.
- `tw_eventq_splice` (no caller) and freeing a buddy block twice.
- The check "GVT computed ... times in a row without changing" of
  `tw_gvt_step2`: the previous GVT it compares with is never updated.
- Of the GVT hook `tw_scheduler_rollback_and_cancel_events_pe`; of the set-up custom
  mappings and LP types; of the rollback check custom checkpointers and the
  critical path; of the random numbers all distributions but `tw_rand_integer`; of
  RIO appending jobs (explicit offsets, files of several jobs) and several LP types;
  of the instrumentation the callbacks of a model and the data they return.
- The modules for suspended LPs, the GVT hook, RIO and the instrumentation are
  each checked with the part of the scheduler they depend on, not all together.

## 7. Plan

1. `Conservative` with a bound on `posted_sends` that is weaker than `Room`: what may
   be under way between two computations of the GVT, not in the whole run.
2. Theorems about where ranks write: disjoint places of a file in `Rio` and
   `Instrument`, given the result of the Exscan; `StreamsApart` with powers as a
   recursive function.
3. Custom mappings and checkpointers as choices of `conf`.
