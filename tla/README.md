# Tsuzuri: TLA+ models of the tzroutine runtime

Tsuzuri is a functional language with ownership. Its repository holds a compiler
in Rust (`src/*.rs`), a runtime in C and LLVM IR (`src/runtime`) and a standard
library. Almost everything that is hard to test is in one file,
`src/runtime/tzroutine.c`: an M:N scheduler with channels, `select`, locks, timers,
contexts and a network poller, used at once by many threads. This project models
its core. All line numbers below are lines of that file unless another is named.

## 1. Inventory

| Part | State | Operations | Interacts with |
|---|---|---|---|
| Scheduler (830–2107) | run queues of the Ps, global queue, idle lists, spinning and locked counts, status of Gs, Ms and Ps | spawn, park, ready, yield, exit; findrunnable, steal, wakep, startm, stopm; blocking calls, handoff; thread locking; deadlock detector | everything that parks or readies a G; sysmon |
| Sysmon and preemption (1140–1176, 2109–2765) | request flags, pending count, syscall ticks | retake, ask, cooperative check, asynchronous stop | scheduler, generated safepoints |
| Parking lot (2809–2887) | hashed buckets of waiters | addr_wait, addr_wake | scheduler; all of `Sync` |
| Mutex, RwMutex, Once, WaitGroup, Semaphore, Cond (2994–3030, 3175–3394) | one word each, the list of locks a G holds | lock, unlock, begin, end, add, wait, acquire, release, signal | parking lot; traps that unwind a critical section; generated code in `llvm_wait.rs` |
| Channels and select (3396–3625, 4935–5190) | ring, wait queues, closed flag; sudogs of a G | send, recv, close, try forms, select | scheduler |
| Data channels (3032–3173) | ring, counts of handles, wait lists | send, recv, clone, close | scheduler |
| Timers (3627–4134) | heap, state of each timer | sleep, arm, stop, reset, free; timer thread | channels, contexts, network poller |
| Network poller (4136–4595) | poll records, waits | wait, post, close, deadline | kernel queues, timers |
| Contexts (4637–4933) | tree, reference counts, after-functions | cancel, expire, share, release | timers, channels |
| Scopes and Parallel (1880–1946, 2889–2981) | live count, waiter, item counter | enter, wait, leave, run | scheduler |
| Futex lock and note (408–479) | one word | acquire, release, sleep, wake | everything |
| WebAssembly variants (`tzroutine-jspi.h`, `task-wasm-threads.c`) | JavaScript's queue; groups, epoch, blocked counts | suspend, resume; submit, claim, join, verdict | host |
| Small-object allocator (`heap-small.c`) | thread caches, central stacks | alloc, free, refill, flush | all threads |
| Build cache, server, frontend stages (`cache.rs`, `frontend_cache.rs`, `server.rs`, `resident.rs`, `parallel.rs`) | entries and lock files; request queue; board of chunks | store, load, touch, evict; accept, run, shutdown; publish, take | other processes, clients |
| Lexer to code generation, tools, host and device libraries | syntax trees, text | sequential passes, I/O | — |

What is hard here: a wake-up that passes the sleeper it is for (every wait of the
runtime is a check followed by a sleep); a wait that ends in two ways at once, by
a partner, by a close or by the deadlock detector; a P that two threads take; counts
changed on many paths (spinning Ms, locked Ms, waiting writers); Gs that are readied
before they have left their stack; numeric edges of the WaitGroup's word.
`PROJECT.json` lists the hazards, each at the line where it bites.

## 2. Modules

A critical section of a lock is one step. Every load, compare-exchange, exchange
and fetch of a shared word is a step of its own. Memory is sequentially
consistent: the models say nothing of the order arguments of the atomics. A
weak compare-exchange that fails without reason returns to the load before it,
where the process was a step earlier, so it is not a step of its own.

A process is a tzroutine (`Gs`) or a host thread that uses the runtime through
a "pseudo-G" (`Threads`). The difference matters in one place. When nothing can
run, the detector *dooms* the waiting host threads: their wait returns an error.
If there is none, it traps (`trapped`), and the behaviour stutters (`Over`).

| Module | Code | Content |
|---|---|---|
| `ParkingLot` | 2809–2887, 1105–1138 | One bucket that all addresses of the model hash to; `Park`, `WakeOne`, `WakeAll`, `Unpark`, and the detector as `CheckDead`. Extended by the next four. |
| `Mutex` | 3185–3239, 3309–3322 | Lock word 0/1/2, held list, fast path, spinning, exchange, wait; unlock and its wake; the trap that releases what the list holds. |
| `RwMutex` | 3241–3304 | The word as readers, waiting writers, writer. Calls repeat for ever. `Blockers` may wait elsewhere with the lock, which is how a deadlock arises. |
| `SyncObject` | 3014–3030, 3333–3350, 3369–3394 | Once, WaitGroup and Semaphore are one word with an atomic update and a wait; `kind` says which of them the behaviour uses. Counters are words of `2 * Half` values and wrap. |
| `Cond` | 3352–3367, `llvm_wait.rs` 423–460 | Composition with `Mutex`: the loop that the compiler generates around the runtime's `cond_wait`, and a producer that signals after its unlock. |
| `Channel` | 3400–3611, 4938–5147 | Ring, wait queues of sudogs, plain and non-blocking operations, close, `select` in its three passes. A G readied after the channel's unlock is a step (`Ready`). `hist` records what was accepted and delivered. |
| `FifoChannel` | — | What a channel promises: items leave in the order they entered, once, at most `Capacity` in between, none enters after the close. |
| `Scheduler` | 830–1345, 1487–2107, 2594–2688 | Ms, Ps and queues; see below. |
| `MutexProofs` | — | Theorems about `Mutex`. |
| `MC*` | — | Constants for TLC. |

In `Scheduler` each thread has a program counter, `pc`, and a return point, `ret`,
for the routines that several others call (`wakep`, `startm`, `handoffp`). The
ring, `runnext` and the global queue are sequences; one access to a queue is one
step, so the lock-free protocol inside the ring is below this model. A steal is
shown in its last round, where `runnext` may be taken. Time is absent: sysmon may
retake a P that is in a call, and ask a G to yield, whenever the code's other
conditions hold.

Operators named as a "variant with a bug" are not part of any specification.
Each is a mistake one could make in the code, and replacing the definition after
it with the variant makes TLC find a violation of the property it belongs to.

## 3. Runs

Each run is a `.cfg`; properties are commented where they are defined.

| Run | Instance | Shows |
|---|---|---|
| `channel` | 1 tzroutine, 2 threads, ring of 2, 2–3 calls each | What calls report is what happened; the ring holds the backlog in order; the channel implements `FifoChannel`. The calls fill the ring, wrap it and close it with waiters. |
| `channel_select` | 1 tzroutine, 2 threads, an unbuffered channel and one of 1, selects of two cases | Queues hold exactly those who wait; no returned call is left in one; nobody waits for a match that is there; nobody is readied twice. Completed waits return, and a state where all sleep is reported. |
| `mutex` | 2 tzroutines, 1 thread, 2 mutexes in one bucket, nesting, traps | Exclusion, no wait for one's own lock, no stale waiter, no lost wake-up. A lock call returns, unless its caller is in a circle of waiters while somebody else runs (the detector, which needs everybody asleep, cannot see it then). |
| `rwmutex` | 2 readers, 2 writers, no bound on calls | The word counts holders and waiters; a release wakes whom it admits; some waiting writer gets in. |
| `rwmutex_give_up` | one writer that gives up | Finding 1. |
| `sync_object` | 3 processes, words of 3 bits, capacity 2 | The Once's function starts once and "done" means done; the counter is right until an add reports that it left its range; weight is conserved; nobody sleeps on an object that would serve them. |
| `cond` | 3 processes that consume and produce | No signal falls between release and wait; the predicate is asked under the lock. |
| `scheduler` | 2 Gs, 3 Ms, 2 Ps, 1 thread, 4 operations | With an idle P, queued work is being looked for; the spinning count is exact; deadlocks are found. |
| `scheduler_calls` | the same with blocking calls and locked Gs, 3 operations | A P has one owner, a G is in one place, the detector neither misses a deadlock nor takes a call for one. |
| `scheduler_live` | 1 P, 2 Ms, calls | A handoff leaves no work behind; an M back from its call gets a P. |
| `scheduler_runm` | the instance of calls | Finding 2. |
| `scheduler_idle_p` | 3 Gs, one makes calls | Finding 3. |

*Bounds.* `MaxOps` and `MaxCalls` bound the calls of the program, not the steps of
the runtime. Two contenders and a third process that interferes are what each race
in the hazard list needs. Three Ms and two Ps allow one running, one spinning and
one going to sleep. Words of three bits let the WaitGroup wrap in both directions.
In the scheduler runs the local ring never fills, since that takes four Gs.

*Symmetry* is used in the scheduler's safety runs only, over Gs, Ms and Ps, where
the constants treat them alike.

*Fairness.* Weak fairness is assumed of the steps inside a runtime call, which the
operating system's scheduling justifies, of the detector, which the code runs
whenever a thread goes to sleep, and, in `Mutex` and `RwMutex`, of the end of
critical sections, since a lock held for ever makes no promise. In `Scheduler` it
is assumed of the runtime's threads and of sysmon, which runs on a period. It is
not assumed of what a program does: Gs may run for ever and a blocking call may
never return.

## 4. Findings

1. `AdmittedWaitersAreWoken`: a doomed writer withdraws from the waiting writers
   (3292) without a wake. Readers that only it kept out stay parked. The comment
   at 3244 says that every change that can let a waiter in wakes them all.
2. `RunmIsTrue`: `exitsyscall` may take back a P which in the meantime was retaken,
   given to another M and brought into a call by it. `p->runm` then names that
   other M, against the comment at 673.
3. `IdlePTakesQueue`: a G readied on a local queue while sysmon holds a P that is
   not listed yet wakes nobody. `handoffp` looks again at the global queue only
   (1981). The running G, once preempted to the global queue, waits there with a P
   idle, and `preempt_scan` (2677) does not ask for it because a P is idle.

## 5. Proofs

`MutexProofs` proves for any sets of tzroutines, threads and mutexes and any
`MaxOps`, from `ParkingLotAssumption` (the sets are disjoint) and
`MutexAssumption` alone:

* `TypeCorrect`: `Spec => []TypeOK`.
* `Exclusion`: `Spec => [](MutualExclusion /\ NoSelfWait)`. Mutual exclusion is not
  inductive: an unlock removes one entry of the held list and frees the word, so
  two entries of one mutex would leave a holder of a free lock. `LockSafe` adds
  `HeldOnce`, that a list names a mutex once. The word is nonzero exactly while
  somebody holds it, so an exchange that returns 0 finds no holder.
* `Wakeups`: `Spec => [](NoDanglingWaiter /\ NoLostWakeup)`. The two belong together
  (`WaitSafe`): a waker brings help only if the entry it takes from the bucket is
  a live sleeper, and a sleeper is helped only while its entry is there. `Sleeper(a)`
  says that somebody sleeps on `a`; `Brought(a)` that the word is 2, or that a
  waker or a contender is on its way. Each action keeps `Sleeper => Brought`: an
  unlock turns a 2 into a waker, the waker turns a sleeper into a contender, and
  a contender leaves a 2 when it takes the lock.

Only model-checked: liveness, which the prover does not treat, all other
modules, and the refinement of `FifoChannel`.

## 6. Not modelled, and the plan

Not modelled: allocation of Gs and stacks, the context switch, memory order, the
wording of reports; and the parts in `PROJECT.json` with that status. Sequential
passes of the compiler are left out because they have no interleavings, and their
correctness is about a language semantics.

Next modules, in order:

1. `RunQueue`: the lock-free ring with owner and thieves; it must implement the
   queue that `Scheduler` assumes. Overflow to the global queue included.
2. `SelectOrder`: the heap sort and the lock order of `select`, as operators
   checked against a sorted permutation, and two selects that lock.
3. `Timers`, then `Context`: fire against stop, reset and free; the tree and its
   reference counts.
4. `Preempt`: the pending count and sysmon's parking.
5. `DataChannel`, `Scope`, `Parallel`, `NetWait`.
6. `WasmPool` (`task-wasm-threads.c`), `SmallHeap` (`heap-small.c`), `BuildCache`
   (`cache.rs`), `Server` (`server.rs`), `OrderedStage` (`parallel.rs`).

Compositions: `Channel` with `Timers` (timer channels), `Context` with `Timers`.
Abstract specifications: a bag of Gs for `RunQueue`, a lock for `Mutex`, an ordered
stream for `OrderedStage`. Bounds: two or three actors and two to four calls each.

Theorems planned: `CounterIsTrue`, `WeightIsConserved` and `RunsOnceBeforeDone` of
`SyncObject`, `WordCountsHolders` of `RwMutex`, `TypeOK` and `RingHoldsBacklog` of
`Channel`, the pending count of `Preempt`, and that `RunQueue` loses no G.
