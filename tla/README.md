# Verification of the university-coursework programs

This directory holds TLA+ models of the concurrent C programs of this
repository, the TLC configurations that check them on small instances, and
TLAPS proofs that extend the most important results to every instance.  Every
definition is translated from the source; `PROJECT.json` gives, under `map`, the
file and lines each definition stands for.

The repository is a collection of course projects that do not call each other:

| group | directory | what it is |
|---|---|---|
| A | `src/Operating Systems/Threaded Web Server` | a web server with dispatcher and worker threads, a request queue and a file cache |
| B | `src/Operating Systems/Memory Pool` | a chunk allocator and two programs whose SIGALRM handler receives packets into its chunks |
| C | `src/Operating Systems/Tabbed Webkit Browser` | a browser of several processes that talk through pipes to a router |
| D | `src/Parallel Computing` | merge sort, longest common subsequence, sparse matrix product, radix sort, with pthreads, OpenMP, MPI and CUDA |
| E | `src/Scheme` | exercises on lists, streams and games in Scheme and Python |

## 1. Inventory

### A. Threaded web server

| component | state | operations | who calls it |
|---|---|---|---|
| ring queue, `queue.c:1-142` | `queue_t`: `items`, `capacity`, `size`, `head`, `tail` | enqueue, dequeue, requeue (move the first occurrence to the tail), search with a callback, isempty, isfull | the two queues below; it has no lock of its own |
| producer-consumer queue, `queue.c:145-254` | a `queue_t`, a mutex, condition variables `full_cv` and `empty_cv`, the flag `consume_all` | produce and consume (block), consume_all (close) | dispatchers produce, workers consume, the SIGINT handler closes |
| rwlock queue and file cache, `queue.c:256-337`, `cache.c` | a `queue_t` under a rwlock, heap-allocated entries (file name, data, size) | get_cache (search, in LRU mode then rewrite), put_cache (write; while the queue is full read and free, then write again) | workers |
| dispatchers, workers, shutdown, `server.c` | two thread pools, the request of each worker, the configuration | accept and read a request, produce it; consume, load, answer, free; `finish` on SIGINT | the operating system, clients |
| socket helpers, `util.c` | the descriptor table of the process | accept_connection, get_request, get_file_data, return_result, return_error, which close descriptors twice | dispatchers and workers |
| prefetcher, `server.c:203-268` | a second producer-consumer queue | consume, guess the next file (`nextguess`), load it into the cache | workers produce for it |
| log and statistics, `log.c` | a log file, a mutex and a counter | write a line | workers |
| `server2.c` | | an earlier `server.c` | nobody: the makefile does not build it |

Interactions: dispatchers and workers share nothing but the request queue and the
descriptor table.  Workers share the cache.  The SIGINT handler runs on top of
whatever thread the signal interrupts, and takes the mutex of the request queue.

Hard behaviours and what makes each part correct:

* *ring queue*: three indices that different operations move, a wrap-around, a
  search loop that tests a slot number rather than a count.  Correct when it
  is a bounded list: order, requeue and search results.
* *producer-consumer queue*: one signal per item with several sleepers, wakeups
  that another thread overtakes, spurious wakeups, an exit path and a closing
  call that keep the mutex.  Correct when it is a bounded FIFO channel with no
  lost wakeup, and when closing it drains it and ends the consumers.
* *file cache*: the lock is released between the search and the rewrite, and
  between the failed write and the eviction; data is used after the lock is
  gone.  Correct when an entry has one owner, eviction takes the oldest or the
  least recently used, nothing freed is listed, used or freed again, threads that put
  cannot keep each other from it, and what is full when it is found full has an entry to evict.
* *server threads*: descriptor numbers are reused by the system as soon as they
  are closed, and `return_result` closes twice; early returns skip a close or a
  free.  Correct when every open descriptor has somebody who will close it,
  every accepted request is answered, to the client that sent it.
* *prefetcher*: `nextguess` is a dummy that fails (`util.c:152-155`), so it only
  frees what it consumes.

### B. Memory pool

| component | state | operations |
|---|---|---|
| memory manager, `mm_public.c` | `blocks`, `allocated[]`, `last_allocated` | mm_init, mm_get (next fit, -1 when full), mm_put, mm_release |
| packet assembly, `packet_public.c` | one `message_t`, `pkt_cnt`, `pkt_total`, a pool | the SIGALRM handler stores a packet in a chunk; main pauses until all have come, stops the timer, assembles the message |
| packet assembly of several messages, `packet_extra.c` | `g_messages[]`, `g_has_more`, a pool | the same with several messages, which main looks through between pauses |
| benchmarks, `main_malloc.c`, `main_mm.c`, `timer.c` | | time the two allocators |

Hard behaviours: the handler comes between any two steps of main; a packet that
comes between the test and `pause()` wakes nobody; the timer that is to be
stopped is armed once more; the disposition of the signal changes around each
critical part.  Correct when each message is output once and whole, chunks have
one owner, and the program ends.

### C. Tabbed browser

| component | state | operations |
|---|---|---|
| router, `router.c`, `comm_channel.c`, `browser_window.c`, `browser.c` | `channels[]`, `windows[]`, `next_chan`, `next_tab` | poll every channel; CREATE_TAB forks a renderer, NEW_URI_ENTERED is passed to the tab's renderer, TAB_KILLED closes a tab |
| controller, `controller.c` | the tab number entered, bookmarks in shared memory | create a tab, enter a URI, add and show bookmarks |
| renderers, `urlrenderer.c` | the tab it shows | read a message without blocking, render, end on TAB_KILLED |
| wrapper, `wrapper.c` | GTK and WebKit widgets | callbacks; `delete_window_cb` sends TAB_KILLED |

Hard behaviours: several processes and pipes, a killed tab whose number is used
in a message under way, channels that are never reclaimed, writes that block
the router, bookmarks appended by several processes without a lock.  Correct
when a URI reaches the tab that it names and no other, a closed tab is reclaimed
once, and the router goes on serving the others.

### D. Parallel computing

| component | state | operations |
|---|---|---|
| LCS, `HW3` | a matrix in row bands, one queue between neighbouring bands (a copy of `queue.c`), or MPI messages, or OpenMP sections | each band computes block after block once the band above has its block |
| LCS by diagonals, `HW4` | the same matrix by diagonals | `lcs_serial.cu` goes through them in one thread; `lcs_cuda.cu` was to start one kernel per diagonal, but both launches are commented out |
| merge sort, `HW2` | an array in p partitions | sort each, then merge pairs level by level |
| sparse matrix product, `HW5` | a matrix and a vector distributed over ranks | read and distribute, find who needs what, exchange, multiply |
| radix sort simulation, `HW6` | an array of keys in rows | per-digit counts, prefix sums, scatter |

Hard behaviours: a block that is used before it is computed, a queue that is
destroyed and set up again while a neighbour may be inside, exchanges that wait in a
circle, ranks that work out separately who talks to whom, threads that write to one
array, divisions that drop a remainder.  Correct when the result equals the
sequential definition and everybody ends, for every number of threads the program accepts.

### E. Scheme and Python

Exercises that compute with lists, streams and game boards, sequential and without
shared state.  They are not modelled: each is a few lines whose specification would be
the same lines.

`PROJECT.json` lists every component, and under `hazards` each behaviour that is hard
to test, at its line, with the properties that cover it.

## 2. Plan

The modules are written so that they can be proved about as well as checked: no
RECURSIVE operator, constants with named assumptions, one action per call or per
uninterrupted stretch of a thread.  Each program is modelled from its innermost
component outwards, and an abstract specification stands between two layers wherever
the outer one relies on a promise only:

    RingQueue  <- RingMachine  => FifoList
        ^
        +------ ProdCon  => BoundedChannel  <- WebServer
        +------ Cache    => EvictionList
                  ^
                  +------ CacheRetries
    MemoryPool <- Packets
         ^
         +------- PacketPublic
    Browser
    Lcs            (its queues are bounded channels, as ProdCon has shown)
    SparseMatrix
    MergeSort

(`<-` uses, `=>` implements.)  All of these are written, with proofs about RingMachine,
ProdCon and Cache (in `QueueProofs`), WebServer, MergeSort, PacketPublic, Packets, Browser, SparseMatrix and Lcs.  What is left, in order of what
it would add:

1. *Bookmarks* of the browser: several processes that read a count in shared memory, copy and
   increment (`controller.c:105-150`).
2. A signal handler on top of the thread it interrupts, in `ProdCon`, and clients that
   leave, in `WebServer`.

The project keeps to one passing run per component, and as few properties as say everything.
Two rules keep it small: a type invariant or a simple invariant that is proved
for every instance leaves the run, and a disagreement that the text shows plainly is kept
in words (section 6).

## 3. What each module models

An action is a stretch of code that no other thread, process or handler can observe
half done.  Operators whose comment begins with "Slip", and those that bear the name of another
with a suffix, like `Gather_OwnRow`, are never part of a specification: they are the definition
that follows them, or stands nearby, with a plausible mistake, and each property is known to fail when its slip is put in place
of the original (`PROJECT.json`, `mutants`).

**RingQueue** (`queue.c:1-142`).  The fields of `queue_t` as a record, and each operation as
an operator that returns the new queue and the C return value.  `Unset` is a slot
`malloc` gave and nobody has written.  `queue_search` takes the set of items its callback
would accept; `Scanned` is the set of offsets its loop visits, which after a wrap is
more than the list.  **RingMachine** calls the operations in any order, with any item,
duplicates included, as the tests of `queue_test.c` do.  **FifoList** is the list of
`queue.h`.

**ProdCon** (`queue.c:145-254`).  Threads, one mutex, two condition variables.  `pc` is where a
thread is; waiting and being woken are separate from getting the mutex, so another
thread can come between; wakeups may be spurious (at most `MaxSpurious`).
`queue_consume` that returns -1 keeps the mutex, as the code does, and the loop of
`queue_consume_all` holds it too.  **BoundedChannel** is what the callers may rely on.

**Cache** (`cache.c`, `queue.c:256-337`, `server.c:102-157`).  Each operation of the rwlock queue is
one step, and so is each stretch between two of them.  Addresses are reused after
`free`.  What is read through a pointer to freed memory is nondeterministic: the search
callback may say yes or no, and the size read may be -1 or not.  The mode (oldest first or
LRU) is chosen at the start.  **EvictionList** is the list with eviction that `README.txt`
describes, with the entry each user answers from: in LRU mode a hit and the move of its entry
to the new end are one step there, so a cache that answers without moving does not implement it.
The refinement mapping (`Answers`) counts a hit as one once `get_cache` is past `queue_rewrite`; before that
the entry may still be evicted, and the hit becomes a miss.  "Least recently used" therefore means: written, or
moved by a hit, before every other.  In the other mode `OldestHit` may be of any entry, listed or not, because of the first
disagreement of section 6.  **CacheRetries** adds to `Cache` a history variable, the threads whose `queue_write` has
failed since one last succeeded.

**WebServer** (`server.c`, `util.c`).  Dispatchers and workers over `BoundedChannel`, the table of
descriptors, the heap of requests, and the shutdown.  The system gives the lowest free
number.  `return_result` and `return_error` close twice, which is `Send` (with `fclose`) and
`SecondClose`; header and body are written in one step.  `get_request` and the write may fail at any
time.  Caching is off because `server.c:57-61` always leaves it off.

**MemoryPool** and **Packets** (`mm_public.c`, `packet_extra.c`).  The allocator is a
record and four operators; `mm_put` is split, because it marks the chunk as free before it
clears it.  The handler is one step, which can come between any two steps of main while the
signal is enabled.  `busy` and `late` count the ticks that come when main has not been back in
`pause()` since the tick before, or has not been there at all: the period is long compared to the work, and `MaxLate`
says how often that fails.  A tick with no packet left takes a chunk and stores it in
`g_messages[-1]`; the store hits memory nobody uses or ends the program.  `setitimer` at the
end clears the interval only, so the timer expires once more.

**PacketPublic** (`packet_public.c`) is the program with one message: main tests `pkt_cnt` and pauses with no
signal blocked, and assembles after it has called `setitimer`, which leaves the timer armed for one more expiry.
`get_packet` never ends, so a tick that main is late for begins the next message in the same structure.

**Browser** (`router.c`, `controller.c`, `urlrenderer.c`, `comm_channel.c`,
`browser_window.c`, `wrapper.c:222-231`).  A process per tab, two bounded pipes per channel, the
tables of the router, and the channel each process was given at its fork.  The router polls
one channel per step and reaps one child per round.  A fork can fail, which loses the channel and the
tab number; a renderer can crash; a write to a full pipe blocks, and with it the router.
A renderer whose window is closed goes on reading until its own TAB_KILLED has been to
the router and back (`closing`).  The user enters tab numbers within the table only: the code
indexes the table without a range check.

**Lcs** (`HW3`, and `HW4/lcs_serial.cu`).  The input chooses the version.  With threads, one grid and a queue per
band, destroyed and initialised again between the two phases; with MPI, a grid per rank and the rows that are
sent; by diagonals, one thread, and a grid in which cells with the same address are written together.
A cell is a step.  `lcs_length_serial` and `lcs_backtrack_serial` are `lcs_serial.c`, its two loops as functions of
the number of rounds, to which the results are
compared; that what they print is a longest common subsequence is checked against all pairs of subsets.
`lcs_openmp.c` has the same text as `lcs_pthreads.c`.

**SparseMatrix** (`HW5`).  Ranks, ordered messages by sender, receiver and tag, and `MPI_Send` that may or may not
wait for its receiver, chosen at each send.  Rank 0 reads both files and sends out shares; every rank maps its
columns to ranks, all gather the counts (`comm_map`), exchange rows of the vector pair by pair, and multiply.  A failed
assertion ends the job.

**MergeSort** (`HW2`).  The input chooses pthreads, OpenMP or MPI.  A task (sort a part, merge a pair) is
a step, and the copy of its result is another; `merge` and `mergesort` are recursive functions over
sequences of integers.  What `p` does not
divide stays behind, more parts than numbers overflow the stack, and a rank that talks to one that does not exist
takes the job with it.

## 4. Runs

| run | instance | what it shows | why the bounds are enough |
|---|---|---|---|
| `ring_machine` | capacity 3, 3 items | the search shows its callback only slots that were written, and the buffer is a list | 3 slots give every alignment of head, tail and the gap that requeue closes; 3 items allow duplicates; proved for every size |
| `prodcon_safety` | 2 producers, 2 consumers, a closer, 2 slots, 1 spurious wakeup | no item is lost, duplicated or reordered, no wakeup is lost (`NoSleepOver`), each item has one owner, consumers exit on a closed empty queue only | two threads of each kind can overtake each other; both kinds can sleep; the queue wraps; proved for every size |
| `prodcon_progress` | the same threads without closer, 4 items in place of 6 | no deadlock; the queue keeps moving; every item is taken | 4 items fill the queue with two more on their way; threads and items cannot be interchanged in a liveness check, and 6 items are too many states |
| `cache` | 3 workers, 2 entries, 2 files, 5 addresses, both modes | ownership of entries; the NULL of `queue_read` is met only if as many other threads as there are entries are about to write (`FaultsOnlyIfCrowded`); the order of eviction, hits included; the retry loop of `put_cache` is lock-free (`FailsAgainOnlyIfOvertaken`) | workers that miss the same file fill the cache; two entries are the fewest that have an order; one worker more than entries, so that the fault does happen: a thread can find the full cache empty; the four properties are proved for any number of workers and entries |
| `web_server` | 2 dispatchers, 2 workers, 2 clients, 3 descriptors, 1 place | no descriptor is lost, requests are handled | a number can be closed by two threads and reused by a file or a client in between; descriptors run out |
| `web_misdirect` | 1 dispatcher, 2 workers, 3 clients | the disagreement of section 6 | |
| `packets` | 4 messages of 4 packets, 11 chunks, late 6 times | output whole and once, one owner per chunk, a message is left out only if main was late often enough, the loop ends | the numbers of messages and packets are those of `get_packet`; 6 late ticks leave out two messages; 11 chunks are handed out again and again; all but the end of the loop is proved for every pool and any lateness |
| `packet_public` | 3 packets, 8 chunks, late 3 times | what is put out is in order, and whole unless main was late; each packet's chunk keeps what arrived; main is not left asleep | 3 is `get_packet`'s number; 3 late ticks make a second message overwrite the first, and 8 chunks run out in some behaviours only; all but main's not being left asleep is proved for every number of packets |
| `browser` | 2 tabs and the controller, 2 URIs, 3 clicks, pipes of 2, a crash, a failed fork | URIs reach their tabs, TAB_KILLED comes from its tab, pipes are given back when a tab ends and not before, tabs and router end, URIs are read | one click more than there are tabs exhausts both tables; three messages fill a pipe; two tabs suffice to confuse two indices; safety is proved for any number of tabs, clicks and crashes |
| `lcs` | strings of 2 to 5 letters, 1 to 4 bands | threads, ranks and diagonals compute what the serial program does, a longest common subsequence, never all wait for each other, and end; no queue is destroyed under its user | last blocks and bands that are cut; bands of one row; blocks of one column; bands behind the grid; rows too long for their memory; all but that they end is proved for every input and any number of threads, or of ranks none of whose bands begins behind the grid, and so is that they never all wait for each other |
| `sparse_matrix` | 1 to 3 ranks, 2 to 7 rows | no assertion fails but on the size of a share, the product is right, the ranks never all wait for each other (`NobodyStuck`), and all of them end (`RunsToEnd`) | even shares, a last share with slack, refused shares, all places of up to 3 by 3 cells off the diagonal, empty rows, a file that is not sorted; three ranks could wait in a circle; all but `RunsToEnd` is proved for every number of ranks and every matrix |
| `merge_sort` | arrays of 1 to 9 numbers, 1 to 8 parts | tasks of a level touch different numbers, merged parts are sorted and nothing is lost in threads, nobody is stuck and the program dies only where `p` is more than `n` or, in MPI, no power of two, everybody ends | all arrays of up to 4 numbers in up to 2 parts; two and three levels; remainders; numbers of parts that leave one out on the first or the second level.  Eight MPI ranks are left out: 800,000 states that differ in who is first; safety is proved for every array, number of parts and version |

The runs of `ring_machine`, `cache`, `web_server`, `packet_public`, `packets`, `sparse_matrix` and `merge_sort` check no type
invariant: it is a theorem of the `*Proofs` module, for every instance.

`CHECK_DEADLOCK FALSE` stands where the program ends or blocks for ever by its own doing:
after the closing of the queue, after the exit of the server, after the end of the packet
programs and of the merge sorts, after the NULL dereference in the cache, which ends the process, and in the browser when the user does nothing more.  The other runs check deadlock; `Lcs` and
`SparseMatrix` have a step `Over` for a job that has ended, so that only a deadlock stops them.

### Fairness

* `ProgressSpec` of `ProdCon` is the weakest there is: the program as a whole does not stop
  while some thread can move.  Nothing is said about who gets the mutex.
* `WebServer`: every thread that can move does, which the pthreads scheduler
  gives.  In `WebServer` the requests are taken because the channel keeps moving
  (`ChannelKeepsMoving` of `ProdCon`); dispatchers wait for clients, of which nothing is assumed.
* `Cache` states none: that no threads block each other for ever in the loop of `put_cache` follows from
  `FailsAgainOnlyIfOvertaken`, which holds of every step.
* `Packets` and `PacketPublic`: the timer ticks while it is armed, and main runs.  A tick that finds main busy
  is bounded by `MaxLate`, without which main could be late for ever.
* `Browser`: the router and the renderers run their loops.  Nothing is assumed of
  the user.  The liveness properties exempt crashes: a crashed renderer leaves a pipe that
  nobody reads and that the router, which holds its read end itself, never sees broken; when it is full
  the router blocks for ever.
* `Lcs` and `SparseMatrix`: every thread or rank that can move does, and a barrier or a collective call
  returns when all have come.  Neither assumes anything of the buffers of MPI.
* `MergeSort`: the program as a whole does not stop while some thread or rank can move.  That is enough
  because every step is one of finitely many.

## 5. Proofs

All proofs are for every value of the constants that the named assumptions allow.

* **QueueProofs, RingMachine.**  `RingOK` relates `head`, `tail` and `size` and says that the
  live slots are written.  It is inductive, and the lemmas say what each operation does to
  `Contents`, the list from head to tail; requeue is the hard one, because the gap it
  closes may span the end of the array.  From them: types, `IndicesAgree`,
  `SearchReadsWrittenSlots`, and that `RingMachine` implements `FifoList`.
* **QueueProofs, ProdCon.**  `Shape` is the type invariant with `RingOK`; `Mutex` adds that whoever is between lock and
  unlock owns the mutex.  `NoSleepOver` counts: while a consumer sleeps, there are at most
  as many items as consumers awake and coming, and dually for producers with free slots.
  Both halves are inductive with `Shape`; what the proof needs beside them is that a signal
  that finds a sleeper makes exactly one more thread come, whichever it is.
  It follows that producers and consumers are never all
  asleep, that every item has one owner, that consumers exit only when the queue is drained,
  and that the queue implements `BoundedChannel`.
* **QueueProofs, Cache.**  `CacheShape`; then `EntryOwnedOnce`, which is inductive with it.  `RoomIsClaimed` says that
  while some thread is about to evict, the free places are no more than the threads about to
  write.  If it then finds the queue empty, these are at least as many as there are entries, and it is not among them: that is
  `FaultsOnlyIfCrowded`, with nothing assumed of the numbers of threads and entries.  (So a cache with an entry for every worker
  never faults; `server.c:50,53` ask for no such thing.)  `RoomForFailed` says that a thread that has failed to write and has
  made room finds it, unless a write has succeeded since; `FailsAgainOnlyIfOvertaken` follows.
  Last, the cache implements `EvictionList` in both modes: `Search` is the hit when the oldest goes first, `Rewrite` in LRU mode.
* **WebServerProofs.**  Types, and `DescriptorsOwned`, by a lemma that covers the steps that
  open nothing, and one lemma for each step.
* **PacketPublicProofs.**  The inductive invariant is `TypeOK` (which ties `pkt_cnt`, `num_packets` and `which` together) with
  three parts: `ChunksHold`, a packet that has come has an allocated chunk with its contents;
  `Assembled`, what main has copied so far is the first packets in order, and the handler is off by then;
  and `WholeIfInTime`, main leaves its loop with all packets, so that only a tick that finds it busy can
  change that.  From it: types and `OutputPrefix`.  For `ChunksAccounted` the part `Paid` is added, which counts
  the chunks nobody will give back (`Lost`): a tick that finds main busy pays for as many as a message has, and it
  has paid in advance for the rest of a message that is being stored over another one.
* **PacketsProofs.**  `Counted` says how many packets of each message have come, from the number the handler has been given;
  `Assembled` how far main is with the message it takes apart; `Owned` that the chunks handed out are those of packets
  waiting, plus strays, which ticks after the last packet took; `PutOnce` that what was put out is whole and not
  waiting any more.  `OutputWhole`, `ChunksOwned` and the types follow under the assumption `Square`: a message has as
  many packets as there are messages, which in the code is 4 and 4.  `get_packet` sets `how_many` to
  the number of messages (`packet_extra.c:42`), and with other numbers a message would be taken for complete too early or never.
  For `LeftOutIfLate` the part `Late` is added: a message that
  is complete is out, or main has been late for each packet since, and once more unless main will
  look at that message before it pauses.
* **BrowserProofs.**  For any number of tabs, URIs and clicks, any size of the pipes, crashes and failed forks.  `Allocated`: channels and
  tab numbers are handed out in order, and a window that is set is set to its tab's channel.  `UpOK` and `DownOK` say
  what may be in a pipe: a TAB_KILLED is the last message of its tab, comes through that tab's channel, and finds pipes and
  window still there; going down, it comes when the channel is closed; everything in a tab's pipe is meant for it.  `Ordered`,
  `PassedInOrder` and `ReadInOrder` follow the numbers of the URIs from the controller through the router into
  the window.  With `PipesReclaimed` they are inductive; `UrisReachTheirTabs` and
  `KilledTabIsSender` follow.
* **MergeSortProofs.**  For every input, number of parts and version.  `TasksOfMain` says that only tasks
  that main has created and not joined may be running, for each place of main's loops, and the tasks of a level
  times their size fit into the array, which holds for the next level because half as many tasks are twice as long.  The
  segments of two tasks are then different multiples of one length, which is `SegmentsDisjoint`.  For `ResultSorted` the invariant
  is `Sorting`: the segment of each task is untouched (its halves are sorted), or sorted in the task's
  buffer, or finished, and the tasks left halve in number and double in size until one is left (`Halves`); for MPI, a
  rank that is still active at a level has the sorted form of as many parts as 2^level, and so has
  each message under way of the parts it stands for.  It rests on `MergeWorks` and `MergesortWorks`: the recursive functions `merge` and
  `mergesort` return a sorted permutation of what they are given.  For `NobodyStuck` four parts are added (`Going`): main waits only
  for tasks that it has started (`Started`), a part that a rank expects is under way if its sender has passed that level (`Posted`),
  ranks are at a place of theirs (`InPlace`), and what the program died of (`Explained`).  A rank that is on the least level of all can
  then go on: its sender is on that level too, where it sends and does not receive, or has passed it.  That a sender is
  missing only if `p` is no power of two is arithmetic of odd multiples (`OddMultiple`, `LargerPower`).
* **SparseMatrixProofs.**  For every matrix, vector and number of ranks, sorted file or not, and whichever sends
  wait for their receiver.  The inductive invariant has a part for each stage of the job.  `Together`: barriers
  and the gathering keep all ranks in one phase.  `SharesRead`: the lines read so far belong to the shares
  below the one being read, and no share is empty, for the assertions stop the job otherwise.  `SharesArrive`: a share is at the
  root, at its rank, or in one of the two channels between them behind its size and in the order of the files.
  `Planned`: every rank knows what it needs (`Schedules`), and after the gathering how many rows anybody needs of anybody, so that
  all work from one list of exchanges.  `Exchanged`: between two ranks there is at most one message, the question
  while the one asked has not passed the exchange, then the answer; who has passed an exchange has all its
  rows.  That two ranks pass their common exchanges in the same order is what makes the question in a
  channel the one that its receiver takes it for.  `Multiplied` is the product on the ranks that are done.  `TypeOK`,
  `AssertionsHold` and `ProductCorrect` follow; that no row is lost or counted twice rests on `Owner`, the
  arithmetic of the shares: every row is in the share of `src_r` of that row and in no other.
  `NobodyStuck` needs one part more, `Awaited`: a rank whose `MPI_Send` waits for its receiver has sent the size of a share or a
  question, never anything else.  Among the ranks that still have an exchange before them, take one whose next exchange has the least
  number (`comm_id`): its partner has not passed that exchange either, and has nothing earlier to do, so that it is at it or
  can still come to it; one of the two can go on.  There is no circle of ranks, however many there are and whichever sends wait, because all
  go through the same list in the same order.

* **LcsProofs.**  For strings of every length, and any number of threads or ranks (with MPI, none whose band begins
  behind the last row, `InputsAssumption`).  First about `lcs_serial.c` alone: its grid is the only table of its recurrence, neighbouring
  cells differ by one at most, no common subsequence of two beginnings is longer than their cell says, and what the path
  has collected is a common subsequence of the rest with as many characters as the cells have lost, so
  `SerialIsLongest`.  Then the invariant of the parallel versions.  `Chained` is the heart of the first phase: behind the
  block a band is at, the blocks in its queue (or in the messages to it) follow one another without a gap, up to
  the one the band above is at.  So a band only computes blocks that the band above has finished, every cell it reads is right
  (`GridRight`), and a band that takes the end from its queue leaves nothing in it when it destroys it.
  `Together`, kept by the barriers, has all threads in one phase; without it the next item could be put into a queue that is
  destroyed.  `Baton` is the second phase: one thread or rank has the place on the path, in its state or in its queue,
  those of the bands below are gone, those above have an empty queue; and the place is one of the serial path, in a row that the
  rank who gets it has computed.  `Printed` is the end of that path.  `TypeOK` and `ResultCorrect` follow.  For `NobodyStuck` in the first phase, the last band that
  has a block to pass on finds room below it, or the band below, which then only waits, finds blocks in its full queue; if no band passes a
  block on, the first that waits has in its queue what the one above, which is done, has put there.  In the second phase whoever
  has the place finds the queue above empty, and when nobody has it, the last
  band that waits has it, or the word that the path is over, in its queue from the one below, which is done.  By diagonals, cells do not share
  their memory when the second string is not longer; the theorem has that condition, as the property does.

The library's induction theorems take operators as parameters, which the installed provers cannot
instantiate.  `MergeSortProofs` therefore proves a recursion theorem about *sets* (a set of naturals with no least
element is empty; a function defined by looking at smaller arguments exists), and from it the defining equations of `merge`, `mergesort` and `pow2`; `LcsProofs` has the same for functions that go from a number to the next.

Only model-checked: all liveness, since fairness and ENABLED are beyond the prover, and the run that shows
a disagreement.  Of `RunsToEnd` the half that is a safety property, that the ranks or threads never all wait for each
other, is proved as `NobodyStuck` for `SparseMatrix`, `Lcs` and `MergeSort`, with an operator `CanMove` that says in terms of the state which
call can return (as an invariant of the runs, that `CanMove(r)` holds exactly when a step of `r` is ENABLED held in every state, short of an abort); that they come to their end once they keep moving is checked.  Every safety property that a passing run checks is also proved.

## 6. Where the code and its words disagree

With a run: `web_misdirect`.  The second close (`util.c:131`) can close another client's connection, whose number
goes to a third client, who gets the answer.

Without a run of their own, found while modelling:

* After a wrap that puts the tail at slot 0, `queue_search` does not stop (`queue.c:123`) and finds
  items that were dequeued; `queue_test.c:27-32` expects NULL.
* `queue_consume_all` spins with the mutex held (`queue.c:249`); its comment (`:242-243`) says it
  returns once everything is consumed.
* Cached data is freed by an eviction while another worker sends it (`cache.c:34`), against `util.h:60-64`.
* A URI under way is rendered after its window was closed (`urlrenderer.c:64`), against `README.txt:63-64`.
* `queue_consume` returns -1 with the mutex locked (`queue.c:224`): after the first consumer has
  exited, the others block, where `queue.c:242-243` has them exit.
* When the last packet comes between the scan and `pause()` and main is late for it, the last message is
  never put out (`packet_extra.c:176`); `LeftOutIfLate` says exactly how late main has to be.
* With more workers than cache entries, a worker may find the full cache empty when it comes to evict,
  and dereference NULL (`cache.c:32-34`), where the comment at `:31` has it remove the oldest item.  The run `cache` reaches
  that state; `FaultsOnlyIfCrowded` says what it takes.
* The 404 path never frees its request (`server.c:129`); the test in `server.c:57-61` is always true, so the
  cache and the prefetchers cannot be switched on; workers wait for ever once all dispatchers have
  gone (`server.c:183`, against `util.h:24-27`); the process exits with answers half sent (`server.c:384`,
  against `README.txt:35-38`).
* `return_error` writes through the NULL that `fdopen` may return (`util.c:141`); a client that has gone raises
  SIGPIPE, which nobody ignores.
* `packet_extra.c`: the handler stores into `g_messages[-1]` after the last packet; the timer that expires
  once more can find SIGALRM at its default action and end the program (`:181-183`); a packet's
  `how_many` is the number of messages, which is also the number of packets per message, four; `malloc` is compared with -1.
* The browser never range-checks a tab number (`browser_window.c:17-21`), and bookmarks are appended by several
  processes without a lock (`controller.c:128`).
* LCS: `HW3` compares `s1` up to the length of `s2` and the other way round, and so reads behind the shorter
  string.  A band that begins behind the grid (2 rows, 4 threads) follows the path past row 0 and prints "BAD CELL" for
  ever; an MPI rank in that place receives behind its grid, which `InputsAssumption` leaves out.  In
  `HW4/lcs_serial.cu:149` a row has room for the first string only: with a longer second string, cells
  share memory and the string printed can be wrong (`aa` and `babbb` give nothing).
* Sparse product: the assertion on `2*partition_size` (`mpi_matrix.c`) refuses jobs whose remainder is no smaller than a share,
  3 rows on 2 ranks for one, and every job with more ranks than rows.  `MPI_Allgather` is given
  one array as both buffers.  A vector file that is too short repeats its last line.
* Merge sort: `HW2/README.txt` owns that the output is wrong unless `p` divides `n` and is a power of two; with more parts than
  numbers `merge_helper` recurses for ever, MPI ranks name a rank that does not exist, and MPI loses what `p` does not
  divide.
* Radix sort: `key(x)` is `mask & (x > 0)` (`HW6/sim.c:13`), so it leaves its input, all positive, as it is.

## 7. Not modelled

The prefetch threads (their guess is a dummy that fails), the log, `server2.c` (not built), the memory
benchmarks, GTK and WebKit, `lcs_cuda.cu` (its kernels are never launched), the radix sort (one thread, one fixed
input), the Scheme and Python exercises, data files and the Subversion copies of
the same sources: no state worth a model, or not the program's own.  The bookmarks are left for later (section 2).
Reading files, clocks and printing are left out of the parallel programs.  A SIGINT handler that
interrupts a thread which holds the queue's mutex is not modelled: in `ProdCon` the closing call is a
thread of its own.
