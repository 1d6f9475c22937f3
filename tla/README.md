# Verification of splab: the tiny shell, the malloc package, the web proxy and the bit puzzles

The repository holds four programs of a systems course: a shell with job
control (`shlab-handout`), a memory allocator (`malloclab-handout`), a web proxy
(`proxylab-handout`) and a collection of bit puzzles (`datalab-handout`). This
directory keeps TLA+ models of them, TLC runs on small instances and TLAPS
proofs.

## Inventory

### The tiny shell, `shlab-handout/tsh.c`

*State.* A table `jobs` of `MAXJOBS` (16) slots with pid, job ID and state
(UNDEF, FG, BG, ST); the counter `nextjid`; the signal mask; the child processes.
*Operations.* The main loop reads a line and `eval` runs it: a built-in (`quit`,
`jobs`, `bg`, `fg`) or a program, which is forked with SIGCHLD blocked, added to
the table and, in the foreground, waited for by `waitfg` with `pause()`. Handlers
for SIGCHLD (reaps and records stops), SIGINT and SIGTSTP (send the key on to the
foreground job) and SIGQUIT (exit) interrupt the main program and each other:
`Signal()` installs them with an empty `sa_mask`.
*Interaction.* Main program and handlers share the table without a lock; only
the stretch from before `fork` to after `addjob` blocks SIGCHLD, and nothing ever
blocks SIGINT and SIGTSTP. The kernel coalesces pending signals.
*Hard.* Handlers between any two steps of the main program and inside other
handlers; pointers into the table kept over such points; a full table; a failing
`fork`; signals that come before `setpgid`.
*Correct when.* The table lists children only, and all of them while it has room;
one job at most is in the foreground and the shell waits for it; jobs make the
documented transitions only; no event of a child is forgotten; keys never hit
background jobs; zombies are reaped; the prompt
comes back.

### The allocator, `malloclab-handout/mm.c` on `memlib.c`

*State.* The heap: segments with header (footer of the segment before, size,
flags), a red-black tree of the free segments threaded through their payloads,
and the break of the simulated `sbrk`.
*Operations.* `mm_init`, `mm_malloc` (best fit from the tree, split, or grow),
`mm_free` (coalesce with both neighbours), `mm_realloc` (shrink, absorb following
free segments, grow at the end of the heap, or move).
*Interaction.* `mdriver.c` runs traces of calls, fills the blocks and checks what
it gets back (`eval_mm_valid`), and measures how much of the heap they use
(`eval_mm_util`); `mm.c` calls `mem_sbrk`.
*Hard.* Long sequences of calls; list and tree that must stay in step through
partial states; sizes at the limit of what a node needs; rebalancing cases of the
tree; the end of the heap.
*Correct when.* List and tree describe the same segments; the tree is a balanced
search tree; no segment leaks or is handed out twice; no call disturbs the
contents of another block; what is counted as in use fits into the heap.

### The web proxy, `proxylab-handout/proxy.c`

*State.* A listening socket, a log file, two mutexes, one detached thread and two
descriptors for each connection. *Operations.* Accept, create a thread, parse the
request line, connect, relay the request's header and content and the response's
header and content, write a log entry. *Hard.* Threads sharing `gethostbyname`,
`localtime` and the log; peers that close or send less than announced; failures
half-way that must not leak descriptors. *Correct when.* A thread uses and closes
its own descriptors only and leaves none open, it connects to the host it was asked
for, mutexes are given back on every way, and what arrives is what was sent, in
order and, when nothing breaks, complete. `csapp.c` is a library none of whose
wrappers the proxy calls.

### The bit puzzles, `datalab-handout/bits.c`, and their harness, `btest.c`

*State.* The puzzles are pure functions on 32-bit words (`bitCount`, `divpwr2`,
`float_i2f`, ...) with reference definitions in `tests.c`; `decl.c` lists them with
ratings and ranges of arguments. The harness keeps its options, the arrays of test
values, the loop counters, the score, a jump buffer and a timer. *Operations.* Read
options; for each puzzle make test values, call `sigsetjmp`, arm the timer, compare
puzzle and reference for all combinations, add up the score; the handler of SIGALRM
jumps back. *Hard.* The sign bit, overflow and rounding; a timer that is never
cancelled; a puzzle that hangs after another one has timed out; arrays filled to the
last entry. *Correct when.* Puzzles and definitions agree; test values stay in the
array and in the range of the argument; each puzzle is scored once; the harness ends
although a function does not; a timeout is that of the function being tested.

### Left out

The shell's and the puzzles' drivers (`sdriver.pl`, `my*.c`, `driver.pl`), the timing
packages of the malloc lab, printers (`ishow.c`, `fshow.c`), and `mm_.c`, `mm_miss.c`
and `rb.c`, earlier versions the Makefile does not build (see "Not modelled").

## Modules

| Module | Models | Uses |
|---|---|---|
| `JobList` | the job table and its routines | |
| `JobControl` | abstract: what job control promises | |
| `Tsh` | the shell: main program, handlers, children | `JobList`, `JobControl` |
| `TshProofs` | the proofs about `Tsh` | `Tsh` |
| `FreeIndex` | abstract: a set of free segments with best fit | |
| `RBTree` | the red-black tree of `mm.c` | `FreeIndex` |
| `RBTreeProofs` | the proofs about `RBTree` | `RBTree`, `SumProofs` |
| `Heap` | `mm_*` on the heap | `FreeIndex` |
| `Arena` | abstract: what a client expects of malloc | |
| `MDriver` | `eval_mm_valid` and `eval_mm_util` on the allocator | `Heap`, `Arena` |
| `SumProofs` | lemmas about sums over finite sets and counting | |
| `HeapProofs` | the proofs about lists, free segments, blocks, contents, utilisation and types | `MDriver`, `SumProofs` |
| `Proxy` | the main thread and the connection threads of the proxy | |
| `ProxyProofs` | the proofs about `Proxy` | `Proxy` |
| `Pipe` | abstract: what a proxy promises for one connection | |
| `Relay` | one connection: `readline` to `relay_content` between two peers | `Pipe` |
| `RelayProofs` | the proofs about `Relay` | `Relay` |
| `Bits` | the puzzles of `bits.c` and the definitions of `tests.c` | |
| `BTest` | the harness `btest.c` on the table of `decl.c` | `Bits` |
| `BitsProofs` | the proofs about the puzzles | `Bits`, `SumProofs` |
| `BTestProofs` | the proofs about the harness | `BTest`, `BitsProofs` |
| `MCTsh`, `MCHeap`, `MCProxy`, `MCBTest` | instances for TLC | |

### Shell

`jobs` and `nextjid` are the variables of that name; slot 0 stands for a null pointer.
`pc` is where the main program is, `cmd`, `mpid` and `slot` its local variables. Each
action reads or writes the table at most once or makes one system call, so a handler can
run between any two accesses that matter: `do_bgfg`, for example, is `BgFgByPid` or
`BgFgByJid` + `ReadPid` (look up), `TestStopped`, `SendCont`, `SetState`; and `addjob`,
which stores pid, state and job ID one after the other, is `AddPid`, `AddState`,
`AddJid`. The active handlers form a stack (`level`, `depth`): a handler starts on top
(`Deliver`, or at once in `Unblock`, as `sigprocmask` delivers before it returns), only
the topmost one moves, and `Return` ends `pause()` when it was the last one.
`sigchld_handler` is `ChldWait` (waitpid), `ChldApply` and `ChldDone`; the two key
handlers are `FindFg` and `Forward`. A dereferenced null pointer is the end of the shell
(`Die("crashed")`).

A process is forked, gets its own group (`Setpgid`), runs a program (`Execve`),
and exits, is killed, stops or is continued, at any time; with `OutsideStops` FALSE
nothing but a ctrl-z sent on by the shell stops it. A terminated process
frees its pid when it is reaped. Command lines, messages and option parsing are
left out; a command is "a program in the foreground or background", `bg`/`fg` with
any pid or job ID, `jobs`, `quit`, or a blank line.

### Allocator

Addresses are in units of 8 bytes from `mem_heap_lo()`. `heap.seg` maps the address
of a header to its size, allocation bit and `prev`; a header swallowed by
coalescing leaves the domain, so a stale access is an error in TLC. `heap.tree` is
the set of `<<size, address>>` under which segments were filed: `mm_delete` with a
size changed since would leave the entry there. The two loops of `mm_realloc` are
`ScanEnd` (a sum of adjacent sizes is a difference of addresses) and `Coalesce`.
When `mem_sbrk` fails, `mm_sbrk` writes through the address -9: the driver's
verdict becomes `segv` and the trace ends.

`RBTree` follows `mm.c` case by case; the mirrored pairs `mm_rotate_left`/`right`
and `mm_delete_left`/`right`, and the two halves of `mm_insert_node`, are one
operator with the side as parameter. The sentinel has a colour but no children:
following its pointers is an error in TLC, as it is a null access in C. The recursive
functions of the code are recursive functions on `Tree`, the trees that are no higher
than there are segments; each node of a tree is another segment, so no tree of the code
is higher. `mm_delete_left` calls itself once at most, on a node whose sibling is black:
`mm_delete_side` is the call and `BlackSibling` what happens then. `mm_delete_node` with
a target is `TakeLeftmost`, and the target is `Leftmost`. `Sizes` and `Addresses` are any
finite sets of natural numbers, as `size_t` and pointers have a width.

`MDriver` runs every sequence of requests over a set of block ids and sizes; `Number`
gives each block its index in the trace. The driver fills a block with the low byte of
the index and, after a `mm_realloc`, compares what it reads as a (signed) `char` with
that number (`AsChar`, `Matches`): no byte from 128 on compares equal. `mem` records
which block filled a unit, and so with which byte; whatever the allocator writes
(headers, tree pointers) and whatever is not payload is 0. After `mm_realloc` the
driver's comparison of the old contents is made before the block is filled again. The
code runs each trace once for validity and once for utilisation; the calls and so the
heaps are the same, and the model does both at once (`Account` is the bookkeeping of
`eval_mm_util`). `eval_mm_speed` makes the same calls and looks at nothing.

### Proxy

`Proxy` has one step per system or library call or access to shared data. `table` is the
descriptor table: the kernel gives out the lowest free number, `close` closes whatever
is open under it. A host is named by the connection that asks for it, so `server[c] = c`
says that the address copied from the static result of `gethostbyname` is the right one.
`localtime` has a static result as well (`tm`), from which the time of an entry is made
in a later step (`stamp`). The log is a stream with a buffer: `Fprintf` adds an entry to
it and writes out any number of those it holds, as stdio does when its buffer is full,
and nothing in the program flushes it. `Fatal` is the end of the whole process by
SIGPIPE or by a request or response line without the blanks the parsers look for,
`OutOfMemory` the one by the unchecked `malloc` of `main`; what was in the buffer is
lost. A failed `pthread_create` leaves its socket open (`CreateFails`), as in the code.

`Relay` looks into the step `Transfer` of one connection. A message is a sequence of
tokens (first line, Content-Length line, empty line, bytes of content) that its
side sends one at a time; it may close, reset or break at any point. `readline`
takes a token at once: what it has read of a line that is cut off by the end of file
is dropped, which is the same as a line that was never begun, but for one thing:
`relay_header` looks for a length in its buffer even then. A side that closes before
its Content-Length line is over (`CutOff`) can therefore make the proxy take any
length for announced (`HeaderEnd`), or, without a blank to be found, end it
(`NoBlank`). `relay_content` goes byte by byte
through a buffer of `MAXLINE` bytes. The two directions are the same operators with
the side as parameter, as they are the same functions in the code. `Relay` refines
`Pipe`: `in` is what a side has sent, `out` what its peer has got, and `turn` the first
component of `pc`.

### Bit puzzles

A word is a function from bit numbers to BOOLEAN, the operators of C on words are
pointwise, and only `+` goes over the numbers words stand for. The width is a parameter,
and with it every constant of the code (`31` is `W - 1`, `0x7FFFFF` is `FracMask`, ...);
the five shifts 16, 8, 4, 2, 1 that `bitCount`, `bang` and `ilog2` write out are a fold
over `Halves`. The two loops of `float_i2f` are `Digits` and `RoundOff`. The definitions
of `tests.c` are given on numbers, those of floats by the magnitude of a float in units
of the smallest one and rounding to nearest even. Arithmetic of int wraps around. C does
not promise that, but it is what gcc makes of these expressions, with one exception:
`test_fitsBits` computes `1 << (n - 1)`, `-(1 << (n - 1))` and `(1 << (n - 1)) - 1`,
which overflow for n = 32, and `gcc -O` turns the second comparison into `x < 1 << (n -
1)`, which no int satisfies then. `test_fitsBits` is therefore the definition for n < W
only.

In `BTest` an entry of a test array is the set of values it may have: one value, or the
whole range for a value of `random_val`. Each test takes any of them, so a random value
may even differ from one pass of the inner loop to the next; that allows more than the
code does. `env` is `envbuf` with the call of `test_function` that set it, `alarm` the
puzzle whose timer is pending. A test whose result C leaves open (`Undefined`: a shift
count out of the range of `decl.c`, and `fitsBits` for n = W) finds no error or an error
with the verdict "undefined", whichever way the build decides. `Timeout` can happen at
any step; a jump to a call that has returned ends in `undefined`. The only function that
really hangs is `test_ilog2` for 0, which `btest -1 0` asks for. Command lines are
sequences of options, read one by one; a number is a record of its value, whether it is
written as a float, and whether text follows it.

## Runs

| Run | Instance | Shows |
|---|---|---|
| `tsh_jobs` | 2 pids, 2 slots, ctrl-c, fork may fail | table = children, one awaited foreground job, no lost event, every child tracked, documented transitions and stops in the background (`JobControl`) |
| `tsh_full` | 2 pids, 1 slot, both keys | with a full table, up to the crash: one awaited foreground job, no lost event of a listed job; keys never reach background jobs |
| `tsh_live` | 1 pid, both keys, fairness | zombies are reaped; the end of the foreground job ends `pause()` |
| `rbtree` | 12 keys (4 sizes, 3 addresses) | order, colours, black heights, best fit, refinement of `FreeIndex` |
| `heap` | 3 blocks (indices 1, 257 and 200), requests of 8, 20, 32 bytes, 22 units | list, tree, no leak, node room, traces accepted but for the driver's own signed bytes, utilisation at most 1, refinement of `Arena` |
| `proxy` | 3 connections, 4 descriptors | own descriptors only, none left open, right host, right time, one order of log entries up to what a fatal signal loses, mutexes are granted |
| `relay` | lengths 1 to 3, buffer of 2 | in order, within the buffer, complete when nothing breaks, over when its end can be seen, refinement of `Pipe` |
| `btest` | words of 8 bits, floats of 4 + 3 bits, `TEST_RANGE` 4, 796 command lines | puzzles right where C defines the result, test values fit, each puzzle scored once, the harness ends |

Runs that end in a counterexample, each for a sentence of the source that the code
does not keep:

| Run | The source says | The trace |
|---|---|---|
| `tsh_lost_wakeup` | "Block until process pid is no longer the foreground process" | SIGCHLD between waitfg's test and `pause()`: the shell sleeps for ever |
| `tsh_stale_add` | "FG -> ST : ctrl-z", as the only way to ST | `fg` marks a slot the handler has cleared as FG; `addjob` stores a background job there, pid first, and ctrl-z stops it before its state is stored |
| `relay_zero` | "Given content length or EOF are considered end of content" | a response of length 0 on a connection that stays open is waited for |
| `btest_stale` | "control will reach here if there is a timeout" | a puzzle's timer, never cancelled, goes off after its tests: a jump into a call that has returned, or the next puzzle blamed |

Also met while modelling, without a run of their own: `addjob` wraps `nextjid` onto a
job ID that may be in use, so that with four slots two jobs can share one ("Find a job
(by JID) on the job list"); a slot that was cleared and then marked FG makes `fgpid`
return its pid 0 while another job is in the foreground ("Return PID of current
foreground job, 0 if no such job"), so that keys go nowhere; `mm_malloc(0)` that is
served from the tree cuts a segment of 8 bytes, too small for the tree pointers it needs
once it is free (the driver never asks for 0 bytes, and `Requests` of the `heap` run has
none); a failed `fork` leaves SIGCHLD blocked, so that jobs are not reaped until the
next command (`ForkFails`; `tsh_live` therefore has no failing forks); a child that
found the table full is reported to a handler that finds no job ("getjobpid never
fails"; `ChldNull`); ctrl-c before the child's `setpgid` is sent to a group that does
not exist (`Forward`); a blank line passes NULL to `strcmp` (`BlankLine`); `eval` reads
through NULL for a background job that found the table full (`PrintJob`); `fg` can
overwrite the state ST a handler has just recorded; `jobs` can print its internal error
for a job that ends while it is listed; a background job that stops itself goes from BG
to ST, which the table of transitions does not have (`StopBackground`); `mdriver.c:656`
compares a signed `char` with `index & 0xFF`, so that a correct `mm_realloc` of a block
whose index has a low byte of 128 or more is reported as "did not preserve the data"
(`Matches`; `TraceAccepted` has it as its only exception); `mem_sbrk` failing is not
reported as NULL; the size in the proxy's log leaves out the header lines, while
`proxy.c:503-505` speaks of "the size in bytes of the response" (`LoggedSize` in
`RelayProofs` says what it is: the first line and the content); a fatal signal loses the
log entries that are still in the buffer of `proxy.log`; the harness can report a right
`fitsBits` wrong for n = 32, where `test_fitsBits` overflows; a thread whose client is
gone may wait for the end server for ever, for `process` ignores what `relay_header`
returns; `get_num_val` tests the old value of an option where it should test the end of
the text, so that `-1 12abc` is accepted and a second `-1` refused; a range of exactly
`MAX_TEST_VALS + 1` values would overflow its array (none of `decl.c` has it); the
"largest normalized number" of `gen_vals` is the smallest one with the largest exponent.

### Bounds

`JidBound` keeps job IDs finite: no job is started that could exceed it. Two
processes are enough for a foreground job next to a background one and for two
events that coalesce into one SIGCHLD; one slot for two processes makes the table
full. Process ids are symmetric, so
symmetry is used in the safety runs and in no liveness run. `OutsideStops` is TRUE in all
runs but `tsh_stale_add`, where a job that stops has been stopped by ctrl-z. Two of the
three blocks of the `heap` run have indices with the same low byte, and that of the third
is negative as a signed `char`. Twelve keys give the
tree a black height of three, in which every case of the rebalancing occurs.
`MM_UNIT` is 5 units instead of 18 so that requests fall on both sides of it, and
22 units hold three blocks with free segments between them and run out. Three
connections and four descriptors let descriptor numbers be reused while another
thread is at work, and run out. A buffer of two bytes with contents of up to three
has them end before, at and after the end of the buffer; `MaxBody` bounds contents
without a length.

Eight bits keep all that is special about 32 (two's complement, three rounds of
halving, ints with more digits than a fraction) and can be tried out: all pairs of
ints for `bitAnd` and `isLessOrEqual` (`-f name`, both values random), all ints with all
shifts, and all floats (`-f name -1 value`). Four is the least `TEST_RANGE` for which
the test values of a float fit into their array, which they then fill. `MaxLate`
bounds the timeouts of functions that do not hang to one in a run, so that one comes
before, and one after, the hanging `test_ilog2`; a timeout of a hanging one is never
bounded. The runs of all puzzles fix one of the two arguments, for the puzzles that
have two.

### Fairness

The shell is one thread that the scheduler runs: strong fairness of its steps away
from the prompt, of the delivery of each signal, and of each handler's steps (a
handler is disabled while another one is on top of it, infinitely often enabled
when those return). Nothing is assumed of the user, of the keys or of the children.
The liveness properties assume that processes do not stop infinitely often, for
`waitpid` could report such a process for ever, and `ForegroundExitWakes` that no
key is typed.

A thread of the proxy is weakly fair away from the places where it waits for a peer
(`request`, `relay`): threads are scheduled, and resolver and `connect` answer or time
out. In `Relay` the thread is weakly fair and the peers are not: they need not send,
and `TransferEnds` speaks of transfers in which each of them has sent everything or
closed its connection, within a line or not.

The harness is one thread that runs on unless it hangs, and a timer that is pending
and not blocked goes off: weak fairness of both. That of the program is written out
with `Running` in place of ENABLED, which TLC could only evaluate by evaluating the
puzzles many times over. Nothing bounds how long the harness takes between two
puzzles; `TestsEnd` therefore counts the jump into undefined behaviour as an end.

Deadlock checking is off where a run may stop: the shell exits or crashes, the
driver ends with the heap, clients need not connect.

## Proofs

What TLC shows of an instance is proved for every value of the constants. Each of
the modules below states its theorems with the inductive invariant they need, a
lemma for each action and, where parts of an action are operators, for each operator.

### Shell (`TshProofs`)

For every table size, set of pids and set of keys, with failing forks or without:

- `TypeCorrect`: `Spec => []TypeOK`;
- `ChildrenListed`, `ForegroundAwaited`, `EventsKept`, `BackgroundSafe`: the four
  safety properties of the runs (that the table lists children only is proved for every
  size of it, and checked with room for all);
- `ChildrenTracked`: `EveryChildTracked`, under `FewChildren` (as many slots as pids;
  a full table really loses children);
- `Refinement`: `Spec => ImplementsJobControl`.

`ForegroundIsAwaited` and `NoSignalToBackground` name one exception: between the first
two stores of `addjob` the new job has the state its slot had before, which is FG when
`fg` has marked a cleared slot. `tsh_stale_add` shows what comes of it. `JobControl` sees a
job from the third store on.

They rest on the assumptions on the constants in `JobList` and `Tsh` (at least one
slot, pid 0 is no process) and on the invariant `TypeOK /\ PointerOK /\ Inv`. The
properties are not inductive as they stand. That a listed job is a child needs to
know that a job is added at most once and before it can be reaped: SIGCHLD is
blocked from `fork` to `addjob` and no SIGCHLD handler is active then (`BlockOK`,
`AddOK`), because the main program moves only when the stack of handlers is empty,
which in turn needs the stack to be a stack (`StackOK`). That the foreground job is
awaited survives `SetState` through a stale pointer only because a cleared slot has
pid 0 and a slot cannot be reused while `do_bgfg` runs (`StaleOK`). That events are
kept needs the handler's loop: it ends only when no child is left to report, or
when the table is empty and no listed job exists. `BackgroundSafe` needs that a key
handler's pid was in the foreground when it looked, and that no job becomes BG
while a handler is active (`KeyOK`). The proof of each step goes action by action.
`ChildrenTracked` adds `ReapedOK`, that the pid a handler is about to take off the
list is no child any more, and a count: the pids of the table are those of
children, so with a new child not yet listed one of the slots is free (`RoomLeft`).
The refinement maps the table to the state of the slot with a job's pid and a job ID,
of which there is one at most (`TableOK`); the first two stores of `addjob` are steps it
does not see (`FillRefines`), the third one is `Launch` (`AddRefines`).

### Tree (`RBTreeProofs`)

For every finite set of sizes and of addresses, and any insertions and deletions:

- `Invariance`: the inductive invariant `TreeInv`;
- `TreesOrdered`, `ColoursRight`, `HeightsEqual`: a binary search tree, the colours, and
  one number of black nodes on all ways down;
- `SearchesBestFit`: `mm_search` finds the best fit of the whole tree;
- `FreeIndexImplemented`: `Spec => ImplementsFreeIndex`. `Heap`, and so `HeapProofs`,
  has the tree as the set of keys that this theorem allows to put in its place.

They rest on `SizesAssumption` and `AddressesAssumption`. `TreeInv` says of the root that
it is in order (`Well`), that it is not red, and that for some `b` it is `Legal(root, b)`:
legal colours and `b` black nodes on every way down. Order and colours are separate
arguments, and both go down the tree: what an operation does to a subtree is said for
each tree of `Tree`, from the trees below it.

The functions first have to exist: the prover knows of a recursive function only what
its defining equation says, if there is one. For each of them a function on the trees of
one height is extended to those of the next (`Higher`), and the equation follows
(`TreesExist` and the lemmas after it). A property of all trees is proved the same way, from
the sentinel upwards (`TreeSets`). A tree is either the sentinel or a `Node` of a side `d`,
a key and two trees, and as it can be seen from either side, mirrored cases are proved
once. The results of rotations have to be in `Tree` again, although they can be higher
than what is rotated; they are because a search tree has as many nodes as keys and is no
higher than that (`Short`).

Insertion does not keep `Legal` below the root: the tree that comes back from a subtree
may have a red root with one red child (`Almost`), but only if the subtree was red, and
`InsertFixup` then mends it one node higher up (`Inserted`). For deletion, `Mended` says
what the flag `*balance` promises: the tree has the keys it should have, is legal with
its old black height if the flag is set, and legal with one less and a black root if
not, and has a red root only where there was one. `BlackSibling` is proved case by case
to give this, `mm_delete_side` from it, and `Rebalance`, `TakeLeftmost` and
`mm_delete_node` from that; that the node put in place of the deleted one keeps the
order needs that `Leftmost` is the least of its subtree. The search (`Found`) needs the
order only.

### Allocator and driver (`HeapProofs`)

For every heap size, node size, set of block ids and set of request sizes:

- `Invariance`: the inductive invariant `Inv` of the driver;
- `ListsIntact`, `TreesMatch`: the list of segments and the tree, always;
- `NodesFit`, `NothingLeaks`: until the driver aborts over a request of 0 bytes, and
  `NodesAlwaysFit`, `NothingEverLeaks`: always, if no request is of 0 bytes, as in all
  traces of the lab;
- `TracesAccepted`: `eval_mm_valid` gives a trace up only when a block whose index has a
low byte of 128 or more is resized, which it compares with a signed `char`;
- `ArenaImplemented`: `Spec => ImplementsArena`;
- `UtilisationBounded`, `TypeCorrect`: what `eval_mm_util` counts, and types.

`Inv` is `HeapOK /\ BlocksOK /\ MemOK`. `HeapOK` is said of any heap, as `ListOK`,
`TreeOK` and `FitOK`: sizes lead forward and footers back, the tree has the free
segments, and every free one has room for a node. Within a call they do not hold:
`mm_free` and `mm_realloc` have a segment that is free and not in the tree, or about to
be cut. `TreeOK` and `FitOK` therefore take one exempted segment, `NULL` between
calls, and the lemmas follow a call step by step: `Split`, `Merge` and `Extend` for the
list, `FragNode`, `GrowHeap`, `SbrkHeap`, `CoalesceHeap`, `InsertHeap` for the routines,
`Malloc`, `Freed` and `Reallocated` for the calls. `BlocksOK` gives each block an
allocated segment of its own with room for what was asked; `MemOK` says that the
payload of a block still holds what was written there, so that for a low byte below
128 the comparison succeeds (`LowByteMatches`). Payloads of two blocks are apart
because segments are (`PayloadsApart`), so filling one and copying into one leaves
the others alone (`TakenOver`, `Copied`).

`UtilisationBounded` counts: the payloads are disjoint sets of units below the break,
so the sum of their sizes is at most the heap, and the break never goes down, so the
high water mark is bounded by the heap of now. The sum is the fold over `Ids` that
`UtilisationAtMostOne` states; `SumProofs` gets its value from the definition of
`FoldSet` for any finite set, by going to a set of least size where it would fail.

### Proxy (`ProxyProofs`, `RelayProofs`)

`ProxyProofs`, for any set of connections and any number of descriptors:
`TypeCorrect`, `DescriptorsOwned`, `DescriptorsClosed`, `ServersRight`, `TimesRight` and
`LogsInOrder`. The invariant says at each step of a thread which descriptors it has
to close and that nobody else has them (`OwnersKnown`, `MainOwns`); that the mutex of
`gethostbyname` is held from the look-up until the address is copied, so that the
static result is that of the holder (`DnsOK`); and that, under the other mutex, the same
is true of `localtime` and the text made of it, and the log file with its buffer differs
from standard output only while the holder is between its two prints (`LogOK`). What a
write-out moves from the buffer to the file does not change the two together
(`WrittenOut`); after a fatal signal only the file is left, a first part of the output.

`RelayProofs`, for any buffer size, any announced lengths and any `MaxBody`:
`BufferBounded`, `TokensInOrder`, `TransferComplete`, `PipeImplemented`. The invariant
`OrderOK` says that what was read from a side is what was written to the other one
and what is in the buffer; that a transfer is complete when nothing broke needs
`CompleteOK`, how much of a content is still to come at each step of `relay_content`.
`LoggedSize` says which bytes of such a response the log counts: all but those of
the header lines.

### Puzzles (`BitsProofs`)

For words of 8, 16 and 32 bits, `BitAndRight`, `GetByteRight`, `LogicalShiftRight`,
`BitCountRight`, `BangRight`, `TminRight`, `FitsBitsRight`, `Divpwr2Right`,
`NegateRight`, `IsPositiveRight`, `IsLessOrEqualRight` and `Ilog2Right`: each integer
puzzle is what `tests.c` says, for every word and every second argument in the range
of `decl.c` (or that range scaled to the width). Two exceptions are where `tests.c`
defines no result: `ilog2` of 0, for which `test_ilog2` does not return, and `fitsBits` for
n = W, for which `test_fitsBits` overflows. `FloatNegRight`, `FloatTwiceRight` and
`FloatI2fRight` say it of the floating point puzzles, for every word and every width of
the exponent that `ExpAssumption` allows, among them the 8 bits of the code's `float`.

The puzzles are about bits and the definitions about numbers, so most of the module
relates the two. A word is the number of its bits (`LowRemainder`: its lowest `k` bits
are the number modulo `2^k`; `SameWord`), a number is cut to a word by `Bin`
(`UnsignedBin`, `SignedBin`), and each operator of C is arithmetic on numbers:
`AddNumbers`, `NotNumber`, `SarNumber`, `ShrNumber`, `ShlNumber`. Powers of two are taken
from `2^(j + k) = 2^j * 2^k` for exponents up to `W`. No theorem of the library that
takes an operator is used: what would be an induction over bits is `Upwards`, a
descent to the least number that is not in a set.

The three puzzles with rounds, folds over `Halves`, have an invariant each. `bang`:
after each round the bits that are left of `~x` are all set just if all bits of `~x` are.
`bitCount`: every group of `s` bits holds the number of ones that `x` has there, which is
at most `s`, so that no sum of two of them carries into the next group (`CountRound`).
`ilog2`: the word is shifted by the count so far, and the highest bit of `x` is one of the
`t` bits from that count on, `t` being halved each round.

For the floating point puzzles, floats are ordered as their codes are
(`MagnitudeOrder`), so that a number between two codes that follow each other is
rounded to one of them (`NearestIs`): the definition, a search through all floats, need
not be unfolded anywhere else. `float_twice`: a code goes up by `FracSize`, or doubles
where the exponent is 0, and the number doubles (`MagnitudeTwice`); this is a float, or
infinity, and rounding leaves it alone. `float_i2f`: an int of `b` digits is a number of
the exponent `b + Bias - 1` (`Significand`); what `RoundOff` does to the bits is rounding
to nearest even of a quotient (`RoundOffIs`, `RoundedTo`), and a significand that is
rounded up to the next power of two is the first of the next exponent, which is what
the code writes then (`CodeOf`). Exponents of floats go far beyond `W`, where the provers
know nothing of `2^k`; `Bits` therefore takes the powers of these from the function
`Power`, and `PowerIs` and `PowerAdds` say what is needed of it.

### Harness (`BTestProofs`)

For every word and exponent width the assumptions name, every `TEST_RANGE`, every
list of command lines, with timeouts at any step:

- `PuzzlesScored`: `Spec => []EveryPuzzleScored`;
- `ArraysFit`: `Spec => []ValuesFit`;
- `IntegersRight`: `Spec => []IntegerPuzzlesRight`;
- `FloatsRight`: `Spec => []FloatPuzzlesRight`.

The score is an invariant about the puzzles before `cur` (`ScoreOK`); that it stays
one over a timeout needs that the puzzle that is scored is still `cur`. `ArraysFit`
goes through the ways `gen_vals` fills an array: concatenations are taken from the
definition of `FlattenSeq`, a range is counted, and for no argument of `decl.c` and no
`TEST_RANGE` is there a range of `MAX_TEST_VALS + 1` values, which would overflow.
`LinesAssumption` says that a command line is a sequence of options with numbers
where the code reads numbers.

`IntegersRight` puts the theorems of `BitsProofs` into the harness: the values that
are compared are numbers, which `Bin` cuts to words, and where the result of a test is
defined a shift count is one for which the puzzle is proved (`DefinedCounts`). A count
that the user has given with `-2` is taken as it is; out of its range, and for
`fitsBits` at its end, an error has the verdict "undefined" and not "wrong", and the theorem
says nothing of it. `FloatsRight` needs no such distinction: any argument of a floating
point puzzle is cut to a word, and the puzzles are right for every word.

### Only model-checked

Liveness (`ZombieReaped`, `ForegroundExitWakes`, `LocksGranted`, `TransferEnds`,
`TestsEnd`): fairness and ENABLED are outside of the prover's reach. All invariants,
action properties and refinements of the passing runs are theorems.

## Not modelled

- `csapp.c`: error-handling wrappers and buffered I/O handed out with the lab;
  `proxy.c` calls none of them.
- `fcyc.c`, `clock.c`, `fsecs.c`, `ftimer.c`: measurement of time. With the `config.h` of
  the repository only `ftimer_gettod` is used, an average over repetitions.
- `mdriver.c` beyond the two evaluations: reading of trace files, the same trace on
  libc's malloc, throughput, tables.
- `mm_.c`, `mm_miss.c`, `rb.c`: versions of `mm.c` that the Makefile does not build and no
  program calls.
- `ishow.c`, `fshow.c`, `driver.pl`, `sdriver.pl`, `my*.c`: they print a number, or run the
  programs and compare or add up their output. What `sdriver.pl` and `my*.c` do to the
  shell is in the environment of `Tsh`.
- Text everywhere: messages, formats, the splitting of lines into words.

## Plan

1. Done: the job table, the shell, its abstract specification and proofs; the tree,
   the heap, the driver and their abstract specifications; the proxy's threads, the
   relay of one connection and the pipe it implements; the puzzles and their harness.
2. Done: the proofs of the shell, the tree, the allocator and its driver, the proxy, all
   fifteen puzzles and the harness.
3. Left: nothing of what the runs check but liveness, which stays with TLC.
