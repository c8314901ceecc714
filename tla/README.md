# A verification development of ehp

ehp is an HTTP server: one master process, a pool of worker processes, event
loops over edge-triggered epoll, signals turned into bytes of a pipe, and
hand-written data structures below them. This directory holds TLA+ models of
it, the TLC runs that check them, and TLAPS proofs about them. Paths such as
`process.cc:167` are relative to `src/src/` of the repository.

    tlc -config Prspool.cfg MCPrspool             # a run: PROJECT.json lists them all
    tlapm PrspoolProofs.tla                       # the proofs

## 1. The system

### Parts

| part | state | operations | correct when |
|---|---|---|---|
| process pool (`process.cc`) | master: round-robin index, `stop`, pids in `prs[]`; worker: `stop`, its connections, its pipe | `prspool_init`, `prspool_run_master`, `master_handle_signals`, `prspool_run_worker`, `worker_handle_signals` | every connection is taken by exactly one worker; no wake-up is lost; shutdown leaves no process behind; only own processes are signalled |
| signal pipe (`psignal.cc`) | a socket pair per process | `signal_init`, `signal_handler` | what is signalled is handled in the loop, once the handlers are there |
| poller (`poller.cc`) | epoll's ready list, a batch of events, a map of files | `poller_addfd`, `poller_delfd`, `poller_wait`, `poller_close` | an edge is neither lost nor acted upon for the wrong file |
| worker's event loop (`process.cc:219`) | connections, cache, timers | accept, serve, close, SIGALRM | idle connections are closed, active ones are not |
| timers (`ptimer.cc`) | heap, time stamps in a map, the interval timer | `ptimer_add`, `ptimer_update`, `ptimer_run`, `ptimer_signal_handler`, push, pop | the earliest timer is at the root; every connection has one; the alarm is set for it |
| hash map (`map.cc`) | buckets, `len`, `cap` | `map_set`, `map_get`, `map_iter`, growth | a dictionary |
| response cache (`lru.cc`) | buckets, list of nodes, bytes | `lru_set`, `lru_get`, release, growth | a bounded cache of what was stored |
| sockets (`net.cc`) | none | `tcp_accept`, set-up | outcomes of accept are told apart |
| HTTP (`http.cc`), files (`file.cc`) | the shared 404 response with its open file | parse a request, build a response, read a descriptor empty | answers belong to requests |
| command line, configuration (`args.cc`, `config.cc`, `main.cc`) | `arguments`, `config`, filled once | `args_init`, `config_init`, main's other initialisations | options and settings have the effects that are documented; the start ends |
| clock (`ptime.cc`) | none | `ptime`, `ptime_to_epoch`, `epoch_to_ptime`, add, subtract, compare | stamps differ by the time between them |
| list (`list.cc`) | a ring of nodes, head, tail, `len` | push and pop at both ends | a deque |
| array, read buffer (`array.cc`, `file.cc`) | length and capacity | `array_push_back`, the loop of `file_read_nonblock` | nothing is stored or read behind the end |
| strings, URL (`str.cc`, `url.cc`) | values | trim, split, `url_parse` | as in the comments |
| status texts (`http_constant.cc`) | tables | `http_get_status_msg` | each code has its own text |
| log, regexp, locks, memory macros | output; a wrapper of the C library; unused; library | | |

### How they interact

The master and the workers share one listening socket. Only the master has it
in its poller; when it becomes readable the master writes one byte to the pipe
of the next worker, and that worker calls `accept` until there is nothing left.
Signals reach the loops as bytes of each process's own signal pipe: SIGCHLD
makes the master join workers, SIGTERM and SIGINT make it send SIGTERM to the
workers, which then leave; the last SIGCHLD lets the master leave. In a worker
SIGALRM runs the timers. A worker's timers keep their time stamps in a hash map,
its poller keeps the files in one, requests keep their headers in one; its
cache is a second hash table with a list.

Before all of that, `main` reads the arguments, the configuration they name and
the 404 page; only then are there a socket and processes.

### What is hard

* Edge-triggered events: one that is consumed too early is never seen again.
* Wake-ups go through three hands (socket, master, pipe) while workers crash,
  stop, boot or are slow, and a write can block, fail or be interrupted.
* Signals are coalesced, have fatal defaults before the handlers are
  installed, and interrupt system calls.
* Descriptors and process ids are used again by the kernel.
* Timers outlive connections, and the clock goes on between any two steps.
* The data structures have boundaries that no test of the repository reaches:
  growth, wrap-around, holes, items larger than the whole.
* The start computes lengths by unsigned subtraction, and the clock hands its
  fields to a library function that counts from elsewhere.

`PROJECT.json` lists these hazards one by one, each with its line and with the
properties that cover it.

## 2. The modules

| module | models | kind |
|---|---|---|
| `Prspool` | pool, signal pipe, poller | component (composition of the processes) |
| `Server` | what the pool promises | abstract specification |
| `MapTable` | hash map | component |
| `Dictionary` | what the map promises | abstract specification |
| `Lru` | response cache | component |
| `FifoCache` | what the cache promises | abstract specification |
| `AnswerCache` | what the workers rely on in it | abstract specification, used by `WorkerIO` |
| `TimerHeap` | heap of timers | component, used by `Worker` |
| `TimerQueue` | what the heap promises | abstract specification |
| `Worker` | a worker's loop with timers, descriptors, events, time | component (composition) |
| `WorkerIO` | what a worker reads, answers, caches, keeps and closes | component |
| `Startup` | `main` up to the pool, with command line and configuration | component |
| `List` | list, with a deque beside it as history | component |
| `Buffers` | array and read buffer | component |
| `Ptime` | clock | component |
| `Str`, `Url`, `Status` | strings, targets of requests, status texts | operators |
| `MCLibrary` | the four lines above, side by side | composition for TLC |
| other `MC...` | values of the constants for TLC | |
| `PrspoolProofs`, `MapTableProofs`, `LruProofs`, `TimerHeapProofs`, `WorkerProofs`, `WorkerIOProofs`, `StartupProofs`, `LibraryProofs` | theorems | |

Definitions whose comment says *Mutant of X* are wrong versions of `X`, as a
plausible bug would have it. No specification uses them; each is there to show
that a property is violated when it replaces `X` (`PROJECT.json`, "mutants").

### Prspool and Server

Processes are `0 .. NPrs`, the last one being the master. `mpc` and `wpc[w]`
say where a process is; between two steps of one process any other may move.

* `Fork` is one turn of the loop of `prspool_init`; `MasterBoot` and
  `WorkerBoot` are what comes before the loops. A process that gets a signal
  before that is killed (`MasterKilled`, `WorkerKilled`), SIGCHLD excepted.
* The poller is `pending` (epoll's ready list) and `batch` (the array of
  `poller_wait`). `EpollWait` moves the one into the other, `Take` takes one
  event in any order (the code goes backwards through an array whose order the
  kernel chooses). What is readable when a file is added counts as an edge.
* `MasterTakeListen` and `Notify` are the two halves of the round-robin step:
  between them the worker may die (`NotifyDead`), its pipe may be full (the
  master then waits), a signal may interrupt the write (`DeliverMaster`).
* `HandleChld` is the whole `waitpid` loop with the search for the pid and the
  computation of `stop`; `HandleTerm` is the loop of `kill`s.
* `ReadPipe`, `Accept`, `AcceptAgain`, `AcceptError` are the worker's branch for
  its pipe, one step per `accept`, so that workers compete for the backlog.
* `Die` is what the kernel does with a process that ends, in whatever way.
* `lost` is a history variable: it is set by the faults that swallow a wake-up
  and reset only when the backlog is empty.

Left to the kernel: order within the backlog, which of two processes runs. A
connection a worker holds is closed at any time here (`Close`); why and when is
the matter of `Worker`.

`Server` has a queue, what each worker serves, and which processes are there.
`Prspool` implements it: a connection is in one place only, is taken by a
running worker only, goes away only with its worker, and the head of the pool
leaves regularly only after all workers are gone.

### MapTable and Dictionary

`cap`, `bks` and `len` are the fields of `map_st`; keys are model values with a
hash each, so that collisions are chosen and not computed. `Targets` is the
bucket at which `map_set_actual` stops, `Lookup` the loop of `map_getref` (which
goes on over free buckets). `Grown` is `map_realloc` as it is written: it skips
`i` when `map->bks[i]` is NULL, after `map->bks` was set to the new, empty
buckets; so nothing is moved. `written` is history.

`Dictionary` is what remains true: a look-up returns the value set last, or
nothing; a call may forget all other keys, never some of them, and never
returns an old or a foreign value. `Worker` uses the map through it, which
`StampsHold` proves.

### Lru and FifoCache

Nodes are records, the list is a sequence from head to tail, the table is an
array of nodes. `Put` is `lru_hash_set` followed by `lru_list_set`; `Kept` is
the list after `lru_release`, `Without` the table. `Rehashed` keeps the code's
two quirks: nodes move in the order of the old buckets, and no more of them
than `len`, which is a number of bytes. The cache is used as the worker does:
look up, and store on a miss (`Miss`). Responses have at least one byte, since a
response has a status line; `LruAssumption` says so, and `SameNodes` would not
hold otherwise.

`FifoCache` says that a look-up finds exactly the entries of the list, that
entries leave at the old end and only if the new one does not fit, and that a
hit changes nothing: the code, in spite of its name, does not move an entry
that is used to the front. `AnswerCache` says less, and only what the workers rely
on: what is found for a key is what was stored for it, and whatever else was
stored may be gone. `Lru` implements it as well, with what `lru_get` would find
for its pairs.

### TimerHeap and TimerQueue, Worker

`TimerHeap` is the heap with indices from 1. Push and pop are written as what
they do to the whole array: `Pushed` places the timer below the nearest
ancestor due before it, `Emptied` are the places a pop empties on its way down.
`TimerQueue` is a bag from which a pop takes one of the earliest timers.

`Worker` is one worker in time. `Tick` may come between any two steps, moves the
clock and raises SIGALRM when the interval timer is due. `HandleAlarm` is
`ptimer_signal_handler` with everything it calls (`ptimer_add` with push, update
and run; pop; run). `Run` is `ptimer_run`, which sets the alarm for the timer at
the root and switches it off when that one is overdue. `Accept` takes the lowest
free descriptor, as the kernel does, so timers and events of a connection that
was closed meet the next one with its descriptor. `Serve` is the branch for a
readable connection: its stamp is renewed even if the descriptor is closed by
now, and the connection may be closed afterwards. `active` is history.

A handler that finds the heap empty reads outside the array; the model has no
step for that (`HandleAlarm` needs a timer), and `AlarmHasTimer` states when it
cannot happen. It can happen in the code, and in the model, after the map of
stamps has grown, or if SIGALRM waits for as long as the timeout: an alarm that
was set before stays set when the last timer is popped, because `ptimer_run`
returns early.

### WorkerIO

`WorkerIO` is the same branch of the loop as `Serve` of `Worker`, with contents
instead of time. A read takes all segments of a connection (`Read`), meets the
end of the connection (`ReadEnd`) or an error (`ReadNothing`); the first request
of the text is answered from the cache, from a file, or with the 404 page, and
the connection is kept or closed (`Answer`). Each of these is a disjunct of
`Serve`; none of them is interrupted, since a worker is a process of its own
and what arrives meanwhile might as well have arrived after it. `peer` says
whether a client may still send, has ended or has reset its connection, and
whether `read` has told of a reset, which it does once.

Requests have a path, a version and a header `Connection`; `grown` says that the
map of headers grew after that header, which by `MapTable` makes it disappear.
`form` is "nomatch" if the first line, or the target in it, is not what the
regular expressions want: `http_req_new` returns NULL, which ends the worker
(`ServeUnparsable`). It is "nocolon" if the last header has no colon: then
`strchr` finds one in what follows it, and the header is passed over, or none,
and the null pointer ends the worker, too (`Parses`, `Alone`). `Torn` are the
requests that may arrive in two segments; a worker that reads only the first of
them parses it or ends, depending on where it was torn, and one that reads only
the second ends. Several requests in one text are read together, and only the
first is answered. `last` (history) is the request that was read and whether it
was read whole.

`file[w]` is the descriptor table of a worker and `atEnd` the position in the
one open file of `http_rsp_404`, which `http_init` opens before the fork. The
first 404 reads it to the end and closes the descriptor in its worker
(`ServePage`). After that the page cannot be read any more: `ServeNoPage` is the
null pointer that ends a worker, `ServeForeign` the read of a connection that
got the descriptor. That connection loses it, which `asPage` (history) keeps, so
that `ClosesAsAsked` excepts it and no other.

The cache of a worker is a set of pairs, an `AnswerCache` (`Memory`), so that
`Store` may drop any of the others; that it is used as `AnswerCache` has it, and
that the cache of `lru.cc` is one, are two theorems. The text of a whole read is
its key, so `given` (history) says what each worker answered to each text.

A path names a file, nothing, or a directory (`Directory`). A directory can be
opened and has a size, but `read` of it fails: `ServeDirectory` is the null
pointer again. `Edit` replaces, removes or puts either while the server runs.

### Startup

`pc` follows `main`: arguments, configuration, log, 404 page, pool, and how it
has ended. A word of the command line is a long option, a group of letters or
anything else; `LongOption`, `ShortOptions` and `NoOption` are one turn of the
loop of `args_init`, and `TakeFile` the word after `-c` or `--config`, whatever
it is. The configuration is what `str_split` leaves of the file, so that a file
that ends in a newline has an empty last piece; `NLines` is the number of lines
the loop goes through, an unsigned subtraction; `Line` is what the loop finds at
its index, which may be behind the end. `ReadNothing` is the null pointer that
`config_init` follows for an empty line, `Value` what the code cuts out of a
line, one character short if there is no space after the colon. A map that has
taken `factor` settings, `Factor` at first, forgets them with the next one and
doubles its factor, as `MapTable` shows.

`PoolInit` is `prspool_init` up to its first fork. `Numbers` are the values of
`worker` that are numbers of workers: the pool runs with one of those. With zero,
which `atoi` makes of a word and of nothing, too, the loop forks nobody,
`is_master` stays false, and `main` goes on as a worker with `the_worker` null:
a crash, as are more workers than there can be. A number below zero is an
allocation that fails.

### The parts below: List, Buffers, Ptime, Str, Url, Status

`List` is the ring with its links; `ring` (history) is the deque it stands for.
`Buffers` has the lengths and capacities of the two buffers that double: the
array grows before a value is stored, the read buffer after a read.

`Ptime` is the local time as a calendar, without summer time, which passes
through months and years. `Now` is `ptime` with its rounding, `MkTime` is
`mktime` as it takes years, months and days, `Civil` is `gmtime`. The code hands
over months from 1 and whole years, where `mktime` counts from 0 and from 1900,
so that a stamp is of a day about a month and 1900 years later. The difference
of two stamps is right within a month; at the end of a month whose next one is
shorter, the clock goes back by a day or more. Local time is `Zone` ahead of
UTC: `mktime` takes it off (`ToEpoch`) and `gmtime` does not put it back
(`FromEpoch`), so that `ptime_add` is off by as much.

`Str` are trimming and splitting, with positions from 0 as the code has them;
`Url` is `url_parse` with the positions the regular expression yields, and the
loop that is left when there is no query; `Status` are the tables.

## 3. The runs

| run | bounds | shows |
|---|---|---|
| `Prspool` | 2 workers, 2 connections, pipe of 1 byte, 1 crash (worker 0), 1 stop | `TypeOK`, `NoLostWakeup`, `ExitReapsAll`, `KillsOnlyOwn`, `ImplementsServer`, `HandledUnlessLost`, `ShutdownCompletes`, `LastDeathEndsMaster` |
| `Prspool_pipe` | 1 worker, 3 connections, pipe of 2 bytes read 1 at a time, crash, accept error, stop | `FullPipeSeen`, `NotifyCompletes` |
| `MapTable` | 5 keys of hashes 3, 19, 0, 34, 7, 2 values, 4 buckets that grow to 16, 8 calls | `TypeOK`, `KeyUnique`, `AlwaysRoom`, `IterVisitsAll`, `ImplementsDictionary` |
| `MapTable_growth` | the same | `GetReturnsLast` is **violated** |
| `Lru` | 4 keys, responses of 1, 3 and 9 bytes, 8 bytes, 2 buckets, 6 stores | `SameNodes`, `LenIsBytes`, `Bounded`, `TableHasRoom`, `ImplementsFifoCache` |
| `TimerHeap` | 5 timers at 4 times, up to 7 in the heap | `HeapOrdered`, `ImplementsQueue` |
| `Worker` | 2 descriptors, 3 connections, timeout 2, 4 ticks, lag 1, 1 growth | `TypeOK`, `EveryConnTimed`, `AlarmHasTimer`, `ClosesOnlyIdle` |
| `Worker_idle` | the same without growth | `IdleIsClosed` is **violated** |
| `WorkerIO` | 2 workers, 2 connections, 5 requests for 2 paths (2 of them malformed), 3 segments, 1 edit, 2 drops | `TypeOK`, `UnreadIsAnnounced`, `ClosesAsAsked`, `RightAnswers`, `ReadIsAnswered` |
| `WorkerIO_page` | no edits, whole requests | `MissingGetsPage` is **violated** |
| `Startup` | 3 words with a file that serves, or no words with up to 6 pieces; values of `worker` that are a number, zero, cut or missing; a map of 3 settings, lengths of 4 bits | `ArgumentsTaken`, `SettingsTaken`, `CrashExplained`, `StartEnds` |
| `Library` | texts of up to 5 of 5 characters, 6 nodes, capacities that double three times, the years 2000, 2015, 2016, 2018 and 2100 with days of 2 ms, half a day ahead of UTC | `TextsRight`, `RingIsDeque`, `BuffersHold`, `ExactWithinMonth`, `BackAfterLongMonth` |

Why these bounds are enough to be interesting. Two workers are the least for
round-robin, for a crash of one while the other goes on, and for competition
for the backlog; a pipe of one byte is full as soon as one byte is unread, and
`Prspool_pipe` has a pipe longer than a read. In `MapTable` the ring wraps, a
key is displaced by a collision, and the table grows within the eight calls. In
`Lru` one response is larger than the cache, releases take one or several
nodes, keys collide in every table, and growth happens with nodes in the table.
A heap of seven has three full levels. In `Worker` three connections on two
descriptors make one descriptor be used again while its first timer is still
in the heap. In `WorkerIO` two descriptors and two connections are the least
that let a connection have the descriptor of the page while another one asks
for a missing file, and three segments let it happen. In `Startup` three words
let a path follow an option that is followed by another, one of the files is
named as an option is, six pieces are a file that grows the map, and a length of
4 bits goes below zero as one of 32 does, to a number the loop can still be
run to. In `Library` the five characters are those that trimming, splitting and
parsing tell apart, and the years are an ordinary one, a leap year, the one
before it and a century that is none; only the ends of days matter, so that a
day of two milliseconds, in four halves, has all cases of rounding.

`WorkerIO` declares workers and connections symmetric: nothing orders them, and
it checks no liveness. Runs with liveness have no symmetry. `CHECK_DEADLOCK
FALSE` stands where the system really ends: the pool has exited, or a bound on
calls or time is reached.

### Fairness

`FairSpec` has weak fairness for the steps of the master as a whole, of each
worker as a whole, and for the delivery of each signal: the operating system
gives every process the processor and delivers signals. Nothing is assumed of
clients, operators and faults, and none of a single action within a process.
The master blocked on a full pipe has no step enabled, so fairness does not let
it go; that `NotifyCompletes` holds is due to the workers. `Startup` has weak
fairness of its next step: the program runs, and reading its files does not
block.

### Where the code and its comments disagree

1. `MapTable_growth`: "return pointer to the value, NULL if no such key"
   (`map.h:39`). Growth loses all elements (`map.cc:63`).
2. `Worker_idle`: "connection timeout in milliseconds" (`process.cc:232`).
   When two connections are due together the alarm closes one of them, and
   setting it for the other switches it off (`ptimer.cc:124`): that one is
   never closed.
3. `WorkerIO_page`: "404 page" (`http.cc:29`). It can be read once
   (`http.cc:166`); the next request for a missing file ends the worker.

Others have no run that is violated: the models follow the code, and the
properties say what is left.

* "new connection, inform one of the worker to handle it" (`process.cc:164`): a
  worker that died keeps its turn, and the connection announced to it waits for
  the next one (`process.cc:167`). `HandledUnlessLost` excepts it.
* "return all the content in nonblocking fd" (`file.h:13`): what precedes the
  end of the connection is dropped (`file.cc:80`). `ReadIsAnswered` excepts it.
* "-d, --daemon  display version info and exit" (`args.cc:18`): the option sets a
  field that nothing reads (`args.cc:63`), and the server runs. `ArgumentsTaken`
  leaves it out.
* "path: /baidu.com/subpath" (`url.h:7`) of a target with a query and a fragment:
  the path has the `?` or the `#` as its last character (`url.cc:62`), so that a
  request with a query names a file that is not there. `PathAsWritten`, a conjunct
  of `TextsRight`, is about targets without either.
* "the time from t, after millisecond" (`ptime.h:28`): `mktime` is local and
  `gmtime_r` is UTC (`ptime.cc:84`), and the time is off by the offset. Nothing
  calls `ptime_add`. `ExactWithinMonth` adds the offset.
* The comment at `url.h:10` says what the fragment is: without a query none is
  set (`url.cc:70`), with a query alone the query is, and it has its `#`
  (`url.cc:82`). No property is about such targets, and nothing reads the
  fragment.
* "milliseconds since epoch" (`ptime.h:33`): months are one too high and years
  1900 (`ptime.cc:74`). `BackAfterLongMonth` says when the clock goes back.
* The texts of codes from 300 to 308 are shifted by a missing comma
  (`http_constant.cc:27`), and those behind a gap of the codes cannot be found
  by their index; responses have 200 and 404 only. `Listed` excepts both.
* `len` of a map is "how many elements the map x holds" (`map.h:42`), but
  overwriting a key counts, too (`map.cc:100`). `MapTable` has it so;
  `AlwaysRoom` and `IterVisitsAll` hold because the count is only ever too large.

## 4. The proofs

`PrspoolProofs`, for every number of workers, set of connections, size of pipe
and buffer, and every bound, from `ConstAssumption` alone:

* `TypeCorrect`. One lemma per group of actions.
* `Bookkeeping`, an inductive invariant that relates the master's table to the
  processes: a worker is joined in `prs[]` exactly if the kernel has reaped it;
  after the forks no worker is unforked; if `stop` is set all are joined; and the
  master has left regularly only with `stop` set. It is needed because `stop`,
  `kill` and the refinement read `pid`, while the properties speak of the
  process itself.
* `ExitReapsAllHolds`, `KillsOnlyOwnHolds`: from `Bookkeeping`.
* `FullPipeSeenHolds`, `NoLostWakeupHolds`: both are inductive once the types
  are known.
* `PoolImplementsServer`: initial states map to initial states, and each
  action to a step of `Server` or to a stutter, under the invariants above.

`MapTableProofs`, for every set of keys, every hash function and every initial
capacity of at least four:

* `TypeCorrect`.
* `KeyUniqueHolds`, with `ProbeChain` as the strengthening: between the home of
  a key and its bucket no bucket is free. Without it a key could be stored
  again in an earlier bucket.
* `AlwaysRoomHolds` and `IterVisitsAllHolds`, from an invariant that bounds the
  number of occupied buckets by `len` and by the factor; cardinalities are
  argued with the library's theorems about finite sets.
* `TableImplementsDictionary`, from the key invariant.

`WorkerIOProofs`, for all sets of workers, connections, paths and requests, any
number of descriptors, and every bound, from `WorkerIOAssumption`:

* `TypeOKHolds`.
* `UnreadIsAnnouncedHolds` (of ends and resets, too), `ClosesAsAskedHolds`. Three more facts are needed to
  make them inductive: a connection has one descriptor, in the worker that
  accepted it (`Owned`); what is cached was given (`Remembered`); and of an
  unaccepted connection nothing was read (`FirstAccepted`). Each kind of `Serve`
  is treated by what it does to descriptors, events and history
  (`ServeEffect`), so that each conjunct is argued once and not nine times.
* `RightAnswersHolds` and `ReadIsAnsweredHolds`, action properties, from the
  same invariant. The second is about every request of the text that is read;
  each exception it names is one of the disjuncts of `Serve` that give no answer.
* `CachesHold`: each worker's cache is an `AnswerCache`. With `KeepsContract` below,
  the cache that `WorkerIO` assumes is the one that `Lru` models, although the one
  has sets of pairs and the other buckets, holes and bytes.

`TimerHeapProofs`, for all timers, without any bound on their number:

* `HeapOrderedHolds`. There is no induction over the levels of the heap: where
  a claim goes up or down the array, the least place at which it would fail is
  taken, and its parent or child contradicts it. So what `Pushed` and `Emptied`
  do along a path is known at every place (`PushedShape`, `EmptiedIs`), and
  order needs only parents and children (`PushedOrdered`).
* `ImplementsQueueHolds`: what is pushed is added to the bag, and what is popped
  is one of the earliest and the only one that leaves. The bags are compared by
  how often a timer occurs in the array.

`LruProofs`, for all requests, responses, hash functions and sizes that
`LruAssumption` admits:

* `SameNodesHolds`, `LenIsBytesHolds`, `BoundedHolds`, `TableHasRoomHolds` are
  parts of one invariant, `LruInv`, none of which is inductive alone. That a
  bucket is free needs that there are no more nodes than bytes; that the bytes
  are right needs that what is taken from the list is what leaves the table; and
  that the right node leaves the table needs `Matches`: list and table have the
  same nodes, each once. The holes that releasing leaves need no argument about
  probing, since a look-up goes round the whole table; storing on a miss only is
  what keeps a key from being there twice.
* The number of bytes is the cardinality of the set of all bytes of all nodes,
  so that it needs no sum over a sequence, and the library's theorems about
  finite sets apply.
* `ImplementsFifoCacheHolds`: each response that is stored, with all that
  is released and rehashed for it, is a step of `FifoCache`.
* `KeepsContract`: what the look-ups would find are the pairs of the list
  (`FoundIs`), of which a store keeps a prefix, so that it is a step of
  `AnswerCache`.

`WorkerProofs`, for any descriptors, connections, delays and bounds:

* `ClosesOnlyIdleHolds`, from `StampTrue`: the stamp of an open descriptor is
  the time of its last activity, or there is none. Nothing about the heap is
  needed, which is the point: whatever timer goes off, and whoever had the
  descriptor before, it is the stamp that decides.
* `TypeOKHolds` and `EveryConnTimedHolds`, from `TimedInv`, which adds that the
  heap is in order and that no stamp is of the future. The theorems about the
  heap are taken from `TimerHeapProofs` with the timers of the worker.
* `AlarmHasTimerHolds`, from `AlarmInv`. `AlarmHasTimer` says that a handler
  finds a timer, and it is far from inductive: of two SIGALRMs that wait, the
  first may pop the last timer. What prevents it is that a second one is only
  sent, or an alarm is only set, if a connection was accepted or served since
  the first was sent; its timer is `Young`, and a handler does not close it but
  pushes it again. That uses that a SIGALRM waits less than the delay
  (`MaxLag`), and that the map of stamps has not grown (`forgets`).
* `StampsHold`: the map of stamps is a `Dictionary` whose history is `active`. With
  `TableImplementsDictionary` this is the contract between the worker and its map,
  which is as far as the growth of the map can hurt it: stamps are missing, never
  wrong.

`StartupProofs`, for all arguments and configurations:

* `TypeOKHolds` and `CrashExplainedHolds`, from what the unsigned subtraction
  yields: of a file with a newline the loop sees no line but those before the
  last two pieces, whatever the width of the length (`LineBeforeEnd`), so that a
  crash there needs an empty line among them. The others are the missing page and
  a setting of `worker` that is no number there can be.
* `SettingsTakenHolds`, from `SettingsInv`: as long as the map need not grow, it
  has for each key what the last line before `i` says that sets it, and its
  length is the number of such lines.
* `ArgumentsTakenHolds`, from `ArgumentsInv`: the loop is at an option, never at
  the path of one, and the options before it have had their effects. Which words
  are options is a recursive function of the words (`Options`), and the proof
  begins with the equation it satisfies (`OptionsAre`). It says nothing of `-d`.

`LibraryProofs`, for any number of nodes, all capacities to begin with, all
years, any offset to UTC, and texts of any characters and any length:

* `RingIsDequeHolds`, from `ListInv`: the ring is of nodes that were made, each
  once, linked both ways. Without the distinctness a push or a pop could change
  a link in the middle.
* `BuffersHoldHolds`, from `BuffersInv`.
* `ExactWithinMonthHolds` and `BackAfterLongMonthHolds`, from `PtimeInv`: the
  local time is a date. The days before a year and before a month are closed
  formulas (`DaysBeforeIs`), `Civil` is shown to find the year and the month
  (`CivilIs`), so that a stamp that is taken apart and put together again is
  itself (`StampTakenBack`). The first attempt failed, with reason:
  `ExactWithinMonth` looked for the length of the month in the year of the
  stamp, but `ptime_add` hands that year to `mktime`, which takes it for one 1900
  years later: 2000 is a leap year and 3900 is not, and no run had the year 2000.
  The property now names the year that `mktime` has in mind (`TakenForDay`), and
  the run has the year 2000. The offset to UTC cancels in the difference of two
  stamps, and is added to what `ptime_add` is given (`LocalStamp`, `ZoneCancels`).
* `TextsRightHolds`, for texts of any length, from one theorem for each of its
  parts. `PathHolds` and `TrimsBothHolds`: the first non-space is
  a least element and the last one a greatest, and equality of texts is equality
  at each position.
* `SplitsToJoinHolds`. The pieces are a recursive function of the number of pieces,
  and the library's induction over data is not available. Instead a solution of
  the recursion is built for one more piece at a time (`RowsAre`), which shows
  that the function satisfies its equation; what its rows promise
  (`SplitsFrom`) is shown at the least number of pieces for which it would fail.
  Joining is compared with the text at the last piece where they would differ
  (`JoinedIs`).
* `OwnTextHolds`, of the tables of status texts: the array of a class starts with
  its codes, and what is appended to it changes no entry before.

Only model-checked:

* liveness (`HandledUnlessLost`, `NotifyCompletes`, `ShutdownCompletes`,
  `LastDeathEndsMaster`, `StartEnds`), which the provers cannot treat under
  fairness;
* the three properties of the runs that expect a violation.

## 5. Assumptions and what is left out

* Allocation never fails; `fork`, `socketpair` and `epoll_ctl` succeed.
* `poller_wait` interrupted by a signal returns NULL and is called again, which
  is no step. An `epoll_wait` reports readable files only.
* The signal pipe is never full.
* `Worker` has a clock that only goes forward. The code's clock does so within a
  month; `Ptime` shows when it does not. `Ptime` has a constant offset to UTC, and no
  summer time.
* In `WorkerIO`, the page is there when the server starts (`Startup` has the
  other case), an open file keeps its contents, and descriptors do not run out
  while a file is opened. The result of `write` is ignored by the code, so any
  prefix of an answer may reach the client; bodies are not modelled. Which texts
  the regular expressions match is left out: a request matches or does not.
* In `Startup`, a file that is opened can be read, and a number of workers that
  was cut may be anything. A file has no more pieces than an `int` counts
  (`str_nsplit`), which a `len_t` holds; `StartupAssumption` says so.
* Of `url_parse` the map of the query's fields is left out: the code writes
  behind its buffer (`url.cc:30`), and nothing reads the map.
* In `Worker`, a SIGALRM is handled within `MaxLag`, less than the timeout.
* Not modelled, with reasons: see "components" of `PROJECT.json`.

## 6. Plan

Done: the pool; the map; the cache; timers and the worker in time; what the
worker reads and writes; the start; the parts below; proofs of every safety
invariant, action property and refinement that the runs check, and of the
contracts between the workers, their caches and their maps of stamps. Left:

1. An abstract site that `WorkerIO` implements: exchanges of requests and
   answers with the exceptions its properties name.
2. `Worker` over the clock of `Ptime`, with an idle connection over the end of a
   month.
