# A TLA+ model of the GETFILE project

The repository is a course project on servers and clients in C. This directory
holds TLA+ specifications of its programs, TLC configurations that check them on
small instances, and TLAPS proofs that carry the safety properties to every value of
the constants.
Paths below are relative to `src/`. File names and line numbers in comments
refer to the same tree; `PROJECT.json` maps each definition to its lines.

## 1. Inventory

### The programs

| Part | Source | State it keeps | Operations |
| --- | --- | --- | --- |
| Worker pool of the multithreaded server | `pr1/mtgf/handler.c`, `gfserver_main.c` | `g_queue`, `g_mutex_queue`, `g_cond_remove`, `g_num_threads`, one item per request | `worker_threads_init`, `handler_get`, `add_item`, `remove_item`, `worker_thread`, `_sig_handler` |
| Queue | `pr1/mtgf/steque.c` (= `pr3/steque.c` but for an exit code) | nodes, `front`, `back`, `N` | `enqueue`, `push`, `pop`, `cycle`, `front`, `size`, `isempty`, `destroy` |
| File service | `execute_thread` in `pr1/mtgf/handler.c` | a worker's `file_len`, `bytes_transferred`, buffer; the descriptor all workers share; the library's context | lookup, header, `pread`/`gfs_send` loop, `gfs_abort` |
| Content store | `content.c` in `mtgf` and `gflib`, `pr3/simplecache.c` | the table of keys and descriptors | `content_init`, `content_get`, `content_destroy` |
| GETFILE server library, single-threaded server | `pr1/gflib/gfserver.c`, `handler.c` | the request buffer, the current context | `gfserver_serve`, `get_request`, `gfs_sendheader`, `gfs_send`, `gfs_abort`, `handler_get` |
| GETFILE client library, single-threaded client | `pr1/gflib/gfclient.c`, `gfclient_download.c` | `gfcrequest_t`; the local file | `gfc_create`, `gfc_perform`, `parse_response`, `gfc_cleanup`, the download loop |
| Multithreaded download client | `pr1/mtgf/gfclient_download.c`, `workload.c` | the workload counter and its mutexes, `localPath`'s counter, the local files | `request_thread`, `workload_get_path`, `localPath`, create and join |
| File transfer | `pr1/transfer` | one connection, one file on each side | `send_file`, `recv_file` |
| Echo | `pr1/echo` | one buffer on each side; the listen queue | one `recv` and one `send` per connection and side |
| Web proxy | `pr3/webproxy.c`, `handle_with_*.c` | the response in memory; open files and transfers | `handle_with_curl`, `write_memory_callback`, `handle_with_file`, `handle_with_cache`, `_sig_handler` |
| Command lines, content and workload files | the `main` of ten programs; `content_init`, `simplecache_init`, `workload_init` | the options' variables; the table read | the `getopt` loop, the checks, `fgets`/`strsep`, `fscanf` |
| Cache daemon | `pr3/simplecached.c`, `shm_channel.c` | its options and table | start-up; no service yet |

### How they interact

* The library's accept loop **calls** the handler. In the single-threaded server the
  handler answers in line. In the multithreaded one it only puts an item in the
  **queue**, under `g_mutex_queue`, and **signals** `g_cond_remove` after the unlock;
  workers wait on it, take the item, and answer the client through the same library.
* All workers **share the file descriptors** of the content store: `content_get` rewinds
  one and `lseek` moves it to the end while other workers read it.
* Server and client share a **TCP stream**: header and body, cut anywhere, which either
  side may close, reset, or leave open and silent.
* The workers of the proxy share the **descriptors of the process** with the library, which
  needs one for each connection.
* The threads of the download client share the workload, a static counter and a
  **directory**.

### What is hard, and what correctness means

| Component | Hard behaviour | It is correct when |
| --- | --- | --- |
| Worker pool | signal after unlock, signals to nobody, spurious wakeups, a worker that wakes after another one took the item, failed thread creation, exit signals, clients that stop reading | each request is in exactly one place and served once, in order; the pop never meets an empty queue; no wakeup is lost; a request is served unless as many clients stall as there are workers |
| Queue | operations that meet at zero or one node; a count and a pointer that both say "empty" | it is a queue; nothing leaks or is used after its free |
| File service | an item's memory that held something before, the offset moved by others, a file that changes length, a client that leaves, the library freeing the context in mid-call | the file looked up is the one asked for, up to what its item's memory held; each client gets its file's bytes, as many as announced, or a closed connection; nothing freed is used; every service ends |
| Content store | the table is full after a line; equal keys; the ends of the range | no line lies outside the table; a search finds a key exactly when it is there |
| Single-threaded server | one buffer for all connections, requests in parts, too long, or unfinished; a second close after an abort | a client is answered what *it* asked, wholly; connections are served in order to their end |
| Single-threaded client | a reply cut anywhere, a close or reset at any moment, unsigned arithmetic on -1, lengths that do not fit an `int`, fields nobody set | the local file stays exactly when it is whole; no socket is left; every request ends |
| Multithreaded client | two counters, one of them unlocked; names that meet; a second unlink | paths are handed out in turn; a file whose name is its own is whole or gone; clean-up comes last |
| File transfer | failing system calls, short writes, old local files | what is saved is the file, in order; bytes are missing only after a failure |
| Echo | one `recv` on each side whose result is looked at late or never, an empty message, a full listen queue | a client prints the beginning of its own message; it ends unless the server waits for a message that is empty |
| Web proxy | a transfer that breaks off or has another status, a file that cannot be opened or grows, an error found after the header was sent, files never closed | a client has the file or knows why not; what is lost is accounted for; a request ends unless the handler said nothing, or too much |
| Start-up | options in the string but not in the switch, `atoi` on a word, 16-bit ports, a cut newline that is not there | the program runs with what it was told or does not start; keys, paths and words are read whole |

The hazards, one by one and at their lines, are in `PROJECT.json`, with the properties
that would catch each going wrong.

## 2. Modules

| Module | Models | Used by |
| --- | --- | --- |
| `RequestService` | what any of the servers promises: requests taken up in order, by one worker each, once, and to the end | refined by `WorkerPool`, `GfServer`, `Transfer` |
| `WorkerPool`, `MCWorkerPool` | the pool; one action per step between two points where the scheduler may switch | `WorkerPoolProofs` |
| `ItemQueue` | a queue of items, as `steque.h` describes it | refined by `Steque` |
| `Steque` | the linked list: addresses, `malloc`, `free`, the pointers | `Pr3Proofs` |
| `QueueLemmas` | lemmas on sequences: queues without repetition, cutting and joining | four proof modules |
| `FileService`, `MCFileService` | `handler_get`'s item and `execute_thread`, with the prebuilt library as its external part | `FileServiceProofs` |
| `GfServer`, `MCGfServer` | the single-threaded server, library and handler | `GfServerProofs` |
| `GfClient` | the single-threaded client, library and driver, with any server | `GflibProofs` |
| `MtClient`, `MCMtClient` | the multithreaded client with its workload and directory | `MtClientProofs` |
| `Content` | the table and the search | `GflibProofs` |
| `Transfer` | server and clients of `pr1/transfer` | `WarmupProofs` |
| `Echo` | server and clients of `pr1/echo` | `WarmupProofs` |
| `Proxy` | the set-up and the three handlers of the proxy, with library and clients as external parts | `Pr3Proofs` |
| `Startup`, `MCStartup` | command lines of all programs; content files and workloads | `GflibProofs` |

A proof module extends the module it is about. `GflibProofs`, `WarmupProofs` and `Pr3Proofs`
prove things about others too, which they instantiate with variables of their own
(`Client!` and `Startup!`, `Echo!`, `Proxy!`); the assumptions of an instance are hypotheses of its theorems.

Definitions that begin with the comment "Faulty variant" are not part of a
specification. Each is a bug that could have been made at that place; put in the place of
the real definition it makes a property fail (`PROJECT.json`, "mutants"), which
shows that the property says something about the code.

### How state and actions correspond to the code

**WorkerPool.** `boss` and `pc[w]` are program counters. `g_mutex_queue` holds its owner.
`pthread_cond_wait` is three steps: `CondWait` releases the mutex and starts to wait at
once, `Signal` or `SpuriousWakeup` ends the wait, and `Acquire` gets the mutex back and
leads to the `while` test. `Signal` is separate from `BossUnlock`, as in `add_item`. A
request is the pointer to its item; `accepted` and `served` are history variables.
`proc` tells why the process ended: a failed `pthread_create`, an underflow in
`steque_pop`, a signal. `Next` requires `proc = "run"`.

**Steque.** `item` and `next` are functions on all addresses, `allocated` says which were
given out; memory that was not holds anything. An operation is one step, because its
callers hold the mutex; the assignments in it are composed in the code's order (`Cycle`
on one node makes it point at itself and undoes that). `order` is a history variable,
the sequence of nodes that the operations promise, and `Linked` says that the pointers
spell it out. `Destroy` and `DestroyRound` keep the loop on the count.

**FileService.** `Queue` is `handler_get`: `malloc` returns memory that holds anything, and
`memcpy` leaves behind the name what was there up to the first zero, any of `Leftovers`. That
may come from an item freed before, or from what `content_init` or the library freed; nothing
is assumed about it. `stale` records for which requests it was not empty. `Take` stands for the pool's promise and includes the rewind in
`content_get`. `SeekEnd`, `SendOK`, `PRead`, `Send`, `Abort`, `Finish` are the steps of
`execute_thread`; a byte is a pair of file and position, so a byte of another file or
place is told apart. The library's calls (`HeaderSent`, `DataSent` ... ) are external, read
off the way `handler.c` relies on them. `Resize` and `Leave` are the environment.

**GfServer.** A request is a sequence of tokens; a piece that `recv` returns is any
number of those that were pushed. The buffer outlives the connection, `request_size` does
not; `Before` is the part of it that this request has filled. `Listen` and `SetupFails` stand for
`socket`, `bind` and `listen`. A client that stalls stops sending, or reading (`StopReading`): with
its link "full" the server sits in `send` until it leaves. `Parse` follows `strtok`: a
missing token is a null pointer that goes into `strcmp`.
Writes to the byte behind a full buffer, and sends to a client that left, choose among the
outcomes a build can have.

**GfClient.** `hdr` tells how far the header got: not sent, sent, cut by `recv`, or read
whole. The local file is the sequence of bytes written to it, with 0 for a byte never
received. `bytesrecv` has the width of `size_t` (`SIZE_MAX` is 15): adding `recv`'s -1
subtracts one, modulo 16. A length passes through an `int` (`INT_MAX` is 2, so an `int` is one
of six values) in `AsSize`. `response` and `sockfd` begin "wild", as `malloc` left
them; freeing a wild pointer crashes.

**MtClient.** `LoadCounter` and `StoreCounter` are the two halves of `counter++` in
`localPath`. `dir` leads from names to inodes and `data` holds an inode's bytes, so that
a file unlinked while open, and two threads with one open file, are what they are
on a POSIX system. `gfc_perform` comes from `gfclient.o` and is external.

**Content.** Keys are numbers. `ReadLine` is one round of the loop, with the doubling
of the table. `Sort` picks any order in which keys do not decrease, as `qsort` may.
`Probe` is one round of the search.

**Transfer.** The server's and client's loops with one action per system call and the
failures named in `Faults`. `recv_size` counts what `recv` brought, before it is written; `saved`
what `write` took, where the next bytes go; the client does not notice when they differ
(`unsaved` records it). A send to a client that has left raises `SIGPIPE`. The results
of `bind` and `listen` are not looked at: a server whose port is taken listens at another one,
which is `pc = "elsewhere"`.

**Echo.** A byte is its sender and its position in the message, so a byte that belongs to
another client, or to the stack, is told apart. `queue` is what the kernel holds for
`accept`, of at most `-n` + 1 connections. `ReadError` is a failed `recv`, which
a failed `accept` leads to as well.

**Proxy.** `InUse` counts the descriptors: connections, files and transfers at work, and
those `lost` for good. `header` and `body` are what was sent on a connection; a second
header lands in the body. `OpenFile` may be refused for any reason; a missing file is told apart
from every other. `Performed` may bring any status, of a file that is there too. `ReadAndSend`
reads as much as the buffer holds whatever is left of `file_len`, so that a file which has grown
is sent longer than announced. `why` is a history variable, the reasons for which a request
may not be what its client asked for. `webproxy.c` installs `handle_with_curl`; the other
two handlers have the same type and are checked in its place.

**Startup.** A program is a record: its option string, the cases of its switch with the type
the text is converted to, its defaults, what its USAGE lists, and what it reads. `Option` is a
round of the `getopt` loop, `Checked` what follows the loop. `ReadLine` is one `fgets` with
its cut and two `strsep`s, `ReadWord` one `fscanf`; a piece of a file is the set of its
positions, so that a lost or doubled character shows.

## 3. Runs

| Run | Question | Bounds | Result |
| --- | --- | --- | --- |
| `pool` | Are ownership, underflow freedom, wakeups, order and progress right under every interleaving? | 3 workers, 3 requests, 1 client that may stall; 31 416 states | holds |
| `steque` | Is the list a queue in every sequence of calls? | 3 nodes, 2 items; 7 494 states | holds |
| `file_service` | Which file is a client sent, and what of it, whatever an item's memory held, while others move the offset, the file changes and clients leave? | 2 workers, 2 requests, a stored name and an unknown one it begins with, memory with and without text, 2 bytes; 697 412 states | holds |
| `server` | Is every client answered its own request, wholly, and in turn? | 2 clients, 4 kinds of request, a buffer of 5 tokens; 380 928 states | holds |
| `client` | Which files stay, is a socket left, does every request end? | 2 requests, up to 6 bytes and one extra, an `int` of 6 values, all faults; 12 787 states | holds |
| `mtclient` | Are paths in turn, own files intact, and does the program end? | 2 threads of 2 requests, 2 paths; 551 352 states | holds |
| `mtclient_race` | Does a file that was received whole stay whole? | 2 threads of 1 request, 1 path | violated |
| `content` | Does the table fit and the search find? | up to 4 lines, 3 keys, a first table of 2; 12 052 states | holds |
| `transfer` | Is what is saved the file, in order, and the server a service? | 2 clients, 3 bytes read two at a time, old files of 0 and 4 bytes, all faults; 121 920 states | holds |
| `echo` | What does a client print, and who waits for ever? | 2 clients, messages of up to 3 bytes, buffers of 2, one pending connection; 14 381 states | holds |
| `proxy` | What is a client told and sent, what is lost, which requests never end? | 2 workers, 2 requests, each handler, 2 bytes, a buffer of 2, 3 descriptors; 1 000 544 states | holds |
| `startup` | Does a program run with what it was told and what its files say? | every command line of 2 options with 7 texts, every file of 6 characters; 170 467 states | holds |

Why these bounds are enough to be of interest:

* *Three workers and three requests*: all workers can sleep while items arrive, one
  worker can be woken while another one takes the item it was woken for, and one can
  still sleep. The theorems of section 5 carry the safety part to every number.
* *Three bytes read two at a time*: a full buffer and a partial one, and a short read in
  either. `file_service` has two bytes and a buffer of two, which leaves full and partial
  reads and room for the names.
* *An `int` of six values and lengths up to six*: lengths that fit, that come out negative, and
  that wrap to a small number.
* *Files of up to two bytes and a buffer of two* (`proxy`): a read that brings all, a part, and,
  of a file that was one byte long when it was measured, more than was announced.
* *Three descriptors* (`proxy`): two connections and one file; the second file, or a
  connection after a leak, meets the limit.
* *A backlog of one* (`echo`): the second client waits in `connect` while one is pending.
* *Pieces of four characters, files of six*: a line of two pieces, one that fills a piece
  exactly, missing paths, missing last newlines.
* *Two requests after one another* (`client`, `mtclient`, `server`): whatever a request leaves
  behind (the buffer, the stack, the heap, the local name) meets the next one.
* *Up to four lines in a table of two*: the table doubles with a line to spare and
  without; searches of ranges of 0 to 4 lines with equal keys.
* *Requests of four and seven tokens in a buffer of five*: shorter than the buffer, and
  filled before its terminator comes.

TLC's own deadlock check is off everywhere: every one of these programs may stop (a signal, an
exit after a failed call, `main` returning) and every model is bounded in its requests. What
it would look for is stated instead, as invariants that say who can go on, or whom those who cannot
wait for (`NeverStuck` of `WorkerPool`, `MtClient` and `Echo`, `WaitingIsServed` of `Transfer`,
`NoMutualWait` of `Proxy`, `WaitsOnlyForTheRest` of `GfClient`, `StopsAtTerminator` of `GfServer`),
and as the number that each round of a loop lowers (`ServiceShrinks`, `SearchHalves`). They need no
fairness, and all of them are theorems. The runs of `pool`, `file_service` and `content` check theirs; the
others check the liveness that a state without a next step would break, under its fairness.

### The violation

`mtclient_race` checks a sentence of `pr1/Readme.md:324`, and the counterexample is what the
code does: `counter++` in `localPath` (`gfclient_download.c:51`) is not locked; two threads get
one local name, and the failure of one request removes the file the other one had received.

### Behaviour to know of

These were met while modelling. They are in the models, and the properties say under which
conditions the rest holds (the exceptions in `ClientHasTheFile`, `OwnNameFirst`,
`EveryClientEnds`, `FileKeptExactlyWhenComplete` ...):

* `gfserver.c:119-135`: a terminator that comes behind a full buffer is never seen; the server then
  waits for a client that waits for it, and all others behind both (`StopsAtTerminator`).
* `gfserver.c:201`: `recv` of 0 bytes is a request; the buffer still holds that of the last
  client, and its file is sent to the new one (`AnswersOwnRequest` speaks of clients that sent
  something). A client that ends its connection after `GETFILE` makes `strtok` return NULL and
  `strcmp` dereference it (217), where `pr1/Readme.md:180` asks for `FILE_NOT_FOUND`.
* `gfclient.c:224`: a reset gives `recv` = -1, which wraps the unsigned count and may end
  the loop with result 0, where `gfclient.h:91-93` promises a negative integer. A header
  in two parts is refused (192), one without a status crashes the client (126),
  `gfc_cleanup` frees a `response` that was never set (274), a refused connection exits the
  caller (172), and a length beyond `int` is announced wrong (135).
* `handler.c:139`: the path is copied without its terminator, so a client may be answered
  for another, longer name, or told that there is no file, depending on what `malloc`'s memory holds.
* `transferserver.c:155`: a short send ends the server; `transferclient.c:110`: an older, longer
  local file is not emptied; 127: a short write goes
  unnoticed, and the bytes that follow it land too early.
* `echoserver.c:119`: an empty message stops the server for all; 124: a reset ends it.
* `handle_with_curl.c:68`: a transfer that broke off is passed on as a whole file; 77, 89:
  the handle stays behind; 89: an error after an OK header becomes part of the file.
  75: any status but 200 is told as `FILE_NOT_FOUND`.
  `handle_with_file.c:51`, `handle_with_cache.c:54`: the file is never closed; 38: a file that
  grew after its length was taken is sent longer than announced.
* `gflib/gfserver_main.c:31` documents `-c` and its option string lacks it, `webproxy.c:21`
  the same with `-d`; `transferserver`'s `-n` cannot be reached; `simplecached.c:69` checks for
  1024 where its USAGE says 1000; `webproxy.c:69` checks nothing.
* `content.c:36`: without a final newline the last path loses a letter.
* The `FILE_NOT_FOUND` header carries a length of 0 although `pr1/Readme.md:182` says it
  is left out.

## 4. Fairness

Fairness is assumed only of what a scheduler, or a living peer, does.

* **WorkerPool.** Every thread that can step does so in the end (WF for the boss and
  for each worker). A thread that wants the mutex gets it if it is free again and
  again (SF): with weak fairness, workers that wake spuriously could take it in between for
  ever. `Executed` is fair only for clients that do not stall. Nothing is assumed of
  arrivals, spurious wakeups, failures or signals. `EveryRequestServed` needs fewer
  stalled clients than workers, and the instance has one among three.
* **Steque.** `steque_destroy`'s loop goes on. Callers need not call.
* **FileService.** Each worker runs; a `gfs_send` returns, because the client reads or leaves.
* **GfServer.** The loop runs; a client that does not stall reads, sends its text, and ends its
  half of the connection if the server cannot see the end of its request.
* **GfClient.** The client runs; a server sends what it announced or ends the connection.
* **MtClient.** `main` and the threads run, `mutex_get_path` is fair (SF), `gfc_perform`
  returns.
* **Transfer, Echo.** Server and clients run. Nothing has to fail, and nobody has to connect to
  `Transfer`.
* **Proxy.** Worker threads run; a client that has received all that it was promised closes its end.
  `accept` is not fair: it may lack a descriptor for ever.
* **Content, Startup.** None: everything checked there is safety.

## 5. Proofs

`tlapm` checks every theorem below to its last leaf, for every value of the constants.

**WorkerPoolProofs.** `THEOREM Invariance == SafeSpec => []IInv`; from it
`TypeCorrect`, `ExactlyOnce`, `PopNeverUnderflows`, `WakeupsSuffice` and `NobodyStuck`. None of the
properties is inductive by itself:

* `NoUnderflow` needs to know that a worker at the pop found the queue not empty
  (`PopInv`) and that nobody popped since, because it still holds the mutex (`MutexInv`).
* `ExactlyOneOwner` needs to know when a worker or the boss holds an item (`ItemInv`),
  or a worker could overwrite the one it has.
* `NoLostWakeup` counts: while a worker waits, queued items are at most the workers on
  their way to the pop (`Seekers`) and the signal still owed (`SignalOwed`). A worker begins
  to wait only when the queue is empty; the enqueue adds an item and an owed signal; the
  signal turns a waiting worker into a seeker; a pop takes away one item and one seeker. The
  case that makes it delicate is the signal after the unlock: in between, the items may
  have been taken by others, which leaves more seekers than needed and never fewer.
* `NobodyStuck` follows from the others: the mutex's owner can step; if nobody owns it and nobody
  can step, the workers that are not held by a stalled client wait, and then nothing is queued
  and, by `ExactlyOneOwner`, nothing is left unserved but the stalled.
* `SpawnInv` ties the workers that exist to the index of the creating loop.

`THEOREM PoolImplementsService == SafeSpec => ServiceSafeSpec`: under the mapping
`pending <- g_queue`, `serving <- item`, `done <- served`, `up <- (proc = "run")`, enqueue,
pop and free are the abstract steps, every exit is `Stop`, and all else is stuttering.

**Pr3Proofs.** For `Steque`: `ListShape`: `Linked` is invariant, for any set of addresses. It is
inductive together with `TypeOK`, because the history variable `order` names the nodes
between the ends. `ListImplementsQueue`: with `q` the items of `order`, every operation
is `ItemQueue`'s operation of the same name. For `Proxy`: `FileDelivered` and `LossBounded`, for
any number of workers and requests, any limit on descriptors and any of the three handlers.
`HandlerInv` says at each place of a handler what was sent for its request, and why: while
sending, the bytes that went out, the offset and the library's count are one number, which passes the
length only with a read that found a grown file (the library then owes a negative number and fills nothing in); a
handler that failed has sent nothing, or its client is gone, or it gave up behind a header.
`LostInv` needs a set that grows exactly when a descriptor is lost: `Spent`, the requests past
the last byte that cost one. It does not change when a connection is taken up or closed.
`NoWaitInVain` adds `AnsweredInv`: a handler that is over has sent a header, or had no curl handle; so,
unless it was mute or quit behind its header, a drained client has all it waits for.

**FileServiceProofs.** `BodiesRight`, `NamesRight`, `LengthsKept`, `ContextsLive` for any number
of workers and requests, any files and any names. `OwnerInv` says that a request is in the
hands of one worker. `NamedInv` keeps that an item's string begins with the name asked
for, whatever its memory held, and is that name unless it held text, and that the answer given was
the one for that string. `ServiceInv` is about a worker in its service: its own count, the library's
count and what the client has received are one number, or the header failed and nothing is sent.
That is why the loop's end and the library's `free` come together, which is all that keeps the
context alive (`NoUseAfterFree`), although each side compares with a length of its own.
`RequestInv` keeps for requests that ended what was true when they did.
`ServicesShrink`: `StepsLeft`, twice what is unsent and a little for the place in the code, falls
with every step of a worker in its service and rises with nobody else's, because the loop reads at an
offset of its own and counts against a length it took once: files may change under it. (A send that never returns is
no step; that is where the run's fairness comes in.)

**MtClientProofs.** `PathsInTurn`, `NamesOfOneRequest`, `CleanupLast`. `TurnInv`: with the mutex the
counting and the second reading of the counter are one step, so the k-th path is the k-th
of the workload. `CountInv`: the counter that no lock protects may lose increments but is never
ahead of the requests that have stored it; without that, a name could be out of
range. `InodeInv` keeps the inodes of different names apart, and `OnceInv` carries a
name that one request alone used from its creation to its end; `OwnNameIntact` alone
says nothing of a file that is still being written. `NobodyStuck`: `WaitInv` says that `main` has
created the threads it joins, so the one it waits for is in its loop; that thread waits at most for
the mutex, whose owner is past its only wait.

**GfServerProofs.** `OwnAnswers` and `WholeAnswers`. The buffer is shared by all connections, so what
has to be known is when it stops to hold an earlier client's text: `CtxInv` says that once
`recv` took something, it begins with this client's tokens, `request_size` of them. `ClientInv`
and `WholeOf` keep that for connections that were closed; `QueueInv` says that a connection
waits, is served or is closed, once. `ServerImplementsService` is the safety part of the refinement of
`RequestService`, with the listen queue as `pending` and one worker. `TerminatorSeen`, with
`NoTerminator`: as long as the loop goes on, none of the tokens that reached the buffer ends a request.

**GflibProofs.** For `Content`: `TableBounds`, `SearchLoopInvariant` (the comment at
`content.c:68`) and `SearchIsRight`, from one invariant which adds that the table is
sorted from `qsort` on; `SearchIsShort`: each round leaves at most half of the range. For `GfClient`: `FileKept`, for all lengths and all widths of `int` and
`size_t`, `SocketsClosed` and `NoVainWait`. `ClientInv` relates file, count and stream as long as `recv`
has cut no header and not failed. The proof needed `SIZE_MAX` to be larger by one than the model
assumed: with an extra byte, a length that just came out negative was reached; TLC agrees. `WaitInv`: `recv` fails only
after a reset, and a header that was cut leaves the loop nothing to wait for.
For `Startup`: `OptionsKeptAsTold`, for the ten programs and any texts, from `OptionInv`, which says at
each round of the `getopt` loop what the options before it have told; and `FileReadAsWritten`, for any
file and any `MAX_KEYLEN`. `WordInv` and `LineInv` say that what has been read is what the file
says up to the next character, and that this one begins a line, or no word: else `fgets` or `fscanf`
would take the rest of one for a new one. Lines and fields are counted with `Cardinality`, so the lemmas under
it are about sets of positions and need no induction.

**WarmupProofs.** For `Transfer`: `FilesInOrder`, `FilesWhole` and `ServerImplementsService`. `SentInv`:
what is on its way continues what was received (counted by `recv_size`, which a short write does not stop), what the server has read continues
what it has sent, and the offset is the sum of both; `SavedInOrder` alone does not say where
the next bytes come from. For `Echo`: `OwnBeginningPrinted`. `EchoClientInv` follows a message: before
the server has read from a client all its bytes are under way and nothing is answered; afterwards the
buffer, and then the reply, is a beginning of it. A connection closed without a
reply belongs to a client that has left, so a `recv` of 0 prints nothing. `NobodyForgotten` and
`NobodyStuck` say that nobody waits for a server that is gone: a connection ends with the
process. In `Echo`, `EchoWaitInv` adds that an open connection waits or is served, and that before anything
was read its client's whole message is there; so a server that cannot go on is one whose client has nothing to send.

`QueueLemmas` has the facts on `Append`, `Tail`, the rotation of a queue, and on
`SubSeq` and `\o`, that four of these modules rest on. Every inductive invariant was checked by
TLC on its run's instance before it was proved. The
type invariants are conjuncts of the inductive ones, so those of the pool and the file
service, which their runs leave out, are proved with them (`TypeCorrect`, `TypesKept`).

Assumptions: only those named in the modules, as weak as the code justifies (`-t` is an integer;
the null values are not members of the sets they stand beside; names, texts, leftovers and workloads
are finite sequences; a request's three tokens fit into `BUFSIZ`, of which C demands 256;
`size_t` is wider than `int`). TLC evaluates them in the runs.

**Only model-checked**: liveness (`ServiceSpec`'s fairness, `EveryRequestServed`,
`EveryServiceEnds`, `EveryRequestEnds`, `EveryClientEnds`, `MainReturns`, `DestroyFreesAll`),
because the prover has no `ENABLED`. The theorems above are its safety half: but
for the exceptions they name, in no state is everyone waiting (`NobodyStuck`, `NobodyForgotten`, `NoWaitInVain`, `NoVainWait`,
`TerminatorSeen`), and the service and the search make progress (`ServicesShrink`, `SearchIsShort`). That a
fair scheduler turns these into an end is what TLC adds, on its instances. `KeptFilesStay` does not
hold; its run shows that.

## 6. What is not modelled

* Name resolution (but for its failure in `Echo`), logging, and the setters of the
  libraries, which store their argument.
* The text of headers and requests: tokens and records stand for them. So the copies that lack a
  byte for the terminator (`gfserver.c:208`, `gfclient.c:108`) are not in a model.
* `gfserver.o`, `gfclient.o`: binary; external actions state how the sources use them.
* An empty workload (a remainder by zero, `workload.c:51`) and the mode `WORKLOAD_RND`, which
  nothing selects.
* `shm_channel.c` is empty, and `simplecached.c` ends where its service would begin.
* The submission scripts and exercises have no state that outlives a call.

## 7. Plan

1. *Done*: every program of `pr1` and `pr3`, from its command line to its last close.
2. *Done*: the safety properties of every module, and the refinements' safety parts.
3. *Done*: the part of the liveness that needs no `ENABLED`: nobody waits for ever for somebody
   who waits, and the search and the service have a number that their steps lower.
