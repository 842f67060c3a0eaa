# A TLA+ model of modbusd

modbusd is a daemon that turns JSON requests from ZeroMQ clients into Modbus TCP
transactions with slaves and publishes a JSON answer to each. This directory models
its core, checks it with TLC on small instances and proves the facts that matter most
with TLAPS for every instance.

## The system

| Part | Source | State | Operations |
| --- | --- | --- | --- |
| request loop | `main.c` | the two sockets, `zctx_interrupted` | receive, parse, dispatch on mode and `cmd`, answer |
| Modbus TCP commands | `modbusd.c`, `modbusd.h` | `mbtcp_htable` (address and port -> handle), `tcp_conn_timeout_usec` | find or create a handle, connect it, set the unit id, one transaction per function code, set the timeout |
| handle table | `uthash.h` | two chains through the elements, buckets, counters | `HASH_FIND`, `HASH_ADD` (with bucket expansion), `HASH_DELETE`, `HASH_CLEAR`, `HASH_SRT` |
| JSON | `json.c`, `json/cJSON.c` | item trees | parse, look up a member, build and print an answer |
| configuration | `main.c`, `json.c`, `config/modbusd.json` | a file, its parsed form | read at start, rewritten at exit |
| service script | `config/service.sh` | the pid file | start, stop, `retart`, uninstall |
| outside | libmodbus, ZeroMQ, TCP, slaves, clients | sockets, transaction ids, what a slave executed | - |

`main()` is one thread. It blocks in `zmsg_recv`, then in `modbus_connect`, then in the
receive of libmodbus, each bounded by a timeout except the first. While it blocks,
clients publish more requests, slaves answer or do not, connections are cut, and a
signal may arrive. That interleaving, with the state the daemon keeps from one request
to the next (the handles: connected flag, unit id, transaction counter, whatever is
still in a socket), is what is hard here. Nothing is retried, nothing is persisted but
the configuration.

What makes each part correct:

- *request loop*: one answer to each request, in order, under its own `tid`; no documented
  request ends the daemon; a signal loses no answer of a request already taken.
- *commands*: a request reaches the slave and the unit it names, is executed at most once,
  and "ok" means it was; an answer reports the request's own confirmation although
  confirmations arrive late, or never; no second handle for an address, no live socket left behind; names and
  lengths stay within their buffers.
- *handle table*: what was added is found, whatever the hash function, through every
  expansion; chains stay bounded.
- *JSON*: of the tokens of a text JSON and nothing else is accepted; what is printed is parsed again as it was; every
  item is freed once, when an allocation fails too; no buffer is written past its end.
- *values*: a number written is the number read, the `tid` comes back, whatever way each was
  written; what the configuration holds does not drift as daemons rewrite it.
- *configuration, service script*: the file can be read once every daemon has
  ended, an edit made while none ran is not lost, a signalled daemon ends, one daemon runs.

## Modules

| Module | What it is | Lines modelled |
| --- | --- | --- |
| `Modbusd` | the daemon, its handles and connections, the slaves, the network, the clients | `main.c:71-224`, `modbusd.c:29-606`, `json.c:11-19` |
| `RequestService` | what the daemon promises its clients, `Safety` and `Progress` | abstract |
| `ModbusdService` | `Modbusd` with the refinement to `RequestService` | - |
| `ModbusdProofs` | theorems about `Modbusd`: types, handles, confirmations, what the slaves execute and what the answers say of it | - |
| `ConnectionProofs` | ... what becomes of a connection after timeouts and faults | - |
| `ServiceProofs` | ... the refinement, step by step | - |
| `LifecycleProofs` | theorems about `Lifecycle` | - |
| `Uthash` | the hash table, element by element and bucket by bucket | `uthash.h:99-260`, `613-731`, `736-821`, `866-875`, `898-964` |
| `UthashProofs` | theorems about `Uthash`: links, buckets, what a find finds | - |
| `TableProofs` | ... what it counts, how long its chains get, that it is a `KeyedList` | - |
| `KeyedList` | what the daemon needs of the table | abstract |
| `CJson` | parsing a text, building and printing the answer to it, parsing that again | `cJSON.c:38-93`, `323-434`, `436-713` |
| `CJsonProofs` | theorems about `CJson`: the items form trees | - |
| `Lifecycle` | service script, configuration file and several daemons from start to end | `service.sh:17-35`, `main.c:32-61`, `91-130`, `json.c:21-55` |
| `Numbers` | a JSON number from its text to a double and an int, and back to a text | `cJSON.c:96-176`, `702-705` |
| `Values` | the numbers of requests through the handlers, the slave and the answers | `modbusd.c:109-367`, `json.c:16-19` |
| `Scalars` | the strings and numbers of the configuration, read and printed round after round | `cJSON.c:178-311`, `main.c:32-61` |
| `ScalarsProofs` | theorems about `Scalars` | - |
| `MCModbusd`, `MCService`, `MCUthash`, `MCCJson`, `MCValues`, `MCScalars`, `MCLifecycle` | instances for TLC | - |

`Modbusd` abstracts what `CJson` and `Lifecycle` treat in detail: a request is what
`CJson` parses, and the loop of `Modbusd` is what runs between `Loop` and `Truncate` of
`Lifecycle`.

Below `CJson`, whose tokens are whole strings and numbers, lie `Numbers` and `Scalars`. `Values` has
the handlers again, with the numbers that `Modbusd` leaves out and without what can go
wrong on the way to a slave.

The table of `Modbusd` is a function from keys to handles. `Uthash` is the reason it may
be: it implements a list of distinct keys, finds exactly those, and `HASH_ADD` is
reached only after `HASH_FIND` has failed (`lazy_init_mbtcp_handle`).

### Modbusd

`pc` says where `main()` blocks or branches:

| `pc` | In the code | Leaves by |
| --- | --- | --- |
| `recv` | `zmsg_recv` | `Recv`, `Stop` |
| `dispatch` | `main.c:134-214`, up to the call of `mbtcp_init_handle` | `Refuse`, `IgnoreRtu`, `mbtcp_set_response_timeout`, `NameOverrun`, `FindHandle`, `mbtcp_init_handle`, `NoContext`, `NullItem` |
| `init` | `mbtcp_do_connect` in `mbtcp_init_handle` | `FirstConnect` |
| `connect` | `lazy_mbtcp_connect` | the same |
| `fc` | the handler of a function code | `TooMany`, `Overrun`, `SendBroken`, `Send`, `NullItem` |
| `wait` | the receive in libmodbus | `Receive`, `ConnectionReset`, `ResponseTimeout` |
| `stopped`, `crashed` | the loop has ended, the process has died | - |

A step from one blocking call to the next is one action, because nothing else runs in
that thread in between. An answer ends the request's action: `Answer` appends to
`outbox` and evaluates the loop condition.

A request is a record: its mode frame, its command, the set of `members` its JSON text
has, and those values the code branches on. A text that does not parse has no members,
since `cJSON_GetObjectItem(NULL, ...)` finds none; dereferencing a missing member is
`NullItem`. Values read and written are left out; `data` is the number of elements of
a write, or the argument of the timeout command.

An address and a port are strings of bytes. `strcpy` stores them in a handle without asking how
long they are (`modbusd.c:464-465`, `486-487`): `Named` is the memory that results, the address first, the port
`IpSize` bytes behind it, `connected` behind both. The key of the table is the first
`IpSize + PortSize` of these bytes, compared as memory, so that of a long address the end has the port written
over it, and two such addresses may be one key. A name that does not fit may end the daemon (`NameOverrun`), and
one that leaves the handle (`Beyond`) does. A name that reaches behind the key leaves the flag set in a
new handle (`Smeared`).

A handle has the names its context connects to, the flag `connected`, the response timeout of its context and the context's
current unit id. The rest of the context is per key: `link` (no socket, up, closed by the
peer, lost without a word, given up by the kernel), `sock` (how many sockets it has opened),
`t_id` and `rx`, the confirmations that can be read. `wire` holds requests on their way on
any socket the context ever had; `executed` what the slave did, in order. A slave answers what it takes
(`SlaveAnswer`), or keeps silent about it on a connection that stands (`SlaveSilent`: a unit that is not there, a
broadcast, a gateway); `silent` remembers which.

libmodbus is modelled from how `modbusd.c` calls it: `modbus_connect` takes a new socket
and does not close the old one, and when it fails the context may keep what it had or be left
with none; a confirmation of another transaction is consumed and
reported as EMBBADDATA; `modbus_set_slave` refuses an id out of range and leaves the
previous one; `modbus_set_response_timeout` refuses zero and a million or more
microseconds. Errors are errno names; only ECONNRESET clears the flag (`modbusd.c:101`).

Writing more elements than `len` (fc15, fc16) stores past an allocation, and a `len` beyond
what the library takes is allocated, unchecked, and cleared before the library sees it
(`modbusd.c:326`, `342`): the process may die (`Overrun`) or go on. A negative `len` is not too many (`modbusd.c:168`): the array of that length
is cleared with a `size_t`, which ends the daemon (`NegativeLen`).

### Uthash

Every pointer of `UT_hash_handle` is a function from elements to elements or `NULL`.
`HASH_ADD` and `HASH_DELETE` are actions; `HASH_EXPAND_BUCKETS` is a loop of steps
(`ExpandItem`, `ExpandBucket`, `ExpandDone`) between an addition and its return, during
which no other operation runs. The hash function is an arbitrary function fixed at the
start; `&` with a power of two less one is `%`. An element is identified with its key.
modbusd itself never deletes, clears or sorts; the bound `MaxDeletes` says how often the table is deleted
from or cleared, `MaySort` whether it is sorted. `HASH_SRT` is a loop of steps too: `CountRun` is a round of the loop
that looks for the second run, `Take` one of the loop that merges two, `NextMerge` and `EndPass` are where
the outer ones go on. `sort` is what it keeps in local variables. The comparison is any function, here
the one of the hashes, with ties.

`KeyedList` is a list that may be added to, deleted from, cleared, and sorted stably.

### CJson

The heap maps references to items with their `child`, `next` and `prev`. A text is a sequence
of tokens; `ParseScalar`, `ParseContainer`, `ParseName`, `Comma` and `Close` are the branches of
`parse_value`, `parse_array` and `parse_object`, with the recursion of the C functions as
`stack`. After a request with a `tid` the answer to a read is built beside it
(`CreateArray` to `PrintAnswer`, `modbusd.c:137-151`), printed, and both are deleted; or the text
is a configuration and is saved. Then the printed text is parsed in turn. Every allocation of an
item, a string or a text may fail, `MaxFails` times. A NULL object that is dereferenced
ends in `crashed`.

### Lifecycle

`proc` says how far each process has come (`load`, `setup`, `loop`, `enter`, `recv`, `busy`,
`cleanup`, `saving`). Between `loop`, which tests `zctx_interrupted`, and `recv`, where a signal
interrupts the wait, lies `enter`, where a signal is only noted. The file is what configuration it
begins with, its length, and whether the end of another text follows. `saving` is the time
between `fopen(.., "w")`, which empties the file (`Truncate`), and `fclose` (`Save`): a text shorter than one buffer is
written in one piece, but from where the writer stands, the beginning of the file. If a
longer text has come there since, by another daemon or the operator, its end stays. The parser stops
behind the first value, so the file still reads as what was written last. A file that does not parse counts as read
(`json.c:34`), and the daemon dies on the NULL. `Start` is never refused, because
`service.sh:18` tests a variable that is not set. The script has no `restart`: the label is spelled `retart`
(`service.sh:61`), and under it the script does `Stop`, then `Start`.

### Numbers and Values

A double is a decimal, `m * 10 ^ e` with the shortest `m`, or an infinity, or not a number: JSON
numbers are decimals, and so are the texts of `printf`. A double has every decimal of up to `EXACT`
digits (15). Beyond that `parse_number` rounds at each digit it takes (`cJSON.c:102`), and
`printf` with more digits prints what the double is rather than what was read: `About(n)` are the numbers
that agree with n in the first `KEPT` digits (13), and what comes of such a text is any of them. The limits of the types are
constants, small in the runs: `INT_MAX`, `DBL_MAX_10_EXP`, and those `print_number` compares with
(`EPSILON` for 2.2e-16, `SMALL` for 1e-6, `LARGE` for 1e9, `HUGE` for 1e60, `PRECISION` for the six places of
`%f` and `%e`). `LimitsAssumption` keeps them in the order they have in C.

`parse_number` reads the parts of a text one after the other (`Whole`, `Fraction`, `ExpDigits`); it
takes more than JSON has (`01`, `-`, `1e`), and so does `IsItem`. A double beyond an int
converted to one is undefined: `valueint` is the set of what x86 and ARM give. `print_number`
gives a set too, because a tie may be rounded either way.

In `Values` a request is its texts. The slave has the four tables of `src/README.md:37-44`: coils and registers that can
be written, inputs that can only be read, and they begin with different values. `array` says whether the data is an array or a
single number; where the handler expects the other, `Given` is what it takes from it: 0 of an
array (`modbusd.c:278`), no element of a number. Between text and coil or register lie `parse_number`, the
conversion to `int`, the `uint8_t` of fc15 or the `uint16_t` of fc16 (`Element`), and the
16 bits of an address on the wire (`OnWire`). `want` says, from the texts alone and by the grammar
of JSON (`Says`, `WholeSaid`), what the slave should hold. An int that is not zero sets a coil with fc5,
but fc15 cuts it to a byte first, so that 256 clears it; `want` says nothing there.
In the answer a register is a number whose `valueint` is zero (`cJSON_CreateUInt16`): it is
printed by `%.0f`.

### Scalars

`parse_string` and `print_string_ptr` go over a string twice, once to count and once to write. Both
passes are steps: `at` records where each unit begins that the first counts, `end_ptr` and `ptr` are
the pointers of the code, `size` what is allocated. `Utf8` and `Escaped` are what is written for one
character. `units` says what JSON means by the text. Then the text is printed and read again, as
by the next daemon. A backslash as the last character of an unfinished text takes the
first pass past its end (`PastEnd`), where the model stops.

## What TLC checks

| Run | Question | Bounds | States |
| --- | --- | --- | --- |
| `two_slaves` | is a slave told from others whose addresses are too long for the key, are handles kept? | 3 requests (to the one slave, to two that share a key, timeout command), names of up to 3 bytes in fields of 2, 1 fault | 1.4 million |
| `one_slave` | do late confirmations, timeouts and reconnections mix requests up, and what undoes a timeout? | 4 requests to 2 units on one connection, 2 faults (a cut, or a request nobody answers) | 3.4 million |
| `malformed` | which requests end the daemon, do the others reach the slave at their address and port? | 2 requests out of every kind, with every member left out in turn, with a negative `len`, with names that do not fit, reach the flag or leave the handle, to two ports, and texts that do not parse | 3.3 million |
| `service` | does the daemon implement `RequestService`, is every request answered? | 3 requests of six kinds, 1 fault | 155 000 |
| `table_grows` | does a handle stay findable, do chains stay bounded? | 6 keys in every order, all hash functions to 0 and 2, one bucket of 2 at first, 1 deletion | 96 000 |
| `table_deletes` | do links and counts stay consistent, is the table a list? | 4 keys, 3 deletions, sorts, all hash functions to 0 and 2, 2 buckets of 1 at first | 1 060 000 |
| `json` | does the parser accept JSON only, is every item freed once, does the answer carry what was put in it? | all texts of up to 5 tokens out of 8, longer requests with `null`, `true` and `false` too, up to 2 registers, 2 failing allocations | 242 000 |
| `values` | is what was written what is read, from its own table, does the `tid` come back? | 2 requests; all number texts of up to 3 characters out of 6, 17 longer ones; arrays and numbers in each other's place; an int of 9 bits, registers of 4, a byte of 2 | 49 000 |
| `scalars` | does every string fit, does JSON come out, does anything drift? | strings of up to 3 out of 24 pieces, cut short too; numbers of up to 5 characters out of 7; 3 rounds | 589 000 |
| `lifecycle` | can the file be read, does an edit survive, is a signal noticed? | 3 daemons, 2 configurations and texts of 2 lengths, 1 edit, 1 crash, 1 request | 533 000 |

The properties, by what could go wrong:

- `AnswersOwnRequest`, and `OwnConfirmation`, which explains it: a request given up after a
  timeout leaves its connection in use (`modbusd.c:101`), and its confirmation arrives later.
- `RightSlave`, `RightUnit`: handles are shared by the units of an address, found by a key of
  two parts compared as memory, and the unit id is state of the context. `RightSlave` is of requests whose names
  fit the key, among others whose names do not: two long addresses may share a handle, and the one
  that comes second gets the other's slave.
- `ExecutedAtMostOnce`, `OkMeansExecuted`, `OkInOrder`: a write whose confirmation is lost, or
  that is still on an old socket while later ones go over a new one.
- `NoLiveSocketAbandoned`: a reconnection does not close the socket it replaces, so it
  must happen only when that one is dead.
- `RecoversByResetOrSilence`: after a timeout every transaction on the connection reads the
  confirmation of the one before it, and is answered EMBBADDATA, as long as the slave answers all of them;
  a reset seen by a later one ends that, and so does a request the slave never answers, whose own timeout lets the
  connection fall into step again. `BrokenForGood`: a connection the kernel has given up is
  never replaced, every later request to that address fails. Both say what the code does
  (`modbusd.c:96-104`), in both directions: in step nobody is told that data is bad.
- `HandleKept`: no second context for an address, from any state.
- `SoundNeverCrashes`: requests with the members `src/README.md` documents, names that fit the key, and
  no length or data beyond what is allocated or the library takes. The documents state no limit on either; a longer name or a
  larger `len` of fc15 and fc16 may end the daemon.
- `ImplementsService` (refinement) and, under fairness, `ServiceGoesOn` and `EveryRequestAnswered`: the daemon
  does nothing the service does not, and neither does it stay behind.
- `FsckLinks`, `FsckItems`: the checks of `HASH_FSCK`, which the code compiles only under `HASH_DEBUG`;
  `FindsExactly`. `ChainsBounded`: an expansion may leave a bucket at its limit, which only the next addition
  to it notices; it then has the ideal length, which multipliers summed over all buckets keep
  below the threshold. `ImplementsKeyedList`: what is added after any deletions, expansions and
  sorts comes last, and a sort is stable, so that equal elements keep the order they had.
- `OwnedOnce`: items are linked one by one while parsing and answering, and every one of those
  steps may be the last; `ParsesJson` compares the parser with the grammar, in both
  directions; `AnswerByName` follows tid and registers through building, printing and parsing: a
  member found in the answer is right, also where memory ran out, and without a failure all three are there.
- `ReadsBack`: over every cut a number suffers between text and register, wherever the
  text is a whole number, each function code to and from its own table; `TidEchoed`: `1e2`, `100` and `100.0` are one tid (`main.c:135`).
- `DecodeFits`, `PrintFits`: two passes that must agree, about escapes whose length in the text, in
  the count and in the string are three different numbers. `DecodesJson`: surrogates, digits that are
  none, ends in the middle; what is read is what JSON says, and what is refused has no meaning in a C
  string. `PrintsBack`: any bytes, printed and read, are the same bytes.
- `NumbersKept`, `NumbersSettle`: an int is kept as it is; any other number loses what is behind the
  last place printed, the first time only, however often daemons rewrite the file. `NumbersSettle` leaves out whole
  numbers of more digits than a double holds and below `HUGE` (from 1e15 to 1e60): they are printed in full, read with a rounding at
  each digit, and drift from round to round (`Drifts`).
- `QuietMeansReadable`, `OfflineEditSurvives`: daemons that overlap, because stop does not wait and
  start does not refuse, truncate, read and rewrite one file. A daemon that reads the
  truncated file dies without writing: that is what keeps the file readable. The end of a longer text may
  follow the configuration, where an edit met two savers; after an edit
  made while no daemon ran all of them write one text, and nothing follows it. With a
  crash the file may stay empty, and an edit made while a daemon runs is lost; neither is
  promised anywhere.
- `SignalNoticed` (liveness): a signalled daemon ends, unless it blocks with nothing to receive,
  as it does when the signal comes between the test of the flag and the wait.

The instances are small because the hazards are local to one connection: one request to
leave a late confirmation, one to meet it, one to show the counter has gone on, and a
fourth after a reconnection need four requests and two faults. Two endpoints suffice for
confusing two; fields of two bytes and names of three make two long addresses one key, of five bytes reach the
flag, of six leave the handle. Six keys in one bucket of two are what it takes for an
expansion that separates nothing, which raises the limit of a bucket, and one after it that leaves a bucket at
its limit; four in buckets of one force two ineffective expansions in a row, after which expanding stops; the
code has 32 buckets of ten. Five tokens are an object
with a member or an array of two; nesting, several members and the two in one are among the
longer texts. The small types of `values` and `scalars` have the borders of the large ones in the same
order, closer together: texts of three characters fall below, on and above each of them. Three
pieces of a string are a surrogate pair with something before or behind it. Two failures hit two different steps of one answer. Three daemons are one that
ends, one that begins meanwhile, and one that begins after both.
`MaxRequests`, `MaxFaults`, `MaxDeletes`, `MaySort`, `MaxItems`, `MaxFails`, `MaxProcesses`, `MaxEdits`,
`MaxCrashes`, `MaxMessages` and `MaxRounds` are the only bounds of the modules themselves.
`Uthash` is checked under the symmetry of its keys and `one_slave` under that of its unit ids, which the models only compare for equality.
`CHECK_DEADLOCK FALSE`: the daemon may stop, and the bounds end every behaviour.

Fairness: `WF_vars(Work)` in `Modbusd`. A thread that can run does; `modbus_connect` and the
receive of libmodbus return within the response timeout, so the action of a waiting daemon is
always enabled by `ResponseTimeout` or better. Slaves, network and clients owe nothing.
`zmsg_recv` waits for ever, and so does the model when no request has come. `Stop` is not
fair: a signal just before `zmsg_recv` begins to block is noticed only with the next request
(`Lifecycle` has that window as a state). In `Lifecycle`, `WF_vars(Progress(p))` for each process:
processes run independently, and a request is handled in bounded time, which is what
`EveryRequestAnswered` of `Modbusd` says. Nobody need ever start, stop, edit or send.

### Where code and comment disagree

Two runs are expected to find a violation:

- `unparsable` (`UnparsableIsAnswered`): the branch that answers "Fail to parse command
  string" (`main.c:218`) cannot be reached, because `main.c:135` dereferences the result first.
- `slave_id` (`SlaveIdIsSet`): the result of `modbus_set_slave` is ignored; an id it refuses
  leaves the unit in force that was set before, by an earlier request or, in a new context as in the
  trace, by the library (255), and that unit executes the request.

Others are in the models without a run of their own:

- `modbusd.c:101` tests errno 104 and calls it "tcp connection timeout"; a timeout is 110, after which
  the handle stays marked connected. `RecoversByResetOrSilence` and `BrokenForGood` say what follows.
- start never says "Service already running" (`service.sh:19`), because `service.sh:18` tests a
  variable that is not set; a second daemon starts beside the first (`Start` of `Lifecycle`).
- The timeout command changes nothing for a slave that has a handle
  (`mbtcp_set_response_timeout`, `HandleKept`).
- The message of `main.c:37` is not given for a file that does not parse (`Load`).
- "Service stopped" is said while the daemon still runs (`Stop`), and `service.sh restart`, which the usage text
  offers, only prints that text (`service.sh:61`, `66`).
- `modbusd.h:35` takes hostnames for `ip`, and there are longer ones than its 50 bytes
  (`NameOverrun`, `KeyOf`).
- `src/README.md:81-93` shows an fc5 request with an array as data; `modbusd.c:278` reads it as 0, writes that, and
  the answer is "ok" (`Given`).
- fc15 and fc16 allocate and clear `len` elements before the library refuses too many (`Overrun`).
- A large whole number of the configuration is a little smaller or larger after each restart (`Number`).

## What is proved

`ModbusdProofs` proves, for every set of addresses, slaves and requests and every bound:

1. `TypeCorrect`: `Spec => []TypeOK`. `TypeOK` is inductive as it stands, thanks to `InUseOK`: at
   every `pc` that reads the current request there is one, and at every `pc` that uses the
   handle it is in the table. One lemma per group of variables (`ClientsStep`, `DaemonStep`,
   `ContextStep`, `SlavesStep`), one step per action.
2. `HandlesAreKept`: `Spec => HandleKept`, an action property.
3. `ConfirmationsAreOwn`: `Spec => []OwnConfirmation`. `AnswersOwnRequest` is not inductive:
   it speaks of answers already given. What carries it is that nothing on its way to or from
   a slave has a transaction id beyond the context's, so the id of a new request is
   fresh; that a context starts at 0 again only where nothing is pending; and that
   while the daemon waits, only its own request and confirmation carry the current id.
   `NothingNewPending` treats every action that only removes or moves messages.
4. `AnswersAreOwn`: `Spec => []AnswersOwnRequest`, from the invariant above at `Receive`.

It then follows a request from the socket to the slave and its outcome into the answer:

5. `ExecutionInvariant`: `Spec => []ExecutionInv`. None of the properties below is inductive: each speaks of
   effects, and says nothing of the request that will have one. `ExecutionInv` says where every request is:
   the daemon works at the slave the request in hand names (`AtHome`); what is on a wire or executed is
   addressed to where it is (`WireAddressed`, `ExecutedAddressed`); before it is sent it is nowhere
   (`SentAfter`), then on one wire or executed, never both (`OnWireOnce`, `ExecutedAtMostOnce`). A confirmation
   "ok" is true (`SaidWhatItDid`), and so are the answers: `OkDid`, `RefusedUnsent`. `StepKinds` divides the
   steps into five kinds (lose messages, take a request, answer, send, execute), with a lemma for each.
   The answer needs `OwnConfirmation`: only with it is the confirmation received that of the request.
6. `SlavesAreRight`, `UnitsAreRight`, `NothingTwice`, `OkIsExecuted`, `OkIsInOrder`: `RightSlave`, `RightUnit`,
   `ExecutedAtMostOnce`, `OkMeansExecuted`, `OkInOrder` follow from it. For the order, `OkAfterEarlier`: what was
   executed before a request answered "ok" had been taken before it. A request given up may be
   executed any time later, between two others; it only never is answered "ok".
   `RightSlave` needs besides that a handle's context was made for names of its key (`ContextNamed`), and that names which fit are told
   from all others by that key (`KeyTells`): each ends in its field, and no name has a byte 0 inside.
7. `SoundSurvives`: `Spec => []SoundNeverCrashes`, from `AtHome` and the members each step reads.

`ConnectionProofs` follows a connection. `ConnectionStep` lists what a step can do to it: nothing, a new handle,
a new socket, one taken for open, a reset.

8. `FlagInvariant`: a handle that is not marked connected has no socket or a broken one, and the flag is set
   wherever the daemon sends or waits. From it, `SocketsAreNotAbandoned`: `Spec => NoLiveSocketAbandoned`.
9. `BrokenIsForGood`: `Spec => []BrokenForGood`. The property compares answers; `BrokenStays` adds the state
   that makes the next one: the handle keeps its flag and its dead socket for ever.
10. `OnlyResetOrSilenceRecovers`: `Spec => []RecoversByResetOrSilence`. Which answers a request can get after a timeout
   depends on what lies in the socket. `StepInv` says, per address: on a socket confirmations are in the order of
   their transactions, one each (`InOrder`); while the connection stands the one waited for will
   come, unless the slave keeps silent about it (`OwnComes`); after a timeout that no reset has followed, and since which
   no request was left unanswered, an older one comes before it
   (`StaleComes`), which is therefore what every receive finds; without a timeout no other comes
   (`OnlyOwnComes`). `GaveUpStep` reduces the history in the answers to the timeouts that count, which only a timeout adds to and
   only a reset clears; `SilentGrows` says what becomes of the requests left unanswered, `MessageKinds` what a step can do
   to the messages.

`ServiceProofs`:

11. `DaemonServes`: `Spec => ImplementsService`. Initial states map to initial states; a `Recv` is a `Begin`, every
   answer and an ignored rtu request a `Serve`, an execution an `Execute`, `Stop` and the death of the daemon a `Halt`, a message of a client a
   `Submit`; every other step is a stutter. An `Execute` is enabled because the request has not been executed or
   refused, a `Serve` may say "ok" because it has been executed: both come from `ExecutionInv`.

Those eleven assume `ConstantsAssumption`: requests are well typed and names hold no byte 0, the two fields of a key lie
inside the handle, `NoHandle` is neither a key nor a handle, and `MaxRequests < 65536`. The last is a real limit: transaction ids have 16
bits in Modbus TCP, and the argument needs that they do not come round while a
confirmation is still on its way.

`LifecycleProofs` proves, for any number of processes, edits, crashes and messages:

12. `TypeCorrect`: `Spec => []TypeOK` of `Lifecycle`.
13. `FileEndsReadable`: `Spec => []QuietMeansReadable`. That a quiet system has a readable file is not
   inductive: it says nothing while daemons overlap. `EmptyForSaving` does: the file is empty
   only while some daemon is between `fopen` and `fclose`, or after a crash. Daemons may be
   there at the same time; the last to leave writes a configuration at the beginning of the file, because nobody gets
   past `Load` without one, and no signal takes a daemon out of the middle.
14. `OfflineEditStays`: `Spec => []OfflineEditSurvives`, from `EditKept`: after such an edit the
   file is the edit, with nothing behind it, or empty; every daemon that has read the file has read the edit; and
   who is about to write it back finds nothing in the file longer than its print, which is everybody's print.

They assume `LifecycleAssumption`: an empty and an absent file are no configuration, a text has a length and it is not zero.

`ScalarsProofs` proves, for texts of any length and any bytes:

15. `DecodeNeverOverruns`: `Spec => []DecodeFits`. That what is written fits says nothing of what is
   still to be written. `Decoding` does: the second pass stands at the beginning of a unit that
   the first has counted and has written no more bytes than units lie behind it. An escape of
   six bytes is five units (`FiveUnits`: its digits are no backslash, so each is a unit of its
   own) and at most three bytes. Of a pair the code tests only that its last digit may be the
   end of the string; that digit being one, it is not (step 6 of `CopyPairInv`), and a pair
   is ten units and four bytes.
16. `PrintNeverOverruns`: `Spec => []PrintFits`, from `Writing`: before character i is printed, the text has
   as many bytes as were counted for those before it; `EscapedFits` is the step.

17. `StringsReadBack`: `Spec => []PrintsBack`. The two functions never run at the same time; what carries the string
   from one to the other is the text. `Layout` says where in it each character is spelled: `WriteChar` lays one behind the
   other (`Written`), the pass that counts stays at them or at a digit of one (`Rescanning`), the one that decodes
   has made of the first k what the first k were (`Recopying`). `EscapedAs` has the three ways to spell a
   character, and `ReadsBackAt` what each step of `parse_string` makes of them: the letters are
   read as what they were (`LetterBack`), the digits make one byte and never the half of a pair (`UnitBack`). That no string
   has a byte 0 inside, which would end it, is part of the invariant (`BytesOK`).

They assume `ScalarsAssumption`, of which they need that texts consist of bytes other than 0.

`UthashProofs` proves, for any hash function, number of keys, threshold and history:

18. `UthashInvariant`: `Spec => []IInv`, and from it `FindsExactlyHolds`: `Spec => []FindsExactly`, and
   `FsckLinksHolds`: `Spec => []FsckLinks`. Both properties speak of walks along pointers, and only of a table at
   rest. `IInv` speaks of each element and its neighbours, in every state:
   - Some set of keys is in the order of addition (`Ordered`): every key has a place, no two the same, from 1 to
     `num_items`; `head` is at the first, `tail` at the last, `next` and `prev` lead one place on and back.
   - The same set hangs in the buckets (`Chained`, `Backed`): every key has a depth, counted from the end of
     the chain of its hash, no two of a bucket the same; the head of a bucket is `count` deep. While
     `HASH_EXPAND_BUCKETS` runs (`Expanding`), each key hangs either in its new bucket or in what is
     left of its old one.
   - While `HASH_SRT` runs (`Sorting`), some are in the order merged so far and the others in the two runs being
     merged and behind them (`Runs`), where the end of the first run still points to what was the head of the second.
   - The links of keys that are in no list (deleted, or freed with the table) lead into no cycle (`Stale`). Nothing
     follows them, but a walk is a function of all links, and is defined only if none of them is on a cycle.

   `WalkMeasured` says what a walk finds where every step takes a measure down by one; `WalkOrdered` and
   `WalkChained` apply it to the order and to a bucket, `OrderedAppend`, `OrderedDelete`, `ChainedPush`,
   `ChainedPop` and `ChainedDelete` say what the pointer operations do to either, `RunsTake` what taking an
   element from a run does, and there is a lemma for each action.

`TableProofs` goes on from `IInv`:

19. `FsckItemsHolds`: `Spec => []FsckItems`. The buckets divide the keys, and each counts its own; that the counts add
   up to `num_items` is an induction over the buckets (`BucketsCount`), about any number of them.
20. `ChainsBoundedHolds`: `Spec => []ChainsBounded`. A bucket may be left at its limit by an expansion, so the bound
   is not inductive. `SizeInv` is (`SizesInvariant`): between expansions every bucket is `Within` its limit, or has the
   ideal length with a multiplier of 0, and the multipliers add up to no more than the number of buckets.
   From the latter the next expansion finds no more items than its buckets have room for
   (`RoomToDouble`), hence an ideal length of the threshold at most; the multipliers of the new buckets are quotients
   by that ideal length, so they add up again. Once an expansion has found most items in overfull
   buckets twice, expanding is given up, and with it the promise.
21. `TypeCorrect`: `Spec => []TypeOK` of `Uthash`, from `SizeInv`, whose `num_buckets = TwoTo[log2_num_buckets]` and
   ideal length other than zero are what keeps `HASH_EXPAND_BUCKETS` from dividing by zero.
22. `SortInvariant`: `Spec => []SortInv`, the invariant of the merge sort. `IInv` knows where the links of a sort
   lead, not in which order the items come. `SortInv` divides the places in blocks of `insize` (`Blocks`): what is left is
   in order within each of them, what is merged within each of twice the size, and what is merged of the
   present block belongs before what is left of it; `Standing` says where `p` and `q` stand in their two
   blocks. Equal items are in the order they had (`Precedes`), because of two equal ones the first is of the earlier
   block. `TakesLeast` is the step: what `Take` takes is the least of what is left of the block. Every
   pass makes two blocks one (`NextBlocks`).
23. `TableIsKeyedList`: `Spec => ImplementsKeyedList`. The list is the order of addition, and while a sort runs the order it
   began with. `AddInserts`, `DeleteDeletes` and `ClearClears` map an operation to the one of the list, from what a walk finds
   before and after (`ListAppended`, `ListRemoved`); `SortSorts` the last pass, which has merged all into one block; every
   other step leaves the list as it is (`ListStays`).

These six assume `TableAssumption`, of which they need that `NULL` is no key, hashes are naturals, the threshold
is positive and the number of buckets begins as the power of two of its logarithm.

`CJsonProofs` proves, for any texts, registers, number of items and failures, with no assumption on the constants:

24. `TreesInvariant`: `Spec => []Inv`. `OwnedOnce` says that `Below` of the roots, what `cJSON_Delete` frees, divides
   the items. It is not inductive: it does not say that items hang together in a way that survives one more link. `Inv` does:
   - The items in use are a `Forest`: a root has no holder, every other item exactly one, as child or as next
     (`HeldOnce`); `prev` leads back (`PrevIsBack`); every item is reached from a root (`Reached`); and every
     set of items has one with no link into it, so that no links go round (`Acyclic`).
   - While parsing, the item at hand and those on the stack are the last of their lists, no two the same
     (`Open`), so the `next` or `child` that is written was `NULL`: no list is cut off.
   - Which of the three variables is a root depends on `pc` (`RootsWhen`); the others are `NULL`.

   Everything the code does to links is one of four operations, each with a lemma about forests: an item is made
   (`ForestMade`), hung below another (`ForestBelow`) or behind the last (`ForestBehind`), or a tree is deleted
   (`ForestWithout`). `BelowIsLeast` says that what the recursion of `cJSON_Delete` reaches is the least set with the root that
   no link leads out of, `LastIsLast` that the loop of `cJSON_AddItemToArray` finds the item with no next. Both
   are recursive functions, which are defined at all only because the links do not go round.
25. `ItemsOwnedOnce`: `Spec => []OwnedOnce`, because what is reached from two roots is disjoint (`RootsApart`).

So every invariant and action property checked of `Modbusd`, `Uthash` and `Lifecycle` is a theorem, and so are both
refinements. Only model-checked:

- `EveryRequestAnswered`, `ServiceGoesOn` and `SignalNoticed`: liveness under fairness, and with it `ENABLED`.
- `DecodesJson`, `NumbersKept`, `NumbersSettle`, `ReadsBack`, `TidEchoed`: what digits and escapes mean is defined by folds over
  the text, whose induction the provers cannot do.
- `ParsesJson`, `AnswerByName`: the grammar and the printing are recursive over texts and trees, and what they
  make of all of them takes the same kind of induction.

## Not modelled

- Blanks between the tokens of a JSON text, and, at the level of `CJson`, what makes a token: that `01` or `1e` passes for a
  number is in `Numbers`, which `CJson` does not look into.
- The binary digits of a double, but for what `About` allows; number texts of more digits than a double holds, among the inputs
  (the rounds of printing and reading make such texts); exponents beyond an int.
- What a name that does not fit overwrites behind the handle, on the stack or on the heap: the process dies there. A
  name that stays inside the handle overwrites what is named above, and nothing else that is used before it is set again.
- Multi-frame details of ZeroMQ: a message that lacks a frame; messages dropped before the
  sockets are bound or when nobody subscribes.
- Half-read confirmations.
- What follows a text that ends in a backslash, or a configuration file, in memory: `file_to_json` does
  not terminate what it has read (`json.c:29`), and the parser stops at the closing brace.
- A load of the configuration while another process writes it is one step, and an editor writes the file in place, rather than putting
  another in its place; a text longer than one buffer of stdio.
- Allocation failures other than those of a context, of cJSON and of the arrays of fc15 and fc16; memory other than items
  (`main.c:120` and the printed answers are never freed).
- `uninstall` of the service script; the functions of cJSON that modbusd does not call; `HASH_SELECT`,
  `HASH_REPLACE`, the bloom filter and the bits of the hash functions.
- `json/cJSON_Utils.c` (not built into the daemon), logging, clients, simulator, build files.

## Plan

`Scalars`: that `parse_number` of a printed int is the int, for the ints of a given number of digits.
