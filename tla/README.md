# TLA+ models of the service mesh agents

The repository is a service mesh for an HTTP benchmark: beside the HTTP clients
runs a *consumer agent*, beside every Dubbo provider a *provider agent*. The
consumer agent accepts HTTP requests, chooses a provider with a load balancer and
sends the request's form over a long TCP connection; the provider agent translates
it into a Dubbo request, and the answer travels back the same way. Both agents are
C programs around libuv event loops (`src/src`). These modules model what the
agents do between their callbacks; TLC checks them on small instances and TLAPS
proves the central results for every value of the constants.

## 1. Inventory

| Component | State | Operations | Hard about it | What makes it correct |
|---|---|---|---|---|
| **load balancer** `utils/loadBalancer.c` | per endpoint: `remain`, a ring of response times with `head`, `tail`, and its running sum | `init_load_balancer`, `select_endpoint_time_based`, `finish_endpoint_task_time_based`, `estimate_cost` | shared by all loops; two indices that wrap by themselves; a sum that is only ever adjusted | the ring is a sliding window, the sum is its sum, the cheapest endpoint is chosen |
| **consumer agent** `consumer_agent.c` | per loop: `req_id`, `http_req_dict`, links, count of links; per connection: an `http_req_t`; shared: admitted connections, balancer | accept, refuse, read a request, send it, take an answer, close, connect and reconnect links | ids shared among loops by residue, a hash table without collision check, freed blocks that the table still points to, links that break with requests on them | an answer goes to the connection that asked, once; whoever waits is found, whatever blocks are freed meanwhile; the counters are exact; links come back; clients are admitted up to the limit |
| **frame reassembly** in both agents | a byte buffer and its fill | append what was read, hand on whole frames, move the rest down | TCP cuts anywhere; buffers are finite; a link may break in the middle of a frame | frames are handed on whole, in order and once; there is always room to read |
| **provider agent's relays** `provider_agent.c` | per accepted link: two connections, two buffers | accept, connect to Dubbo, relay requests and responses, close both and free | two connections that either peer may close at any time, or a frame too long for a buffer; one close callback starting the next; Dubbo answers in any order | a request is relayed once and on its own link, nothing is lost while the relay stands, a relay whose peer has gone or whose buffer is full is freed |
| **provider agent's start-up** `provider_agent.c` 64-128, 329-406 | etcd lease and key, a keep-alive thread | resolve, register, refresh the lease, probe Dubbo, listen | registered before it can serve; nobody looks at what etcd answers; the agent may die at any point and leave its key | a running agent stays registered, a dead one is forgotten, one that has registered comes to serve |
| **discovery** `consumer_agent.c` 53-90, `utils/etcd.c` | list of endpoints | get, put, grant, keep-alive through libcurl | etcd does not answer; keys of agents that are dead or not yet listening; three entries in the limit tables | a consumer that has found its endpoints accepts clients in the end |
| **HTTP reader** `consumer_agent.c` 153-195 | the array of a connection, its fill, the length of the header if it has been parsed | read, parse the header, wait for the body, frame the request in place, write it to a link, close and free | the link reads the array after the callback has returned, or refuses the write; the header may have been parsed in an earlier callback; the first header field is taken for the length; pipelined bytes; requests that do not fit | every request is sent on whole, once and in order; frames lie inside the array and the array outlives them; no client is left waiting |
| **form tokenizer, Dubbo encoder** `utils/tokenizer.c` | bytes behind the form that are cleared and restored, a table of 32 offsets | split a form at `=` and `&`, find four keys, unescape their values, put a header in front | blocks of 16 bytes that end anywhere, with another request right behind | the package has the values of the form, the bytes behind the form come back, the tables are not overrun |
| **wire codec, helpers** `utils/utils.c` | none | length fields, the digits of Content-Length, addresses | a fixed number of bytes and digits | what is written is read back |
| **block queue** `utils/blockQueue.c` | ring, `head`, `tail`, lap flag, mutex, condition | `bq_push`, `bq_pull` | the signal is sent after the unlock; spurious wake-ups; full or empty by a flag | a bounded FIFO; no wake-up is lost |
| **the agents together** | a link of one is a connection of the other | connect and accept, send and read, close | each end knows of the other's steps only later | what one agent assumes of the other is what the other does |
| request queue `utils/http_req_queue.c` | ring | `push`, `pop` | | not modelled: nothing calls it |
| JVM attach `utils/jvm_cmd.c` | socket, files | attach and send a command | | not modelled: its only caller, `manual_jvm_gc`, is called by nothing |
| atomic integer, logging, `main`, playgrounds | | | | not modelled: a counter behind a mutex that nothing uses, output only, argument parsing, experiments |

How they interact: every loop of the consumer agent calls the balancer twice per
request, under `lb_lock`; it sends frames on its own link to the provider agent,
whose relay for that link has a connection to Dubbo of its own. Loops of one
process share nothing else except `global_conn_remain_count` (behind a lock). A
callback of one loop is therefore atomic for the other loops except at its one
locked section, and one action of a model is one callback. The block queue
connects threads in its test only.

## 2. Modules

| Module | Models | Extends / instantiates |
|---|---|---|
| `LatencyWindow` | abstract: the last N response times of every endpoint | |
| `LoadBalancer` | `loadBalancer.c` | INSTANCE `LatencyWindow` |
| `RequestReply` | abstract: what an HTTP client is promised | |
| `ConsumerAgent` | `consumer_agent.c`, with the balancer inside | EXTENDS `LoadBalancer`, INSTANCE `RequestReply` |
| `FrameStream` | the read loops of both agents | |
| `ProviderService` | abstract: what a consumer agent may expect of a link | |
| `ProviderRelay` | `provider_agent.c` from accept to free | INSTANCE `ProviderService` |
| `HttpReader` | one HTTP connection of the consumer agent, byte by byte: `c_read_connection_data` | |
| `Translation` | one request in the provider agent, byte by byte: `tokenizer.c`, `utils.c`, the response | |
| `Mesh` | both agents | EXTENDS `ConsumerAgent`, INSTANCE `ProviderRelay` |
| `Discovery` | registration, keep-alive and the consumer's look-up, with etcd's leases and clock | |
| `BoundedFifo` | abstract: a bounded queue that may refuse | |
| `BlockQueue` | `blockQueue.c` and the threads of its test | INSTANCE `BoundedFifo` |
| `MC*` | constants and symmetry for TLC | the module after the prefix |
| `*Proofs` | theorems and lemmas | the module before the suffix; `ConsumerAgentProofs` extends `Mesh` and has the composition too |

### LoadBalancer

A field of `history_diff_time_t` is a function of the endpoint. `estimate_cost`,
`select_endpoint_time_based` and `finish_endpoint_task_time_based` are the C
functions of these names; `min_idx` is the scan from the last endpoint down. `Give` and `Take` are
the two calls in `consumer_agent.c`; a task that was not given out is not finished.
`RefCost` states the policy over the window and not over the ring.

### ConsumerAgent

`req_id`, `http_req_dict`, `endpoint_connection_count`, `link` and `listening` are
the `tcp_server_t` of every loop; `conn`, `tcp_server`, `data`, `asked` (the
`req_id` in the block) the HTTP connections; `heap` says which connection an
`http_req_t` block belongs to, so that a block can be freed and given to another
connection while the table still points to it. `answer` and `flight` are not in the
process: what was written to a connection since it last asked, and what the
provider agents still have to answer. The actions carry the names of the callbacks;
a suffix names the branch (`_close`, `_eof`, `_error`, `_fail`, `_refused`).

* A write to a handle that is closing fails with EBADF and nobody looks at the
  result: `send_to_provider_agent` and `WriteAnswer` do nothing then, while the
  balancer has counted.
* A read through a freed block (`WriteToFreed`) and a freed handle that libuv still
  uses (`c_after_connect_to_a_agent_fail`) may crash the process or not: both.
* A read callback that finds several frames is several steps. Nothing else of that
  loop can come between in the code; in the model other callbacks may, which only
  adds behaviours.
* `WallClock` is the 30 seconds of warm-up: the clock passes them, or is set back and
  passes them again.
* Three constants describe the environment. `ClientsWait`: no client closes while
  it waits. `Timely`: when a loop draws its next id, every request it still has in
  flight is fewer than `HASH_SLOT_NUM` ids behind. `Faults`: links break, connecting
  fails, the provider agent drops a response whose status is not 20. The code
  enforces none of them; each result says which it needs.
* Here the HTTP reader is one condition, "a whole request has been read", and clients
  do not pipeline; `HttpReader` has the reader itself, for one connection.

### FrameStream

A byte is its position in the stream and a frame is known by where it ends, so that
any lengths can be given. `Read(n)` is libuv's read into the space that the alloc
callback offers; `TakeFrame` is one turn of the loop; `Return` its two exits.
`Lengths` is what the length field says: at the front of a frame its body's length,
anywhere else any number of `Garbage`. `Reconnect` is end of file followed by
`reconnection_to_agent`, which keeps `size_of_raw_array`; `Reconnects` says whether
links break never, between frames only, or anywhere. The provider agent's two loops
are the same loop with header 12 and 16; their buffers belong to a relay and die
with it (`Reconnects = "never"`).

### ProviderRelay

The relays of one loop. `tcp_conn_1` and `tcp_conn_2` are the states of the two
handles, `gone1` and `gone2` say that a peer has closed its end, and a request is
its id, at one of four places: sent and unread (`up`), at Dubbo, answered by Dubbo
and unread (`results`), written back and unread (`down`). Reading starts on both
connections only when Dubbo has accepted. A read that fails on either connection
closes `tcp_conn_1`; its close callback closes `tcp_conn_2`, whose callback frees the
relay. `CloseConnection1` is `uv_close` with its assertion.

A read fails for two reasons. The peer has gone and everything it wrote has been read;
or the buffer is full (`full1`, `full2`), when the alloc callback can offer nothing
(`p_alloc_buffer1`, `p_alloc_buffer2`) and libuv reports ENOBUFS although both peers
are there. `Long` are the requests whose frames exceed `raw_buf1` (the consumer agent
accepts requests of 8192 bytes, a relay's buffers have 4096); a response of status
"long" exceeds `raw_buf2`. `Broken` says that any of the four has happened. Both peers
may go, and both buffers fill, before the loop has closed the relay.

### HttpReader

The variables of an `http_req_t` keep their names. A byte is the request it belongs
to and its place in it, so that a property can say which bytes a frame consists of;
a byte of a frame's header is the length that header spells. `c_read_connection_data`
is the callback for one read of any size; `Send` and `Keep` are its two ends.
`uv_write` does not copy: `writes` holds places in the array, and `link_takes` reads
what the array holds *then*. `phr_parse_request` and the client are external
(`3rd-deps` is an empty submodule). `headers` is an automatic variable: when the
header was parsed in an earlier callback, `headers[0]` has no value, so `atoi` yields
any number of `Stale` or the process crashes (`c_read_connection_data_wild`). Otherwise
it is the first field of the request, `says`: the body's length, or any number of
`Misstated` for a client that puts another field there. Both sets may have negative
members: `Whole` then compares as the code does, an unsigned size with a sum that
wraps, and a length below `-FRAME_HEADER` becomes one near `UINT_SPAN` (2^32).
`linkUp` is the link the balancer has chosen: `link_lost` gives up what it has not yet
written, and until `link_renewed` a write to it is refused.

Nothing is assumed of the client or the network. Instead `lapses` records what the
reader does not cope with: a request sent before the last one was answered
("pipelined"), a body that came after the end of its header ("split"), a client that
left before it was answered ("left"), a first field that was not the body's length
("misstated"), a frame that the link refused or gave up ("unlinked"). Every property
says which of them it tolerates.

### Translation

One request on its way through a provider agent. `Builds` are the two forms of the
tokenizer that `CMakeLists.txt` makes of the agents, serial and `-msse4.2`; a step is
one block that is looked at, a byte or a register. `str` is the memory of the form
and of what lies behind it, which the SSE build clears and restores. Bytes are ASCII
codes; the literals of a package are single negative numbers, because only their
order matters. `hex2int`, `int_to_four_char`, `four_char_to_int` and `int_to_string`
are the C functions; `Package` is the reference, computed from the pairs the form was
made of. A form is a list of pairs, the client escapes no byte of the interface
name (`FormsAssumption`: `serialize_path_dict` copies it as it stands), separators
inside a key or a value are escaped, lengths have their place in four bytes, and the
four keys of interest differ (`KeysAssumption`). `EscapesAssumption` says what
`val` has to do with `sent`: some of its bytes are escaped. What follows a write
behind `off[]` is left open (`pc = "wild"`).

### Mesh

`ConsumerAgent` and one relay of `ProviderRelay` for each connection its links ever
have: a link that is made anew gets the next number (`socket`), and with it another
relay. The two ends of a connection move separately. The provider's kernel completes
it (`connection_made`, external); the consumer agent's callback (`link_made`) and the
provider agent's (`relay_made`) then come in either order. When a relay calls
`uv_close` on `tcp_conn_1` the stream ends at once (`Ended`): the consumer agent reads
what is still under way, sees the end (`link_lost`) and may have a new connection, with
a new relay, while the old relay has not been freed. A request travels before the relay
has it (`link_delivers`). Only three pairs of steps are joint: reading a response frame
takes it off the connection (`response_read`), and a response that is dropped for its
status is one the consumer agent will not get (`response_dropped`, or
`response_passed` if it has given the request up already).

Nothing remains of the environments the two modules assume of each other, only clients,
Dubbo and the network. The provider agents' processes stay up (`Alone` keeps `process`
running): what ends them is in `ProviderRelay`, and its run has it. The consumer agent's
process may die, and Dubbo may close in the same iteration. `Budget` is a bound: it
keeps Dubbo and requests in `Long` from breaking links oftener than `MaxConnects` lets
the consumer agent make them anew.

### Discovery

`phase` is how far a provider agent has come in `provider`: off, waiting for the
resolver, with a lease, registered and probing Dubbo, past its main loop, listening.
`timer` counts to its next call to etcd, `failed` remembers that a call has failed,
which the agent itself does not. `granted`, `ttl` and `key` are etcd's side
(external): a lease that runs out takes its key along, a put or a refresh that names
no living lease changes nothing. `on_resolved` is two steps because etcd sees two
calls. A lease that could not be had is the string "(null)" in the next request.

`Tick` is the clock. What an agent has to do by now may be `Delay` ticks late, and no
more; `SlackAssumption` says that a period and twice that delay are less than the
lease's term. With the shipped 600 and 590 seconds that leaves less than five
seconds. `die` ends an agent at any point (a crash, somebody stops it, one of its
calls of `exit`, the probe's handle that is freed while libuv closes it). The
consumer agent reads the keys once; its link is closed or reset by the death of the
agent at the other end, and a reset makes it exit. Two running agents never have the same address.

### BlockQueue

A section under the mutex is a step; `uv_cond_signal` is a step of its own because
`bq_push` sends it after the unlock; a waiting thread leaves `uv_cond_wait` by a
signal or spuriously and then has to look again.

## 3. Runs

`tlc -config <cfg> <module>`. A finished run says "No error has been found"; the
runs marked *violation* state what a document, comment or test of the repository
says and end with a behaviour of the code that contradicts it.

| Run | Checks | Bounds |
|---|---|---|
| `load_balancer` | `SumIsWindow`, `WindowRefined`, `SelectsCheapest`, `DirectFirst` | 3 endpoints with different limits (ties, direct, penalty and saturation all occur), window 2 (both indices wrap), two response times and the initial one, 9 outstanding tasks, one more than all penalty limits together |
| `consumer_agent` | `DeliveryInv`, `RemainIsInFlight`, `RequestReplyFair` | 2 loops, 2 endpoints, 2 connections and blocks, ids up to 7, a table of 4: every slot is reused; no faults |
| `consumer_agent_aborts` | `RemainCovers`, `AdmissionControlled`, `WaitersFound` | 2 loops, 1 endpoint, links made up to 2 times per loop, ids up to 2, with faults, clients that hang up and answers of any age; limit 1 before and 2 after warm-up, the clock going either way; a table of 2 whose slots, and blocks, are reused |
| `mesh` | `LinkAgreement`, `ConsumerRefined`, `RelaysRefined`, `RequestReplyRefined`, `LinksComeBack` | 1 loop, 1 link made up to 2 times (two relays, the old one possibly still closing) plus any number of failed attempts, 2 HTTP connections, ids up to 2 (three requests, the second too long for a relay), a table of 2: a slot is reused |
| `consumer_agent_wrap` *violation* | `AnswerIsOwn` | `Timely = FALSE` |
| `http_reader` | `FramesExact`, `FramesInside`, `ArrayOutlivesWrites`, `PassedOnOrClosed` | frame header 1, array 4, lengths modulo 8, headers of 2 and 5 (too long), bodies of 2, 4 and 6 (the last is larger than the array), 2 requests, `Stale` negative, too small and too large, `Misstated` -2 and 1, every cut into reads, a link that breaks and comes back any number of times |
| `translation` | `PackageRight`, `NeighboursRestored`, `StaysInBounds`, `ResponseRight`, `Translated` | registers of 4 bytes, 10 offsets (5 pairs are one too many), a package of 80, bytes of base 4; the four keys in every order, missing, repeated, unknown; values empty, short, escaped, longer than a block; separators and escapes behind the form; hashes of 1, 9, 10, 99 and 100 |
| `frame_stream` | `FramesInOrder`, `RoomToRead`, `LastHandedOn` | 6 frames: empty bodies, frames that fill the buffer, others; every cut into reads; breaks between frames |
| `block_queue` | `NoLostWakeup`, `FifoRefined`, `Drained` | 2 producers with 4 pushes, 2 pullers, ring of 2: four laps |
| `provider_relay` | `Paired`, `LostOnlyWhenBroken`, `ServiceRefined`, `Leaves`, `GoneRelaysFreed` | 2 relays, 3 requests, one of them too long for a buffer, responses of any status and length, both peers may go |
| `discovery` | `LeaseHeld`, `DeadKeysExpire`, `RegisteredServes`, `ConsumerListens` | 2 agents, 2 addresses, 2 leases (two agents, or one that registers twice), a term of 4 ticks, a heartbeat after 1 or 2; 3 connections of the consumer |
| `provider_relay_close` *violation* | `ClosesOnce` | 1 relay, both peers may go |

The type invariants and the auxiliary invariants `RingFull`, `LapsInOrder`, `OnePlace`
and the like are proved (section 4) and no longer run.

Deadlock checking is off where the modelled system may really stop: the process
exits or crashes (`mesh`, `aborts`, `provider_relay`, `http_reader`), ids have reached their bound while a
client that was refused or has gone does not come back (`aborts`), the stream or the
one request is at its end (`frame_stream`, `translation`, `http_reader`), or all leases
of the bound are used and nobody runs (`discovery`). Two of everything is enough for the interesting cases,
which need two loops (ids), two connections (an answer for another), two endpoints
(a choice) and one reuse of a slot, a block or a ring entry; the theorems cover the
other sizes.

The lengths in `http_reader` and `translation` are small copies of the real ones: what
matters is that a body fits or does not, that a block ends before, in and behind a
separator, and that the tables can be one entry short.

### What the violations show

* `consumer_agent_wrap`: `c_read_from_provide_agents` looks a connection up by
  `req_id % HASH_SLOT_NUM` and does not compare ids. An answer that is
  `HASH_SLOT_NUM` ids late goes to the client that has the slot now. With 8192
  slots and two loops that is one request that stays unanswered while 4096 others
  of its loop are sent.
* `provider_relay_close`: both read callbacks close `tcp_conn_1`; when both peers go
  in one iteration of the loop, libuv's assertion ends the process.

Smaller observations that follow from the same models.

* A client that hangs up while it waits has its block freed and the table entry left;
  the answer is then written through it (`close_cb`, `consumer_agent.c` 133): the action
  `WriteToFreed`, after which the process may have crashed. No property denies it.
  `WaitersFound` says what holds in spite of it: the others are still found.
* The first header field is taken for Content-Length (`consumer_agent.c` 173). A negative
  number there is sent as a frame that reaches far behind the array: without the
  condition on "misstated", `FramesInside` fails.
* A request longer than 4084 bytes is accepted by the consumer agent, fills the relay's
  buffer, and the relay is closed with every request on it, while both peers are there.
* A request written to a link that is closing, or taken by one that then breaks, is
  never repeated and its client waits for ever (`consumer_agent.c` 150).
* The bytes of a frame that a broken link did not complete are taken for the
  beginning of the new link's stream (`consumer_agent.c` 307). With
  `Reconnects = "any"`, `FramesInOrder` fails.
* Bytes of a second request that came with the first are thrown away, although the
  comment at `consumer_agent.c` 193 says "copy remain buff to the beginning". And if such
  bytes leave too little room, the connection is closed while the first frame is still to be written from its array.
* A frame of a stale length may go out before the body is whole. If that body is larger than
  the array, the connection is then closed and the array freed with a write from it pending.
* A request whose body comes in a later read than its header is framed with whatever
  `headers[0]` happens to hold (`consumer_agent.c` 173).
* The comment at `tokenizer.c` 307 says "32 for at most 16 (key, val)", but the -1 before
  the first key takes an entry too: 16 pairs need 33. `StaysInBounds` says which forms
  overrun the array, those of more than (OFFSETS - 1) div 2 pairs, 15 in the code, and no
  others. `PROJECT.json` lists it as a finding of the run `translation`, where the form
  of five pairs overruns ten entries.
* `dubbo_package` has 4096 bytes. A package may be longer than its form by its header and
  its literals (`OVERHEAD` and `LITERALS`, 53 bytes) and a second copy of the interface;
  `RoomForPackage` says when that fits, and nothing in the code asks it of a form.
* A result of 100 bytes or more gets a Content-Length that is not a number.
* `avx_split_efficient` does not restore what it has cleared behind the form; the
  agents are not built with it.
* In `http_req_queue.c` 30 the tail wraps after one push too many; nothing uses the
  queue.

With `Faults`, `RemainIsInFlight` fails: requests lost with a link are never taken off
`remain`, so the endpoint keeps a load it does not have; `RemainCovers`, that it is
never counted *less* than it has, holds everywhere. An agent whose grant, put or heartbeat
fails goes on and serves, but nobody finds it, and it does not register again. A
consumer agent that reads the key of a dead agent waits for that agent before it
accepts anybody, and with the keys of an earlier run it may find more than the three
endpoints that the limit tables know. The comment at `provider_agent.c` 89 says
300 seconds where the lease has 600. With a wall clock that is
stepped back (`DiffTimes` with a negative member) `DirectFirst` fails, because a
negative sum undercuts the cost 0 of an idle endpoint. The penalty limit is a
preference and no cap: when all endpoints have reached it, the last one is chosen
all the same. The count of established links is never lowered, and a link that was made
twice is counted twice: a loop may listen while another link has not been made
(`consumer_agent.c` 340). A wall clock that is set back within 30 seconds of the start
lowers the limit below the connections already admitted; the counter stays exact. The
threads of `test_blockQueue.c` pull as often as the producers push although a push
to a full queue is dropped, so the puller may wait for ever. And every link has a
Dubbo connection of its own, where the design document speaks of one per agent.

### Fairness

Weak fairness only, and only of steps the process or its environment really owes.
`ConsumerAgent`: a loop runs the callbacks that are due (connect, reconnect, close);
a provider that is up accepts a connection in the end and answers what it was sent
(without `Faults`; with them, what was not lost). Clients owe nothing: they need not
connect, ask or close. `FrameStream`: the peer goes on sending, the loop goes on
parsing. `BlockQueue`: a thread that can take the mutex takes it in the end; nothing
is assumed of spurious wake-ups, so `Drained` does not depend on them.
`HttpReader`: the loop reads what has arrived, closes, and writes to its link while that
stands; links owe nothing.
`Translation`: the steps of a callback follow each other, and Dubbo answers.
`ProviderRelay`: callbacks that are due run, Dubbo accepts and answers in the end,
and consumer agents read. `Discovery`: time passes, a running agent makes the calls it has come to, Dubbo
accepts in the end and a connection to an agent that listens succeeds in the end;
nobody has to start or stop a process. Processes that have exited or crashed owe nothing, which
is why the liveness properties of runs with faults end in `\/ ~running`. `Mesh`
discharges what the two agents assume of each other: its own fairness is of
callbacks, the network and Dubbo only, and `ConsumerRefined` and `RelaysRefined`
say that both agents' fair specifications follow.

## 4. Proofs

`tlapm <module>` checks them. Each holds for all values of the constants that
satisfy the named assumptions of its module (sizes are positive, limits are natural
numbers, sets that are counted are finite).

| Theorem | States | Needs |
|---|---|---|
| `LoadBalancerProofs!TypeCorrect`, `TailBehindHead` | indices stay in the ring; the slot written next is the evicted one | |
| `LoadBalancerProofs!RingImplementsWindow` | the ring implements `LatencyWindow` | |
| `LoadBalancerProofs!SumHolds`, `CheapestSelected` | the running sum is the ring's sum; no endpoint undercuts the one chosen | |
| `LoadBalancerProofs!DirectServedFirst` | while an endpoint is below its direct limit, such an endpoint is chosen | `ClockForward` |
| `ConsumerAgentProofs!AgentTypeCorrect` | `TypeOK` | |
| `ConsumerAgentProofs!DeliveryHolds`, `AnswersAreOwn` | answers find the connection that asked; faults included | `ClientsWait`, `Timely` |
| `ConsumerAgentProofs!WaitersAlwaysFound` | a waiting client is found through its slot while that is its own, in every environment | |
| `ConsumerAgentProofs!ImplementsRequestReply` | the agent implements `RequestReply` | `ClientsWait`, `Timely` |
| `ConsumerAgentProofs!AdmissionHolds` | the shared counter is exact and within the larger limit | |
| `ConsumerAgentProofs!RemainHolds` | `remain` is exact | `~Faults` |
| `ConsumerAgentProofs!RemainCoversHolds` | `remain` is at least what is in flight, in every environment | |
| `ConsumerAgentProofs!MeshImplementsConsumer`, `MeshImplementsRelays`, `MeshRelayInvariant` | both agents together behave as `ConsumerAgent` and as `ProviderRelay` allow; the relays' invariant holds of them | |
| `ConsumerAgentProofs!MeshAnswers` | both agents together implement `RequestReply` | `ClientsWait`, `Timely` |
| `ConsumerAgentProofs!LinksAgree` | the relay of a link's present connection holds what the consumer agent waits for, those of earlier ones hold none of it; faults included | |
| `HttpReaderProofs!ReaderTypeCorrect` | every read stays inside the array, every frame too or its length went round | |
| `HttpReaderProofs!FramesStayInside` | every frame stays inside the array | no misstated or uninitialised length |
| `HttpReaderProofs!RequestsPassedOn`, `ArrayNotFreedEarly` | what the link takes are the requests, whole, once and in order; the array outlives the writes from it | the `lapses` they name |
| `TranslationProofs!TranslationInvariant`, `PackageIsRight` | the package is the one the pairs of the form make, with the id and its length | |
| `TranslationProofs!NeighboursAreRestored`, `BoundsKept` | what lay behind the form lies there again; which forms `off[]` and `dubbo_package` are good for | |
| `TranslationProofs!ResponseIsRight` | the response has the id, its length and a Content-Length that is read as the hash's length | |
| `FrameStreamProofs!TypeCorrect`, `FramesKeepOrder`, `NeverFull` | no overflow; frames in order; room to read | `Reconnects # "any"` |
| `BlockQueueProofs!TypeCorrect`, `LapsHold`, `RingImplementsFifo`, `WakeupsHold` | indices, laps, FIFO, no lost wake-up | |
| `ProviderRelayProofs!TypeCorrect`, `OnePlaceHolds`, `PairedHolds`, `NothingLost` | a request is at one place; the two connections belong together; losses have a cause | |
| `ProviderRelayProofs!ImplementsService` | the relays implement `ProviderService` | |
| `DiscoveryProofs!TypeCorrect` | timers and leases keep their bounds | |
| `DiscoveryProofs!LeaseHolds` | a running agent whose calls have succeeded is registered under its own living lease | `SlackAssumption` |

The arguments:

* **Delivery.** `AnswerIsOwn` says nothing about requests in flight, so it is not
  inductive. `DeliveryInv` adds that a block leads back to its connection
  (`BlocksOwned`), that ids of a loop are of its residue class and below its counter
  (`IdsOfLoop`), and that a request in flight is younger than `HASH_SLOT_NUM`, has a
  connection that waits for it and is found through its slot (`RequestsOwned`). A
  new request overwrites one slot; two ids less than `HASH_SLOT_NUM` apart have
  different slots (`SlotsDistinct`), so no other request's slot is
  disturbed. `ClientsWait` keeps the block alive, `Timely` keeps the window: the
  violation run `consumer_agent_wrap` and the first observation above show what happens
  without them.
* **Refinement to RequestReply.** An id is fresh because ids of different loops
  differ by residue and ids of one loop only grow (`FreshQuestion`); with
  `DeliveryInv` an answer is a `Reply`, and every other step a stutter or a client's.
* **Waiting clients.** `WaitersFound` is kept by closes because `BlocksOwned` makes the
  block that is freed, and the one that is given out next, another connection's than the
  one that waits; by answers, whoever gets them, because they make clients idle and free
  nothing; by a new request because two ids less than `HASH_SLOT_NUM` apart have
  different slots. `WInv` adds to these that a waiting client's id is of its loop and
  below its counter (`WaitersAsked`). It needs neither patient clients nor timely
  answers nor links that stay.
* **Admission** needs `HeapLive` (an answer finds no absent connection, so it cannot
  turn one into an admitted one), but neither timely answers nor patient clients.
* **Remain.** `CInv` adds to `RemainCovers` the types and that only finitely many
  requests are in flight, so that they can be counted. A lost link takes requests out of
  `flight` and leaves `remain` (`LossCovered`), a request adds one to `remain` and at
  most one to `flight` (`RequestCovered`), an answer takes one of each (`AnswerCovered`).
* **Composition.** Each disjunct of `MNext` is a step or a stutter of each agent. A
  request in `response_read` names its own loop; that this loop is one of `Loops`, and
  so the relay one of the relays, is the type invariant of the consumer agent, which
  the first refinement carries over to `MSpec`. `MeshAnswers` then is
  `ImplementsRequestReply` applied to it.
* **Frames.** `Aligned`: outside the loop's turn the buffer starts at the front of a
  frame and is shorter than that frame when the callback returns.
* **Block queue.** With `RingInv` every section under the mutex is a step of the
  FIFO. `NoLostWakeup` counts: while a puller waits there are at least as many
  signals to come and woken pullers as items; it is inductive together with `RingInv`.
* **Relays.** Every step changes one relay only (`Others`), where it sends, answers
  or only loses (`Effect`); `Coupled` relates the states of the two handles,
  `Emptied` says what a state of a handle implies for the data, `GoneCause` that a relay
  which closes has lost a peer or has a full buffer, so that a loss has its cause.
* **Leases.** `LeaseHeld` says nothing of how long a lease will last. `LeaseCovers`
  does: what is left of it is at least what `timer` still has to count, less what the
  last call was late. A tick is possible only while `timer > -Delay`, so by
  `SlackAssumption` the lease has two ticks left (`CoveredIsKnown`). `LeasesApart`
  keeps other agents away from the key and the lease; a dead agent's key under the
  same address is replaced by the put, and its lease then takes nothing along.
* **Sums and the scan.** `diff_time_sum` is compared with a fold over the ring. Sets of
  indices that violate a claim have a least member (`WFMin`), and that member's
  predecessor satisfies it: in this form induction needs no operator as a parameter, and
  a fold's value can be related to that with one entry changed. The sum is kept because
  the entry evicted is the one subtracted (`TailBehindHead`). `min_idx` is such a scan,
  from the last endpoint down. `DirectFirst` further needs that no sum is negative, so
  that no clock goes back (`ClockForward`): the observation above shows that it does.
* **HTTP reader.** `ReaderInv` has three parts besides the types. `Sound`, in every
  environment: where the length of a frame comes from, so that with the comparison of
  line 176 every frame lies inside the array unless its length was misstated or
  uninitialised. `Patient`, while the client waits for its answers and states its lengths:
  what is unread, in the array and on the wire, is nothing (`Idle`), the current request
  from its first byte (`Current`), or, after a frame of a stale length, bytes from the
  middle of one (`Debris`). `Calm`, if bodies also come with the end of their header and no
  write is given up: then an unwritten frame is in the array as it should be (`Written`).
  Reading it after the callback is harmless because nothing is read into the array before
  the answer.
* **Two ends of a link.** `LinkAgreement` compares two agents' states that change at
  different times. `Agrees` says it for one connection and adds why: a
  connection that is not made has no relay, one that is not accepted has had nothing
  delivered, and a link that is not up waits for nothing that was delivered. `Follows` is
  what a step that makes and ends no connection has to keep for that. `FlightInv` and
  `SentInv` say that what is in flight or was delivered
  has an id below its loop's counter and is in flight at one endpoint only, so that a new
  request is new on both sides. The relays' own invariants are used through an instance of
  `ProviderRelayProofs`, since the mesh implements the relays.
* **Splitting a form.** `FormLayout`: for every form there is a function that says where
  each pair begins, and the bytes between are key, `=`, value and `&`. It is found by
  induction over the pieces, again through a least counterexample. With it a search for a
  separator in blocks is one fact (`AdvanceHits`, `AdvanceMisses`): a block without the
  byte is passed over, in one with it the search stops at the first, in both builds
  (`TzcntFindsFirst`: the population counts are the position of the lowest bit).
  `SplitInv` says that the offsets found so far are those of the first pairs and that the
  search stands between its start and the separator it looks for; past the last value
  only bytes that are cleared follow, which is why no search ends behind the form.
* **Unescaping.** `Decoding(from, k)`: what has been copied are the first k - 1 bytes of
  the value, `last_seek` is where byte k begins in the form, and between `last_seek` and
  `seek` there is no escape. A step copies a plain run (`PlainRun`), decodes an escape
  (`EscapeDecoded`) or moves on, whether a block ends there or not. `Begun(n)` is the
  package before field n; a field that is missing adds nothing.
* **Lengths.** The pairs of four different keys are four different pairs, so their values
  together are no longer than the form (`FourValues`); with the first value once more a
  package is at most twice as long and fits its field (`PackageFits`). Four base-`BYTE`
  digits are read back as they were written (`FieldHolds`).

Only model-checked is liveness: `RequestReplyFair`,
`LinksComeBack`, `LastHandedOn`, `Drained`, `Leaves`, `GoneRelaysFreed`,
`DeadKeysExpire`, `RegisteredServes`, `ConsumerListens`, `PassedOnOrClosed`,
`Translated`, and the fairness in `ConsumerRefined` and `RelaysRefined`. The prover
does not treat fairness and ENABLED. Every other property of a passing run is a theorem.

## 5. What is left out, and the plan

Abstracted everywhere: payloads, log output, memory exhaustion, real time outside
`Discovery` (the wall clock passes the 30 seconds of warm-up, or goes back, at any moment; `sleep(3)`
is no step).
`TCP_NODELAY`, buffer sizes of sockets and thread placement do not appear.

The order in which the modules were and will be written puts what carries every
request first:

1. *(done)* `LoadBalancer`, `ConsumerAgent`, `FrameStream`, `ProviderRelay`,
   `BlockQueue`, `Discovery`, with their abstract specifications, runs and proofs.
2. *(done)* `HttpReader` and `Translation`: what the agents do to the bytes.
3. *(done)* `Mesh`: both agents composed, with the refinements proved.
4. *(done)* The remaining safety properties proved: `LinkAgreement`, the HTTP reader,
   the balancer's sums and its choice, the translation.
5. What the liveness properties rest on, as safety: that `Drained`, `Leaves` and
   `Translated` have a measure that every step of the loop lowers, which can be proved
   where their fairness cannot.

Not modelled, and not planned: `http_req_queue.c`, `jvm_cmd.c`, `atomic_integer.h`,
`tokenizer_fast_req.c` and the hard-coded variants in `tokenizer.c` 315-339, because no
agent calls them and there is no environment to model them in; logging and `main`; JSON,
base64 and curl in `etcd.c`, where `Discovery` has what each call does to etcd and
what its caller learns; the address look-up and file output of `utils.c`.
