# TLA+ models of the broker's command-handling engine

This directory holds TLA+ models of the MQTT 3.1.1 broker's command-handling engine, `src/unnamed/part_000` (handlers.c). It also holds the TLC configurations that check them. The allocator, the string helpers and the logger of `src/src/util.c` are modelled in modules of their own.

## The system

The engine is ten command handlers reached through `handle_command` (lines 55-72 and 604-606). They run on one reactor thread. Each handler runs to completion on a decoded packet from one client, and mutates four kinds of state:

- **Per-client session state** (`struct client`):
  - `online` and `clean_session`;
  - the subscription list and the offline queue `outgoing_msgs`;
  - three inflight tables indexed by packet id: `i_msgs` (outbound messages), `i_acks` (the ack expected for them) and `in_i_acks` (inbound QoS 2);
  - the `has_inflight` flag, the id counter used by `next_free_mid`, and the write buffer `wbuf`.
- **Topics.** Each topic has a subscriber map and an optional retained message. The topic tree is a trie with `prefix_map`.
- **The memory pool** of PUBLISH packets.
- **Replies**, staged into the `wbuf` of one or more clients.

How the parts interact:

- A PUBLISH (`publish_handler`) allocates one pool packet and hands it to `publish_message`. That function walks the topic's subscribers and rewrites the same packet's QoS and id for each one. For an online subscriber it tracks the packet in that client's `i_msgs`. For an offline persistent subscriber it queues the packet.
- The subscriber's PUBACK or PUBCOMP frees the packet (`puback_handler`, `pubcomp_handler`).
- CONNECT flushes the offline queue of a resumed session. It records the Will and resets a clean session.
- SUBSCRIBE installs the client on topics. A `/#` filter installs it on every existing topic under the prefix (`recursive_sub`). SUBSCRIBE also replays retained messages.
- A clean DISCONNECT removes the client from the topics its list tracks.

## Modules

| module | models |
|---|---|
| `Handlers.tla` | the ten handlers, the fan-out, the inflight tables, the pool, topics, the retained store, and the clients on the other end of each connection |
| `MCHandlers.tla` | model values and small sets for TLC: clients `c1`, `c2`; topic `a`; the filter `a`; no Will |
| `Util.tla` | `util.c`: the counted allocator and the string and number helpers |
| `InflightTable.tla` | the abstract outbound inflight table a client's `i_msgs` is meant to be; `Handlers` is checked to implement it |
| `Log.tla` | `util.c`: `sol_log_init`, `sol_log_close` and `sol_log`, with `sol_log`'s message buffer byte by byte |
| `MCLog.tla` | two log paths, one that `fopen` fails on, and the messages of 0 to `MAX_LOG_SIZE + 4` characters |
| `MCUtil.tla` | two addresses `p1`, `p2`, the characters `9` and `x`, two literals and the increments -10 and 100 |

### State

The variables of `Handlers` are named after the code:

- `online`, `clean`, `subscriptions`, `outgoing`, `iMsgs`, `iAcks`, `inIAcks`, `hasInflight`, `nextMid`, `wbuf` are the `struct client` fields.
- `topics` is the set of topics in the trie.
- `subs[t][c]` is the QoS of client `c` in `t->subscribers`, or `NoSub`.
- `retained[t]` is the retained PUBLISH of topic `t`.
- `pool` is the memory pool. Each slot records whether it is used, plus the header and id last written into the packet.

The client side has four variables:

- `pending`: the client's own QoS 1/2 PUBLISHes awaiting their handshake.
- `owes`: the acks it must send.
- `got`: how many times it read each message at QoS 2, saturating at 2.
- `nPub` and `nConn`: bounded counters.

### Data abstraction

Topic names and filters are sequences of characters, so the normalisation code is translated as written:

- `SubTopic` strips the `#` of a trailing `/#`, or appends a missing `/`.
- `PubTopics` always appends a `/` to a published name. This is because `publish_handler` tests `topic[topiclen]`, an uninitialised byte, rather than the last character.
- The undefined read has two outcomes. When the garbage byte happens to be `/`, the name runs into further garbage, written `?`. Both outcomes are modelled as a nondeterministic choice, enabled by the `StackGarbage` constant.

Other data is abstracted:

- Payloads are message numbers.
- Packets are records `[type, qos, id, msg, topic]`.
- The handlers' log calls are left out. The logger itself is modelled in `Log`.

### Actions

There is one action per handler, as `XxxHandler`. Each is fired by a client action that sends the packet:

| client action | handler(s) |
|---|---|
| `ClientConnect` | `ConnectHandler` |
| `ClientPublish`, `ClientResend` | `PublishHandler`; `ClientResend` can also run `PubrelHandler` |
| `ClientAck` | `AckHandler`, which picks puback, pubrec, pubrel or pubcomp |
| `ClientSubscribe` | `SubscribeHandler` |
| `ClientUnsubscribe` | `UnsubscribeHandler` |
| `ClientPingreq` | `PingreqHandler` |
| `ClientDisconnect` | `DisconnectHandler` |

Two actions do not send a packet:

- `ClientReceive`: the client reads the next staged packet.
- `ConnectionDrop`: the reactor closes a socket without running a handler.

How the fan-out is modelled:

- `PublishHandler` includes the whole fan-out. It is split into one operator per field it updates (`FanIMsgs`, `FanIAcks`, `FanWbuf`, `FanOutgoing`, `FanHasInflight`, `FanNextMid`).
- The pool keeps the header written for the last subscriber in hashtable order, chosen by `\E last` (`FanPacket`).

Code outside `src/` is modelled from `spec.md`, and `PROJECT.json` marks each such definition `spec_modelled`:

- `next_free_mid` (`NextFreeMid`): a wrap-around counter. It does not check for exhaustion.
- The memory pool (`Alloc`, `FreeSlot`).
- The reactor's close (`Teardown`).

The clients follow MQTT 3.1.1:

- They acknowledge what they read.
- On resuming a session they re-send unacknowledged PUBLISH and PUBREL once.
- With `Faulty` they may also send a second CONNECT, and acks they do not owe. Only the `doubleconnect` run enables it, and it publishes nothing (`MaxPub` 0), so it reaches only the second CONNECT. No run sends a duplicate PUBACK. Such an ack would free the packet again at line 549 (spec section 7), but that path is not checked.

### Util: the allocator and helpers of util.c

Every block `xmalloc` returns carries a `size_t` header holding its size. The global `memory` is meant to count the bytes of all live blocks, headers included.

- `heap[p]` is the block at address `p`: `live`, the `size` its header records, and `str`, its contents. Contents are a NUL-terminated string, as the sequence of its characters, or `Garbage` for bytes nobody wrote. `memory` is the counter.
- The actions are `XMalloc`, `XCalloc`, `XRealloc`, `XFree`, `XStrdup`, `AppendString`, `UpdateIntegerString` and `RemoveOccurIn`. Each is one call, with its address, sizes and strings chosen by `\E`. Their shared steps are `Malloc` (lines 192-203) and `Realloc` (lines 229-250). `Realloc` keeps the code's accounting `memory += (-curr_size) + size + sizeof(size_t)` and may move the block.
- The pure helpers are `RECURSIVE` operators, translated loop by loop:
  - `ParseIntFrom` computes `n * 10 + digit` with `Wrap`, the two's-complement overflow of the build;
  - `RemoveOccurLoop` follows the `p`/`pp` pointers of the in-place loop;
  - `NumberLenFrom` starts at 1;
  - `Decimal` is `sprintf("%d")`.
- `TmpBufferFits`, `RemoveOccurCorrect` and `UpdateAddsNum` are action properties. Each judges every step in which the helper runs on a string the heap holds, against a reference: the length of the `%d` text, `SelectSeq`, and the decimal value plus `num`.
- A failed `malloc` or `realloc` (a NULL return) is not modelled.
- `int` has `IntBits` = 8 bits. With that width, three digits overflow `parse_int`, as ten do at 32 bits, and every `int` can be enumerated.
- `MaxMemory` (28 bytes, 32 for the violation runs) bounds the counter. That is room for two blocks and a resize. Without the bound, the drift of `xrealloc` would make the state space infinite.

### InflightTable: what `i_msgs` promises

`InflightTable` states what the outbound inflight tables are for, from spec sections 4.6-4.11:

- `inflight[c][k]` is the message recorded for client `c` under packet id `k`, or `None`.
- `Record(m)` is one fan-out. Every entry it changes was free and now holds `m`, at most one id per client.
- `Forget(c, k)` is the ack by `c` of id `k`, which empties that entry.

`Handlers` implements it under the mapping `InflightOf`. An entry is the message of the pooled packet an in-use `i_msgs` slot points to, else `Null`. The property `InflightRefinement == Table!Spec` is checked in the `qos` run. It fails if any step of any handler does one of these:

- overwrites a recorded message;
- changes the packet under a recorded message, for example by freeing it and allocating it again;
- records a message under more than one id per client.

With `MaxMid = 1` the ids run out. The check shows that the `in_use` test at line 127 keeps the outstanding message intact when they do. It does not stop the new PUBLISH going out with the same id. No property states that part.

### Log: the logger of util.c

- `fh` is the static `FILE *fh`. It is `NoFile` (NULL), or a stream with its path and whether it is still open.
  - `SolLogInit` gives `fh` the result of `fopen`, whatever `fh` held before. That is `NoFile` for a path in `Unopenable`.
  - `SolLogClose` closes the stream but, like the code, leaves `fh` set.
- `SolLog` below `conf->loglevel` writes nothing. Otherwise it records in `last` the message, the line written to stdout, and the stream the line also went to.
- The line is computed as the code computes it, on the buffer `msg[MAX_LOG_SIZE + 4]`, indexed as in C:
  - `Vsnprintf` writes at most `MAX_LOG_SIZE + 3` characters and a NUL, and leaves the rest `Garbage`;
  - `Dots` copies `"..."` at `MAX_LOG_SIZE` and a NUL after it;
  - `CString` reads the buffer up to its first NUL, as `%s` does.
- The timestamp and the format string are left out. A message is the text `vsnprintf` produces.

## Runs

| run | cfg | expect | property | what it shows |
|---|---|---|---|---|
| qos | handlers_qos.cfg | pass | TypeOK, InflightPacketHeld, InflightRefinement | with one subscriber, no interleaving of QoS 1/2 flows, reconnects and drops frees a packet an in-use `i_msgs` slot holds; the handlers implement `InflightTable` (638k states, about 80 s) |
| liveness | handlers_liveness.cfg | pass | PublisherHandshakeCompletes, OutboundReleased | under the fairness below, each QoS 1/2 PUBLISH a client sends completes its handshake while connected, and a message staged to a connected subscriber has its slot released by the subscriber's acks |
| effqos | handlers_effqos.cfg | violation | GrantedQoSRespected | a subscriber granted QoS 0 is offline while another, granted QoS 2, receives a QoS 2 publish. The fan-out queues the shared pool packet and then overwrites its QoS and id for the online subscriber (line 116). On resuming, the first subscriber is sent the packet at QoS 2 (lines 223-233) |
| poolleak | handlers_poolleak.cfg | violation | PoolOwned | a QoS 0 PUBLISH, or one no subscriber takes, keeps its pool packet with no inflight slot or queue holding it, so nothing frees it (line 499) |
| shared | handlers_shared.cfg | violation | InflightPacketHeld | two subscribers share one pooled packet; the first PUBACK frees it under the other (line 549) |
| cleanconnect | handlers_cleanconnect.cfg | violation | SubscriptionTracked | a clean CONNECT drops the subscription list but leaves the client on its topics (line 302) |
| exactlyonce | handlers_exactlyonce.cfg | violation | ExactlyOnceDelivery | a re-sent QoS 2 PUBLISH is fanned out again, so it is delivered twice at QoS 2 (line 509) |
| doubleconnect | handlers_doubleconnect.cfg | violation | DoubleConnectRejected | `strncmp(...) == 1` accepts a second CONNECT with the same id (line 239) |
| util_heap | util_heap.cfg | pass | TypeOK, StringFits, TmpBufferFits, RemoveOccurCorrect | over every sequence of allocator and helper calls, a live block holding a string has room for its NUL; on every `update_integer_string` call `number_len(n) + 1` bytes hold `sprintf("%d", n)`; every `remove_occur` call equals filtering the character out (58k states) |
| util_memory | util_memory.cfg | violation | MemoryAccounted | `xrealloc` adds 8 bytes too many to `memory` on every resize (util.c line 248) |
| util_update | util_update.cfg | violation | UpdateAddsNum | `update_integer_string` loses its counter. Adding -10 to an empty counter writes `-10`, and the next `parse_int` reads it back as 0, because it skips the `-` (util.c line 103). The property compares results modulo the `int` width, so the wrap-around of `n += num` (line 127) is not reported |
| log_truncation | log_truncation.cfg | violation | LogLineFaithful | `sol_log` writes a message of exactly `MAX_LOG_SIZE` characters, which was not cut, with `...` appended (util.c line 75) |

`PROJECT.json` lists one mutant for each property of each passing run. Each mutant is a plausible bug in the mapped definition, and TLC must find the property violated under that run's cfg:

- an id counter that is not wrapped;
- PUBREC freeing the packet;
- the fan-out without the `in_use` test, overwriting an `i_msgs` slot when the ids run out;
- PUBREL without PUBCOMP;
- PUBCOMP leaving the message in `i_msgs`;
- a double `xfree`;
- `append_string` leaving no room for the NUL;
- `number_len` counting from 0;
- `remove_occur` testing `*pp` before the write instead of after it.

### Bounds

Every cfg uses the following bounds:

- **Clients:** two, in roles. `Publishers` publish and `Subscribing` subscribe. The `shared` run makes both clients subscribers, and that is the smallest case in which two subscribers share a packet.
- **Ids:** `MaxMid` is 1 or 2. One id is enough for the exhaustion path of `next_free_mid`; two are needed for two messages in flight at once.
- **Publishes:** `MaxPub` (1-2).
- **CONNECTs per client:** `MaxConn` (2, or 3 for `cleanconnect`). Two CONNECTs are the fewest that reach a resumed session.
- **Client requests:** a client sends a request only while fewer than `MaxWbuf` (1) replies are unread. Without this bound, PINGREQ and SUBSCRIBE could fill `wbuf` without limit.
- **Tuples:** `MaxTuples` is 1 tuple per SUBSCRIBE.
- **Log:** `MAX_LOG_SIZE` is 2, and messages run from 0 to `MAX_LOG_SIZE + 4` characters. That covers shorter, exactly as long, one longer and longer than the buffer holds.
- **Pool:** `PoolSize` is assumed large enough that allocation never fails (`ASSUME MaxPub * MaxConn <= PoolSize`).

Deadlock checking is off (`CHECK_DEADLOCK FALSE`). Once the bounded clients have used their budget the broker legitimately sits idle.

### Fairness

The reactor reads every ready socket in turn. For each client, weak fairness is therefore assumed on three things:

- reading its next packet;
- sending an ack it owes;
- a re-send it owes after resuming a session.

No fairness is assumed for publishing, subscribing, connecting or dropping. Those are the client's choice or the network's.

## Not modelled, and planned

Not modelled:

- The wire codec.
- `get_fh_soft_limit` and `unix_time_ns` in `util.c`. They are system calls with no state the broker keeps.
- The text the logger writes to its stream, the timestamp, and what `fprintf` does on a closed `FILE`. `Log` records which stream a line went to, but the callers of `sol_log_init` and `sol_log_close` are outside `src/`, so nothing fixes the order they run in.
- The reactor beyond closing connections.
- A check of `has_inflight` against spec 8.2. The model keeps the flag as the code writes it, so one PUBACK clears it while another message is in flight. Nothing under `src/` reads the flag, though, so no property is stated about it.
- Publication of the Will on a drop. No code in `src/` does it.

The hazards in `PROJECT.json` that no property covers yet say why. The following work is planned:

- Leaks on id exhaustion: `PoolOwned` already states them, but the `poolleak` run stops at the shorter QoS 0 leak.
- A passing run over the auth, Will, retain, `/#` and garbage-byte paths. These paths are modelled, but no run checks a property over them yet.
- Retained replays at the publisher's QoS and id, under `GrantedQoSRespected`. The `effqos` run stops at the shorter queued-packet case.
- CONNACK ordering.
- Delivery to matching subscribers, to catch `x//` names and the sticky wildcard flag.
- A separate `TopicTrie` module checking the prefix matching against a reference definition.
