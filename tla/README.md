# A verification project for ChattingApp

TLA+ models of the parts of ChattingApp in which several actors share state and
the order of their steps decides what comes out: server processes and their
socket handlers, the requests of the HTTP backend over one database, Redis,
browser tabs, IndexedDB, the network, a background worker and the migration tool.
TLC checks the models on small instances; TLAPS proves what the core promises for
every instance.

    tlc -config ChatConnections.cfg MCChatConnections.tla
    tlc -config Backend.cfg MCBackend.tla
    tlc -config Operations.cfg MCOperations.tla
    tlapm ChatConnections_proofs.tla
    tlapm OfflineQueue_proofs.tla
    tlapm SocketClient_proofs.tla
    tlapm MigrationLock_proofs.tla
    tlapm TaskQueue_proofs.tla
    tlapm UnitOfWork_proofs.tla
    tlapm Backend_proofs.tla
    tlapm BackendSafety_proofs.tla

## 1. The system

A FastAPI backend (async SQLAlchemy over PostgreSQL, Redis for presence, pub/sub
and caches) and a React client (IndexedDB, a service worker, one WebSocket per
conversation).

| component | state | operations | hard because | correct when |
|---|---|---|---|---|
| chat gateway, `websocket/chat_socket.py` | per process: registered sockets by (user, peer) and device, connection counts | accept, receive loop, `_send_local`, `disconnect`, two except clauses | every `await` lets other handlers change the dictionaries a loop runs over; `disconnect` runs twice for one socket | counts do not exceed the sockets, a socket left is unregistered, the last one announces |
| Redis presence, `websocket/redis_broker.py` | one counter per user, with a TTL | INCR+EXPIRE, DECR then DEL or EXPIRE | several processes, commands that fail, expiry, killed processes | the counter does not exceed the connections counted; the last to leave sees zero |
| Redis fan-out, same file | a subscription per process | publish, listen, two callbacks | a replica sees events only through it | every replica with a socket of the addressee writes to it |
| group gateway, `group_socket.py` | per process: sockets by group and device | as chat, without presence | membership is checked once, at connect | broadcasts reach members only |
| offline queue, `lib/offlineQueue.ts` | object store, snapshot, the array of hydration | hydrate, queue, flush | concurrent flushes over one array, reloads, time-outs of executed requests | a write is kept until it is acknowledged, and sent |
| socket manager, `lib/websocket.ts` | current socket, timers, flags, send queue | connect, refresh, send, release, handlers of all sockets | handlers of a socket that was replaced still write to the manager | order is kept, nothing outlives the release, a drop is retried |
| direct messages, `chat_service.py` | messages, reactions, pins, settings | send over HTTP and the gateway, media, forward, edit, delete, mark | four ways to send, each with its own checks; push before the commit | no message passes a block |
| chat extras, `chat_advancement_service.py` | bookmarks, schedules, galleries, backups and others | create, update, list | messages made up for unknown ids | - |
| relations, `friend_`, `follow_`, `block_service.py` | three tables without unique constraints | request, respond, follow, block | check then insert in concurrent transactions | no relation between blocked users, one row per pair |
| relations cache, `feed_service.py` | one key per user in Redis, with a TTL | load, invalidate | filled and deleted around the commits of three other services | every change of a relation deletes the keys of both users |
| moderation, `moderation_service.py`, `ai_moderation_service.py` | reports, decisions, the standing of accounts | report, decide, vote, gate of every message | terms end when a message notices; two moderators | a report is decided once, a permanent ban holds |
| groups, `group_service.py`, `group_feed_service.py` | groups, members, roles, messages | create, join, leave, invite, assign, post | four ways in, rows that come back | entry by invitation where it is asked for, anonymity |
| posts and feeds, `post_*_service.py`, `feed_service.py`, `privacy.py` | posts, marks, feed controls | create, change, like, comment, read | two pieces of code decide who sees a post | what a feed shows may be opened |
| feed event chain, `feed_event_chain_service.py` | a hash-linked log | `log_event`, `verify_chain` | two writers link to the same event | the chain verifies |
| sessions, CSRF, MFA | session rows, one-time tokens and codes | create, rotate, verify, revoke | two requests with one token | a token is used once, a revoked session stays revoked |
| accounts, `user_service.py` | users, an encrypted phone number | register, read, update | reads change what they load | a number belongs to one account |
| social features, lists, uploads | close friends, polls, lists, chunks and files | vote, list, upload, assemble | whole maps written back, one directory for many requests | no confirmed vote or chunk is lost but to an overlap |
| enterprise, regional, platform, analytics | keyed and plain records | create, review, replace | no protocol of their own | - |
| task queue, `core/task_queue.py` | in-process queue, worker, count of `join` | initialize, schedule, work, shut down | a worker per configuration, tasks that raise | tasks run, the shutdown ends |
| migration tool, `tools/db_backup_and_migrate.py` | a lock key with a TTL | acquire, back up, migrate, release | lost replies, kills, a holder that outlives its key | one run at a time while the key lasts |
| conflict resolution, `localFirst.ts`, `localConflicts.ts` | none (pure) | resolve | only its tests call it | the result does not depend on the order |

How they interact: the UI calls `apiRequest`, which queues a write it cannot
send; `OfflineStatus`, the service worker and `Settings` flush the queue back
through `apiRequest`. Hooks share a socket manager per conversation, which talks
to a gateway handler; handlers write to sockets of their own process through
the manager and to the others through `publish`. Notifications go both ways at
once. The services share tables: a message asks `blocks` and the standing of an
account, a feed asks `friends`, `followers` and `blocks` through the cache, an upload
schedules a task. Every client also opens a chat socket whose peer is the user itself
(`useNotifications.ts`).

`PROJECT.json` lists every component and, under `hazards`, what is hard to test
in this code, each at its line; the properties below were written from it.

## 2. The modules

### ChatConnections: the gateway and presence

A *socket* is one connection attempt with its handler coroutine, used once. The
event loop runs a handler alone until it awaits, so an action is the code
between two awaits; `pc` says which.

| code | model |
|---|---|
| `chat_websocket`, up to the receive loop | `Connect`, `Incr`, `SetTtl`, `JoinFails`, `SyncReply` |
| the receive loop | `Relay` (typing, message_read), `Message`, `Fault`, `ReceiveDisconnect` |
| `_send_local`, one `send_json` at a time | `SendInner`, `SendOuter`, `SendRaises` (RuntimeError), `SendEnds` |
| `disconnect`, for each failed socket or the own one | `Disconnect`, inside `SendEnds` and `Leave` |
| the except clauses, `decrement_presence` | `Leave`, `Decr`, `DeleteKey`, `Touch`, `LeaveFails` |
| client, network, Redis TTL, process stop | `Connect`, `Hangup`, `Expire`, `Kill` |

`active_connections` is the set `active`: since the frontend never sends a
`device_id`, the handler draws one per socket, and a socket stands for its device
map entry. `userCount` is `user_connection_count`; `device_connection_count`
feeds a metric only and is left out. `presence` is the key in Redis: value and
whether it has a TTL. `cast` is the state of the two loops: the size of both
dictionaries when each loop began, which keys were seen, who was sent to and who
failed. `counted`, `reaped` and `events` are history: connections with an
INCR and no DECR, sockets a send loop has disconnected, and the number of events
and mishaps so far, bounded by `MaxEvents`.

Three facts of the code shape the model more than one expects:

- `serialize_message` returns a `datetime`, which `send_json` cannot encode. Every
  send of a message fails and disconnects the socket it was meant for
  (`Encodable`), and a sync reply that is not empty raises (`SyncReply`).
- A socket that failed is disconnected by the send loop, while its own handler
  goes on; when that handler leaves, `disconnect` runs again. If another socket of
  the conversation is left the count goes down a second time. So the count may be
  *less* than the sockets: the properties say what still holds.
- The size check of Python's dictionary iterators is modelled as it works: a
  loop whose dictionary was changed and changed back goes on. But a conversation
  without sockets is popped, and the next socket makes a new dictionary: a loop that
  is inside the old one finds it empty for good (`EnterDropping`, size 0).

Abstractions: sockets refused before `accept` keep no state; without Redis the
announcement is decided in `Connect` and the first send is a step of its own;
`Leave` closes the transport at once, although the code closes it after it
unregistered (the socket is unregistered by then, so no send can tell); the order
of the failed sockets in `SendEnds` only decides how often the count goes down,
which `Disconnect` leaves open between its bounds; publishing is left to
RedisFanout.

### RedisFanout: events between replicas

`publish`, the pattern subscription, `_listen_loop` and the two callbacks, for an
address that is a user or a group. The managers appear as the sockets they would
write to.

### OfflineQueue: queued writes of the browser

A row is a queued write; ids follow `createdAt`. The model keeps apart what the code
keeps apart: `store` (IndexedDB), `snapshot` (`queueSnapshot`), `queue` (the array
`hydratePromise` resolved to, which flushes iterate over) and `puts` (the put
`queueRequest` does not await). Each member of `Flushers` is a place that can have a
flush under way (the effect and the background-sync handler of
`OfflineStatus.tsx`, the button of `Settings.tsx`); a flush awaits the server and
IndexedDB for each row in turn. IndexedDB runs the transactions on a store in
order of creation, which is the guard of `PutLands`, `FlushDelete` and `FlushRetry`.

One page: several tabs share the object store, each with a snapshot and an array of
its own, and could overwrite each other's retries. They are not modelled, and every
property of the queue is one of a single page.

Abstractions: `updatedAt` is not kept, so either of two rows with one key survives
the merge of hydration; all backoffs end together; the two legacy stores are empty;
IndexedDB does not fail; the 401 branch of `apiRequest` is one of the errors.

### SocketClient: the socket manager of the browser

The manager's fields, and for every socket it has ever opened its `readyState`: the
handlers of a socket write to the manager whichever socket it refers to by then.
`reconnectTimer` tells "armed" from "spent", a timer that fired and whose handle
stays set.

Abstractions: a token is the current one or another; the ping of the heartbeat is
left out; error and close of one socket are one step; a released manager is out of
the registry and is only reached by its own listeners.

### UnitOfWork: a request of the backend

The HTTP handlers share a session per request (`get_db`): it commits at the end and
rolls back on any error; some services commit on the way (`run_transaction`). The
database runs READ COMMITTED and no handler of `src/backend/app` locks a row, so what
a handler decides rests on what it read some time ago. That is the whole model:

| code | model |
|---|---|
| the handler up to its first commit: reads, checks, early returns | the guards of an action that ends in `Begin` |
| what it then flushes, one batch per commit, and calls of Redis or the broker between them | the batches of `Begin`, sets of `Insert`, `Update`, `Patch`, `Delete` |
| a commit | `Commit`: applies the batch to the tables as they are by then |
| a read after the first commit | `Later`, answered by an action of the module (`LogEvent`, `ToggleAgain`, `Responded`) with `Resolve` |
| an error, a refused flush, a killed process, a client gone | `Abandon`; `Fails` says when the database refuses |

`Fails` is a unique constraint, a loaded row that is gone (`StaleDataError`) or a
missing parent; `Written` cascades deletes. `Edit` writes only the columns that differ
from those loaded, as SQLAlchemy does, which decides what two overlapping updates
leave. Every row is stamped: `id` is the request that wrote it, `born` how many
requests had begun when it was committed. So `Overlapped(r, s)` says of two rows
whether the requests that wrote them were in flight together, and a property can say
"only to overlapping requests" of a code without locks.

`BeginRefreshed`: `session.refresh` on a row that was only added, or changed and not
flushed, expires it first; the pending row is refused, the change read back
(SQLAlchemy 2.0). Handlers that do this write nothing. `RefreshFlushes` admits both
that and a build whose refresh flushes, so that no property rests on the defect.

### The services

One module per family of services; each operator of a service says what its
transaction commits, each operator of a route which requests reach it.

| module | code | rows and actions |
|---|---|---|
| Relations | `friend_`, `follow_`, `block_`, `notification_service.py`, `_load_relationships` | `friends`, `followers`, `blocks`; `relations_cache` is Redis, `pushed` the broker; `ExpireRelations` the TTL |
| Moderation | `moderation_service.py`, `ai_moderation_service.py`, `admin_routes.py` | the standing of an account; a term is none, later or past, and `TermsEnd` is the clock; a text is the set of its findings |
| Messages | `chat_service.py`, `chat_advancement_service.py`, the message branch of the gateway | every way to send, and what hangs on a message; `delivered` is what sockets were told of it, from whom and to whom |
| Feed | `post_*_service.py`, `feed_service.py`, `feed_event_chain_service.py`, `privacy.py` | posts, marks, the chain; a feed is the set of posts it may show |
| Groups | `group_service.py`, `group_feed_service.py` | a member's row is keyed by the pair, and `since` tells one stay from the next |
| Sessions | `session_`, `csrf_`, `mfa_`, `login_history_`, `ip_reputation_`, `security_audit_service.py` | a token is the request that issued it; `answers` keeps what the client was told |
| Social | `social_feature_`, `user_list_`, `media_`, `encrypted_media_service.py` | files are rows: a chunk belongs to the request that opened it last, and is read whole once that one has confirmed it |
| Accounts | `user_service.py`, `core/auth.py`, `EncryptedString` | a stored number is the number and the request that encrypted it, or 0 for plain text |
| Catalog | `enterprise_feature_`, `globalization_feature_`, `platform_expansion_`, `analytics_service.py`, preferences | records with their status; no property of their own, but they run in the same unit of work |
| Backend | the routers of `main.py` over one database | composes them |

Two facts of the code shape these models more than one expects:

- The route passes the caller's id as a string, and some services compare it with a
  UUID in Python (`can_view_post`): the comparison is never equal. Where the code
  does so, the model keeps the two apart (`Str`).
- `list_members` and `get_group_messages` are queries, not state; they are modelled
  because the anonymity of a group is what they leave out.

A behaviour of Backend is about one *scene*: the families of routes in use, the rows
that earlier requests left (`Rows`), and a bound on the requests. A scene with two
families is one in which they meet: blocks with messages, decisions with messages,
blocks with invitations; *relations* always includes the feed that reads the cache.

Abstractions: names, texts, amounts, order, pages and scores are not kept; the limit
of messages per minute lies beyond the bound on requests; who may call a
moderator's route is `Moderators`, other role checks come before the handler runs.

### MigrationLock, Lease, TaskQueue, Operations

| code | model |
|---|---|
| `main` of the migration tool, `acquire_lock` | `Begin`, `Granted`, `Refused`, `NotAcquired` |
| `pg_dump`, alembic, the `finally` with `LOCK_SCRIPT` | `Backup`, `Migrate`, `Release` |
| a killed run, the TTL of the key | `Killed`, `Expire` |
| `TaskQueue.initialize`, `schedule`, `shutdown` | `initialize`, `schedule`, `Shutdown` and `Joined` |
| `_worker_loop` | `get`, `TaskEnds` |

`Lease` is the abstract specification of a lock with a time to live: it is granted
when nobody owns it, lost by the owner's own end or the time to live alone, and a
holder that outlives it goes on outside the lock. `MigrationLock` implements it with
the key as owner and the working runs with a token as holders (`TheLease`). A call
whose reply is lost may have had its effect: `Granted` and `Release` have both
outcomes. `Operations` puts the two programs side by side; they share no state.

### The proof modules

`ChatConnections_proofs`, `OfflineQueue_proofs`, `SocketClient_proofs`,
`MigrationLock_proofs` and `TaskQueue_proofs` hold the theorems of section 5.
`UnitOfWork_proofs` has the lemmas about commits, `Backend_proofs` the types of every
route, `BackendSafety_proofs` the properties of the tables; each extends the one before.
The MC modules give the constants of the instances.

## 3. What is checked

| run | instance | shows |
|---|---|---|
| chat_connections | 1 process, with and without Redis; ann has two sockets to bob, bob one to ann; 1 event or mishap | type, count, presence and registration invariants; who announces |
| chat_notifications | ann's socket to bob and her notifications socket, whose peer is ann; 3 events or mishaps | the loop over two conversations, and a user's count across them |
| chat_replicas | ann's sockets at two processes, no event, hence no kill or failure | presence across processes, where DECR and DEL of one meet the INCR of another; every handler of a lost transport ends |
| redis_fanout | 2 processes, a socket at each, 2 events | **violated**: no event reaches another replica |
| offline_queue | 2 flushers, 2 writes, 2 keys, queue of 1, 2 attempts, 1 reload | durability, retry bookkeeping, termination |
| offline_unsent | 1 flusher, 1 write, no reload, eager client and answering server | **violated**: a write queued after hydration is not sent |
| offline_resent | 1 flusher, 1 write, 1 reload | **violated**: an acknowledged write is sent again |
| socket_client | 4 sockets, 4 payloads, queue of 2, 2 attempts | order, loss, heartbeat, release, `isConnecting` |
| socket_retry | 3 sockets, 2 attempts | **violated**: the second drop is not retried |
| backend | 16 scenes of 2 users, 2 requests in flight, 2 or 3 requests in all | what handlers without locks keep, and that what they lose is lost to overlapping requests only |
| operations | 2 runs of the tool, 2 attempts; 2 tasks, all four queue backends | the refinement of the lease; tasks run and the shutdown ends |
| tasks_unrun | the same, queue backend `redis` | **violated**: a scheduled task is never run |

The properties, by hazard:

- *Counts*: `CountNeverOver` (the local count never exceeds the registered
  sockets) and `CountExactWithoutReaping` (it is exact as long as no send loop
  disconnected one of the user's sockets).
- *Presence*: `PresenceNeverOver` (never above the connections counted, through
  expiry, failed commands, DEL after a foreign INCR, kills). Below is possible and
  does happen: then a user is announced offline while still connected.
- *Who announces*: `LastLeaverAnnounces` and `LastLocalLeaverAnnounces`, with and
  without Redis: the last one never believes that it is not the last.
- *Registration*: `CleanExitUnregisters`; its exception, a handler that crashes
  outside the try (`pc = "crashed"`), leaks its registration, and the model has it.
- *Progress*: `HangupEndsHandler`, `FlushTerminates`, `ConnectingEnds`.
- *Client data*: `DurableUntilAcked`, `RetriesNeverRegress`, `FifoWithoutLoss`,
  `OpenSocketDrained`.
- *After the end*: `ReleasedStaysClosed`, `HeartbeatHasSocket`.
- *Check then write, without locks*: `BlockSevers`, `PairsDoubledOnlyTogether`,
  `DecidedOnce`, `TokensUsedOnce`, `VotesLostOnlyTogether`, `ChainForksOnlyTogether`.
  The code does lose to overlapping requests; these say that it loses to nothing else,
  and the scenes with three requests have two that overlap and one before or after.
- *Several ways to one effect*: `NoMessageThroughBlock` (write, media, forward and the
  gateway: the rows of the first three, and what any of the four told a socket of either
  user), `GroupEntry` and `AnonymousNamesNobody` (create, join, invite, come back),
  `ChangesInvalidate` (six services, two users, and a later read that decides).
- *Two pieces of code that must agree*: `FeedShowsWhatCanBeOpened`. Its exceptions are
  gaps of the code, listed in section 4; a stale cache is one, so what bounds the
  staleness is `ChangesInvalidate` alone.
- *State noticed late*: `PermanentBanHolds`, `RevokedStaysRevoked`, `NumbersUnique`.
- *Files*: `FilesHoldTheirChunks`, with chunks written again while an upload completes.
- *Operations*: `Implements`, `TasksRun`, `ShutdownEnds`.

Every property of a passing run has a mutant: a plausible bug in one mapped
definition under which TLC finds it violated. They stand before the definition they
replace and are used by nothing else.

### Bounds

Three sockets are the smallest number for a loop that sends to two sockets while a third
handler connects, fails or leaves. `MaxEvents` counts messages, typing events, faults,
failing commands, expiries and kills together; hang-ups are not bounded. One is enough
for every pair of "mishap, then anything the handlers do"; chat_notifications gives up
one socket for sequences of three; the theorems hold for every bound. In the offline
queue one row more than the queue holds makes the cut happen, two attempts make a row
fail for good, and a reload makes hydration see rows with a history. Four sockets of one
manager allow two overlapping ones and two reconnections. In the backend every property
is about a pair: of users, of rows or of requests. Two requests in flight and one before
or after them make every overlap of two with a history; scenes of two requests are those
whose rows stand for that history, or that only have to fire. Two chunks tell a lost one
from a file that has none. Two runs of the tool make one enter while the other outlives
its key, and `MaxAttempts` of 2 lets one wait and then be granted or give up. Deadlock
is not checked, since each system may come to rest: all connections are over, all bounds
reached.

### Fairness

- ChatConnections: weak fairness of each handler. The event loop runs every task
  that is ready, a closed transport makes `receive_json` raise, and a Redis command
  has a socket timeout. Clients promise nothing.
- OfflineQueue: weak fairness of hydration, of the puts and of each flush under way;
  `fetch` is aborted after `DEFAULT_TIMEOUT_MS`, so a send ends. `EagerSpec`, for
  offline_unsent only, adds a client that goes on flushing and a server that answers
  when it is asked again and again: the counterexample owes nothing to bad luck.
- SocketClient: the browser ends each handshake and each close and fires each timer.
- RedisFanout: the listener loop runs.
- Operations: weak fairness of `get`, `TaskEnds` and `Joined`. The event loop resumes a
  coroutine whose await is over, and a task ends because its awaits are calls of ffmpeg
  and Pillow on one file. ffmpeg has no timeout here, so that is an assumption on it.
- Backend has safety properties only; its clients and its database promise nothing.

## 4. Findings

1. `redis_fanout`: `psubscribe` delivers messages of the type `pmessage`;
   `_listen_loop` takes only `message`.
2. `offline_unsent`: flushes use the array of hydration time.
3. `offline_resent`: and that array keeps what was acknowledged.
4. `socket_retry`: the handle of the reconnection timer is not reset when it fires.
5. `tasks_unrun`: `schedule` puts every task on the in-process queue, which the loop of
   the Redis backend never reads.

Met on the way, without a run of their own.

Client and gateway:

- the close event of a replaced socket clears `isConnecting`, so a second dial can
  orphan a socket that is connecting, and stops the heartbeat of the new one; a token
  refresh makes one such event;
- the backend never reads `Idempotency-Key`; `docs/architecture/offline-first.md` has
  4xx replies removed from the queue and 5xx replies halt it, the code stores every
  failed row with a backoff and goes on; retry counts of one page never get past the
  first, because a flush starts from the hydrated array each time; there is no jitter,
  and no `sync_since` from the frontend;
- a message of the gateway is pushed and never stored: its session is closed without a
  commit (`chat_socket.py:344`);
- a member who leaves a group goes on receiving its broadcasts (`group_socket.py:194`),
  and typing frames carry the id of the user in anonymous groups too (`:218`).

Writes that do not last, each modelled as the code has it:

- `send_message` and other handlers refresh a row that was only added or changed, so
  messages over HTTP, edits, pins, reactions, seen marks and profile updates are refused
  or read back (`BeginRefreshed`);
- the sanction that the gate of a message decides, and the records of a failed second
  factor or a device mismatch, are rolled back with the error they come with;
- notifications are pushed before the commit that stores them;
- the file of an encrypted upload is deleted before its commit (`media_routes.py:65`);
- reactions and a gallery's `media_count` are read, changed and written back
  (`chat_service.py:416`, `chat_advancement_service.py:490`), as are the votes of a poll.

Checks that do not hold what they say:

- a shadow ban hides nothing: the map of the banned is keyed by UUIDs and asked with strings
  (`moderation_service.py:154`, `docs/security/AI_MODERATION_AND_SAFETY.md:17`);
- the author of a friends, followers or custom post cannot open it (`privacy.py:42`),
  and a feed shows the posts of an author who blocks the reader;
- feeds filter by a cache entry, posts are opened by the tables: a feed is wrong from the
  commit of a change until the key is deleted (`feed_service.py:80`), and until the TTL
  when a feed that read before the commit fills the cache after the deletion;
- a CSRF token passes the middleware any number of times, since the middleware does not
  consume it (`security_middleware.py:149`);
- an anonymous group hides user ids in its members and messages only: its posts
  (`post_routes.py:278`), hosts of events (`group_service.py:642`), its creator (`:159`)
  and the answers to a join or a change of role (`group_routes.py:97`, `:276`) have them;
- phone numbers are stored in plain text, since every query decrypts them in place
  (`user_service.py:29`, `:65`, `backend/README.md:343`), and `NumbersUnique` rests on it;
- any session is revoked by its id; any group administrator can name an owner, and the
  last one can leave; a community vote is not one per user;
- an unknown message id makes up a message (`chat_advancement_service.py:68`, `:276`);
- two users who block each other leave two rows, and `are_blocked` then raises
  (`block_service.py:45`); a block leaves rows of `close_friends`;
- a second answer overwrites an accepted friendship, and its path does not invalidate
  the cache (`Overwritten` in `ChangesInvalidate`);
- a search of posts with a cursor fails (`post_routes.py:113`);
- the migration runs without the lock when the ping of Redis fails, and a key whose
  `SET` was granted to a lost call stays until its TTL.

## 5. What is proved

In `ChatConnections_proofs`, for any sets of processes and users, any finite set
of sockets, any assignment of users and peers to them, and any `MaxEvents`
(`FiniteAssumption`, `SocketAssumption`):

| theorem | property | from |
|---|---|---|
| `TypeCorrect` | `TypeOK` | one lemma per group of actions |
| `CountBounded`, `CountExact` | `CountNeverOver`, `CountExactWithoutReaping` | `CountInv` |
| `ExitUnregisters`, `LastLocalLeaver` | `CleanExitUnregisters`, `LastLocalLeaverAnnounces` | `CountInv` |
| `PresenceBounded`, `LastLeaver` | `PresenceNeverOver`, `LastLeaverAnnounces` | `PresenceInv` |

`PresenceNeverOver` is not inductive: a `DECR` takes one from the counter and the
socket from `counted`, which keeps the bound only if the socket is in `counted` or
the step before made up for it. `PresenceInv` adds that a handler before its INCR is
not counted, so that no INCR is counted twice. The cardinalities change by at most
one per step (`CountedChanges`).

`CountNeverOver` is not inductive either. A second `disconnect` of one socket lowers
the count without removing a socket, so the bound has to be kept from above whatever
the number of calls: the lemmas `DisconnectNeverOver` and `DisconnectElsewhere` say
that `Disconnect` lowers the count at least as often as it removes sockets of the
user, and leaves other users alone. `CountExact` needs the converse, for which
`DisconnectOne` counts the calls on a single socket that is still registered. What
`CountInv` adds to the properties is where a handler's socket may be: not registered
before it connects, and registered or reaped while it is served.

In `OfflineQueue_proofs`, for any keys, flushers, queue size, number of attempts,
rows and reloads (`BoundAssumption`, `NoRowAssumption`):

| theorem | property | from |
|---|---|---|
| `RetryTypeCorrect` | `TypeOK` | `RetryInv` |
| `RetriesKept` | `RetriesNeverRegress` | `RetryInv` |
| `Durable` | `DurableUntilAcked` | `DurableInv`, `RetryInv` |

All three are theorems about one page. That retries do not go back is not obvious: two
flushes write versions of a row made from an array as old as the page. It holds because
they all start from that same array, so what a flush writes is its version plus one.
`RetryInv` says so: all versions of a row the flushes hold (`Held`) agree, and the store
is at most one attempt ahead of them (`OneAhead`). Before the hydration is done nothing
is held, and what will become the array agrees with the store and the puts
(`BeforeFlush`); a new row has an id above all of them. `RowsOK` adds that a row marked
as failed never enters the snapshot, hence no flush, which bounds the attempts and makes
even `TypeOK` depend on the invariant. `DurableInv` adds to the property that a flush
about to delete has seen its row acknowledged.

In `SocketClient_proofs`, for any number of sockets, payloads and attempts and any
queue size (`BoundAssumption`):

| theorem | property | from |
|---|---|---|
| `ClientTypeCorrect`, `Drained`, `HeartbeatStops` | `TypeOK`, `OpenSocketDrained`, `HeartbeatHasSocket` | `ManagerInv` |
| `Fifo` | `FifoWithoutLoss` | `FifoInv`, `ManagerInv` |
| `ReleaseIsFinal` | `ReleasedStaysClosed` | `ManagerInv` |

`ManagerInv` is inductive with one addition, that a released manager refers to no
socket. `FifoWithoutLoss` is about the concatenation of what was written and what is
queued; `FifoInv` states it of the two parts (`Concatenation` proves them the same),
so that the full queue's drop of its head, which is in the middle of the concatenation,
is the tail of one part. `ManagerInv` is needed too: a payload written at once keeps
the order only because an open socket has an empty queue.

In `MigrationLock_proofs`, for any number of runs and attempts (`RunsAssumption`,
`AttemptsAssumption`):

| theorem | property | from |
|---|---|---|
| `MutualExclusion` | `Exclusive` | `MigrationInv` |
| `LeaseRefinement` | `Implements` | `MigrationInv` |

`Exclusive` speaks of the runs at work, the code only of a key: `MigrationInv` joins
them by `HolderOwnsKey` (a holder that has not lapsed owns the key), `LapsedLostKey`
and `LapsedAreHolding` (who lapsed has lost it and works on), and `OwnerHasBegun` (a run
that has not been granted the key owns none). The refinement takes each step to a
`Grant`, a `Lapse`, a `Stop` or a stutter; that `Release` takes no other run's key is
where the token matters.

In `TaskQueue_proofs`, for any tasks and any set of backends (`TasksAssumption`):
`DrainedOnStop` proves that a process that stopped in order has no scheduled task left,
from `TaskInv`: the count of `join()` is exactly the tasks queued or running.

### The backend

The three modules about Backend prove its properties for any users, devices, phone
numbers, contents and workers, any number of requests, any scenes and any set
`RefreshFlushes`. The assumptions: the tables of the services are among `Tables`
(`TablesAssumption`); a scene is of known families and has a bound (`ScenesAssumption`);
there is a device, and a text in which nothing was found (`DevicesAssumption`,
`ContentsAssumption`); `None` is no user (`UsersAssumption`).

| theorem | property | from |
|---|---|---|
| `TypesHold`, `TypesCorrect` | `TypeOK` | `TypeInv` |
| `BlocksSever`, `PairsNotDoubled` | `BlockSevers`, `PairsDoubledOnlyTogether` | `PairsInv` |
| `BlocksStopMessages` | `NoMessageThroughBlock` | `MessagesInv` |
| `FeedsShowWhatCanBeOpened` | `FeedShowsWhatCanBeOpened` | `TypeInv` |
| `NumbersBelongToOne` | `NumbersUnique` | `NumbersInv` |
| `ReportsDecidedOnce` | `DecidedOnce` | `DecidedInv` |
| `RevocationsHold` | `RevokedStaysRevoked` | `RefreshInv` |
| `TokensAnsweredOnce` | `TokensUsedOnce` | `RefreshInv`, `CSRFInv` |
| `GroupsEnteredByRight`, `AnonymousStaysAnonymous` | `GroupEntry`, `AnonymousNamesNobody` | `GroupsInv` |
| `ChainForksTogether` | `ChainForksOnlyTogether` | `ChainInv` |
| `VotesKeptApart` | `VotesLostOnlyTogether` | `VotesInv` |
| `FilesKeepChunks` | `FilesHoldTheirChunks` | `FilesInv` |
| `PermanentBansHold` | `PermanentBanHolds`, without groups | `BansInv`, `ActionsInv`, `NumbersInv` |

*The argument.* A handler decides on what it read, and its writes land on tables that
others may have changed since. So no property of the tables is inductive by itself.
Each is kept together with a condition on every batch that is still open
(`Open`): what the handler read, weakened by what may have been committed meanwhile.
Almost always this weakening is a comparison of stamps. When a handler found no row that its own
would contradict, then whatever contradicts it at its commit was *born* no earlier
than its request began (`w.row.id <= r.born`), and that is what `Overlapped` asks for.
`PairsInv`, `MessagesInv`, `GroupsInv` and `ChainInv` are of this form.

*Once only.* `DecidedInv`, `RefreshInv` and `CSRFInv` must also say that what a commit
did cannot be undone by an older batch: a report that was decided on is closed for
good, a token that was answered belongs to no session any more, nor will it.
That needs the row which a batch changes to be the one the request looked at: `Solo`
says that no two rows of a table have a number in common, and that a number about
to be given is about to be given by one batch. `Once` says that one request writes to
these tables in one of its commits only, which `Held` makes a set.

*The votes.* A poll keeps its votes in one map, which every vote writes back whole, so
a vote can be lost to any later write that began before it. `VotesInv` says of a write about to
commit that its map has every vote confirmed on the poll, but for those committed since its
request began and those contested already (`Casting`); and of a confirmed vote that
its poll is not about to be made again (`Cast`), for then the new row would lack it. A
request that finds its own vote in the map writes no map: it is confirmed all the
same, and kept by the third part of `Casting`.

*The files.* Here one request commits twice: it opens the file of a chunk, and later,
with all of it written, confirms it. So the invariant is about the order of what a
worker has before it (`Uploading`): a worker about to confirm finds the file, as long as
the directory of the upload is there. A confirmed chunk is `Saved`: its file is there
too, so that assembly finds it, whole if the confirming request was the last to open it.
Both rest on a directory that is gone not being made again (`Sought`), since the number
of an upload is given once.

*The bans.* An account that a ban suspended is written to by requests that read it
before. `BansInv` says of every batch about to change the standing of an account
(`Lifting`) that it brings a decision on that account, or the message of one whom no
ban held when it was sent; and of a ban about to be committed (`Banning`) that the
account is banned once it is, unless it has been overtaken since. The second part is about
what the account becomes under the batch (`After`), because the flush writes only the
columns that differ from those it loaded: a ban of an account that is suspended without
a term writes none, and counts on nobody having changed it. So it needs `NumbersInv`
(one row per account) and that actions, accounts and notifications are never
deleted (`Lasts`, in `TypeInv`). A group message lifts a term too and can be deleted
afterwards, so that nothing is left to tell that it was in flight with the ban:
the theorem is about the scenes whose routes do not include those of groups.

*The structure.* `Backend_proofs` shows of every route which batches it may open
(`Requests`), so that a proof about some tables looks only at the families that write to them;
for all others, `Quiet` or `Rests` says that they leave these tables and what is about
to be written to them alone. `UnitOfWork_proofs` says of a commit row by row what may be in
a table afterwards. `TypeInv` is more than `TypeOK`: every pending write is well
typed and stamped no later than now, and its number is that of a request that has begun.

*What turned up.* `NumbersUnique` rests on more than the unique column: the key
compares stored numbers, so it works because they are all stored in plain text
(`Plain`, section 4) and because no commit writes two accounts. `GroupEntry` depends on
the kind and the creator of a group being the same in every row there is or will
be of it (`Kin`). `ChainForksOnlyTogether` is stated of the verification of the whole chain, but
what is kept is that no two events stand at one place, or that two which do
overlapped. For the proofs, `Overlay` and `ReportTypes` were named in the model.

### What is only model-checked

- The liveness properties: ENABLED is out of the prover's reach.
- `ChangesInvalidate`: a change and the deletion of its keys are in different commits of
  one request, for six services, and later reads decide which there are.

The runs that end in a violation have nothing to prove.

## 6. Not modelled, and why

- *Conflict resolution* (`localFirst.ts`, `localConflicts.ts`): pure, and only its tests
  call it; no replicas exchange records.
- *`core/redis_lock.py`* and `schedule_distributed`: nothing calls them. The lock's
  protocol is that of the migration tool.
- *Group sockets*: their use of the broker and the message they store are modelled; the
  loop over the sockets of a group is the inner loop of ChatConnections without counts.
- *Reads without consequences*: searches, order and pages of feeds, trends, statistics,
  summaries; the sync after a reconnect, of which no client makes use.
- *Rate limits*: thirty messages a minute and the limits of the middleware lie beyond
  the bounds of any instance that TLC could finish.
- *What a library decides*: classifiers (their verdict is the set of findings), abuse
  scores, Firebase, transcoding, storage adapters, cryptography (a ciphertext is what it
  encrypts and when).
- *Columns no property tells apart*: usernames, profiles, texts, amounts.
- *The UI, the service worker, deployment*: in-memory state and configuration.

What is left to do: the sockets of groups as a module of their own, to state who may
still receive; SocketClient composed with ChatConnections, for the duplicate sockets the
server counts.
