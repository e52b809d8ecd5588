# A verification development for Serp: the scheduler and the web client

Serp is a suite of services (accounts, CRM, project management, chat, notifications, a
personal task manager and others) that talk over HTTP and Kafka, and one web client for all of
them. Most services are requests that read and write a few rows. Two parts have a logic of their
own, and a concurrency that no test reaches:

* `src/ptm_schedule` mirrors a user's tasks from Kafka, keeps a history of schedule plans, queues
  every change, and reschedules plans in background workers.
* `src/serp_web` keeps one cache of what all the services answered, renews its tokens while
  requests are under way, and merges what WebSockets push into what it has fetched.

This directory holds TLA+ modules of both, configurations for TLC, and proofs for TLAPS. Paths
below are relative to `src/ptm_schedule/src` or, in the sections on the web client, to
`src/serp_web/src`, unless they start with `src/`.

## 1. Inventory

### 1.1 Components, their state and operations

| component | state | operations |
|---|---|---|
| **Reschedule queue and worker** (`ui/worker/reschedule_worker.go`, `core/service/reschedule_queue_service.go`, `core/service/reschedule_strategy_service.go`, `infrastructure/store/adapter/reschedule_queue_adapter.go`) | table `reschedule_queues`, unique per (plan, trigger, entity); `processing`, the plans in work in one process | enqueue (an upsert with a debounce), poll, fetch and lock a batch, choose a strategy, load, run, write, complete or fail |
| **Schedule plans** (`core/usecase/schedule_plan_usecase.go`, `core/usecase/optimization_usecase.go`, `core/service/schedule_plan_service.go`, `core/domain/entity/schedule_plan.go`) | table `schedule_plans`: status, parent, algorithm, staleness | create, get or create the active plan, optimize (three triggers), apply, discard, revert, mark stale, clean up |
| **Task event consumer** (`ui/kafka`, `core/service/idempotency_service.go`, `infrastructure/client/kafka_consumer.go`) | offsets, `processed_events`, `failed_events`, the dead letter topic, the task snapshots `schedule_tasks` | consume, deduplicate, handle (created, updated, deleted, bulk deleted), record a failure, send to the dead letter topic, forget old events |
| **Schedule events** (`core/usecase/schedule_event_usecase.go`, `core/service/schedule_event_service.go`) | table `schedule_events` | move, pin, complete, split, skip |
| **Scheduling algorithms** (`core/domain/algorithm`) | none | greedy insertion, ripple, replanning, the diff of two schedules |
| **Availability** (`core/service/availability_calendar_service.go`, `calendar_exception_service.go`, `schedule_window_service.go`) | weekly calendar, exceptions, materialised windows | edit, materialise windows, subtract |
| HTTP surface, JWT, configuration | none | routing |
| `src/ptm_task` | tasks, projects, dependencies, recurrence | CRUD; publishes the task events |
| `src/ptm_optimization` | none | numerical optimisation (CP-SAT, MILP, local search) |
| `src/notification_service`, `src/discuss_service` | notifications, connections; channels, messages, presence | WebSocket and Kafka delivery |
| `src/account`, `src/crm`, `src/pm_core`, `src/mailservice`, `src/sales`, `src/logistics`, `src/purchase_service` | their own tables | CRUD with status tables, e-mail with retries |
| `src/api_gateway`, `src/serp_llm`, `src/serp_java_platform` | none | proxy, model front end, shared starters |
| **serp_web: response cache** (`lib/store/api/apiSlice.ts`, the 27 api files of the modules) | RTK Query's entries, the tags they provide, invalidations that wait; the registry of endpoints | query, mutate, patch before the answer, undo, invalidate, fetch again, forget; inject the endpoints of a module |
| **serp_web: session** (`lib/store/api/apiSlice.ts`, `lib/store/middleware/websocketMiddleware.ts`, `modules/account`, `modules/notifications/store`) | the tokens, the requests that renew them, the notification socket and its timer, the list and badge of notifications | sign in, log out, send, refresh, retry, reload; connect, close, reconnect; receive a push, mark as read |
| **serp_web: chat window** (`modules/discuss/hooks/useDiscussWebSocket.ts`, `components/ChatWindow.tsx`, `components/MessageList.tsx`) | the STOMP client, the cached page of each channel, the list that is shown, optimistic entries, typing indicators | open a channel, send, edit, delete, load older messages, receive an event, reconnect |
| serp_web: pages, forms and components | which dialog or tab is open | render |

### 1.2 How they interact

    ptm_task --Kafka(task id)--> consumer --one tx--> schedule_tasks + reschedule_queues
                                     |                        |
                       processed_events, failed_events,       | poll, FOR UPDATE SKIP LOCKED
                       dead letter topic                      v
    HTTP --one tx--> schedule_events + reschedule_queues   worker --other connections--> schedule
    HTTP --tx / no tx--> schedule_plans <--GetOrCreateActivePlan, MarkProposedPlanAsStale-- consumer

    services <--HTTP, 401 and refresh-- serp_web cache <--tags-- pages and forms
    notification_service --socket--> middleware --> notifications slice --> badge
    discuss_service --STOMP events--> cached page of a channel --effects--> chat window
                    <--publish, REST--

Three facts about the scheduler shape everything that can go wrong:

* **Reads never run in the transaction.** Adapters read on `s.db`, a connection of the pool, and
  only write on `tx`. A value that is checked is the one committed a moment ago.
* **`UpdatePlan` saves the whole row** as it was read. The optimistic version of it exists
  (`UpdatePlanWithOptimisticLock`) and has no caller.
* **`applyChanges` is given a nil transaction.** The worker holds its queue rows on one
  connection and writes the schedule on others, each statement committed on its own.

And four about the web client:

* **Tags are all the cache knows.** A mutation invalidates the tags its author named; that the
  service writes other tables in the same transaction is nowhere to be seen.
* **Endpoints are looked up by name**, in one registry for all the modules, and
  `injectEndpoints` keeps the first definition of a name (not modelled, section 3.4).
* **`onclose` forgets the socket of the middleware**, whichever socket was closed.
* **`useGetMessagesQuery(...).data` is the last data of the hook**, which may be that of the
  channel shown before.

### 1.3 What is hard, and what makes each component correct

*Queue and worker.* Several handlers, several replicas, crashes and failed batches in any order.
Correct means: a row is in one worker's hands at most; an added or deleted task is never lost; a
schedule is never replaced by one computed from older data; a queued change is processed in the
end. The first holds always; the second and third hold for one replica and not for two; the last
holds for additions and deletions and not for updates (section 5).

*Plans.* Every operation reads, checks in memory and saves whole rows. Correct means: one active
plan; the status table is respected; a terminal status is final; the history of a plan ends; the
cleanup never deletes a living plan. One request at a time keeps all of it, except for a read
error `RevertToPlan` discards. Two at a time keep what section 4 says.

*Consumer.* The handler, the deduplication row and the offset are three separate commits.
Correct means: the snapshots are what the events say, each applied once and in order; and no
event disappears without a trace. Redelivery, crashes between the commits, failing handlers and
the order of two partitions are what a test does not reach.

*Response cache.* Queries, mutations, optimistic patches and undos of several components overlap.
Correct means: when nothing is under way, what is shown is what was written last; and it gets
there. The first is proved of the cache for any endpoints; the tables of endpoints leave the gaps
of section 5.

*Session.* A refresh, a logout, a sign-in, the close event of one socket and the timer of another
are in no order. Correct means: who logged out stays out; one socket, of whoever is signed in; a
client that says it is connected is; a notification is listed and counted once.

*Chat window.* Three sources bring a message (page, event, load-more), a fourth makes it up
before it exists. Correct means: the list is of the channel shown, without holes, duplicates or
old versions; optimistic entries settle; loading older messages is possible again afterwards.

`PROJECT.json` lists every hazard at the line where it bites, with the properties that cover it.

## 2. Plan

The order is that of the damage a mistake would do.

1. `RescheduleQueue` and its proofs *(done)*.
2. `PlanStatus`, `PlanHistory`, `SchedulePlan`; `TaskMirror`, `TaskEventConsumer`; their proofs *(done)*.
3. The web client: `ApiEndpoints` and the tables of the modules, `RtkQueryCache` with its proofs,
   `WebCache` and its proofs; `NotificationStore`, `WebSession` with its proofs;
   `ChatView`, `DiscussChat` with its proofs *(done)*.
4. `ScheduleEvents`, the operations of `schedule_event_service.go` (move, complete, split, skip)
   beside `applyChanges` statement by statement, composed with the load and write of
   `RescheduleQueue`: completed or deleted tasks overwritten with SCHEDULED
   (`reschedule_strategy_service.go:303`), events of two schedules side by side after a partial
   failure, and the count in `CompleteEvent` that cannot see its own transaction.
5. `SchedulingAlgorithms`: greedy insertion, ripple and `DiffScheduleOutput` as operators, against
   a reference, and the materialisation of availability windows.
6. A second consumer that overlaps with the first after a rebalance (two snapshots of one task),
   and the pool of connections, of which every transaction takes a second one for its reads.
7. Candidates elsewhere: task dependencies of `src/ptm_task`, presence in `src/discuss_service`,
   subscriptions in `src/account`, retries in `src/mailservice`.

Abstract specifications worth stating: `TaskMirror` and `PlanHistory` (done); a register per plan that
the queue implements (a change is either reflected or pending). Twelve runs keep the whole check within minutes: a later module
takes its place by merging runs that ask the same question with other parameters.

## 3. Modules

### 3.1 `RescheduleQueue`

One row per *item*, a value of the unique index. `row[i]` has the status, `quiet` (debounce
elapsed) and `waited` (`MaxDebounceWait` elapsed); `changes[i]` counts the committed changes that
asked for the item to be rescheduled, `reflected[i]` how many of them the schedule last written
takes into account. These two counters are what the properties are about and are not in the code.

| TLA+ | code |
|---|---|
| `BeginChange`, `Enqueue`, `CommitChange`, `RollbackChange` | one transaction of a Kafka handler or an HTTP request: its writes, `Upsert`, the commit |
| `UpsertEffect` | `ON CONFLICT ... DO UPDATE ... WHERE status = 'PENDING'` |
| `DebounceElapses`, `MaxWaitElapses` | the two time conditions of `GetDirtyPlanIDs` and `FetchAndLockBatch` |
| `Poll` | `processPendingBatches`: any plans within the limit, as there is no `ORDER BY`; a plan in `processing` is skipped |
| `LockBatch` | `FetchAndLockBatch` and `MarkProcessing`; the status PROCESSING is never committed |
| `Load`, `Write` | `loadScheduleData`; the scheduler and `applyChanges` |
| `Finish`, `Fail`, `AbortBatch` | COMPLETED; `handleFailure` (FAILED, committed); a rollback |
| `Crash` | the process of a replica dies |

The scheduler is a black box that decides which rows it writes (`touch`); which items it places
anew follows from `DetermineStrategy` and `AffectedScheduleTaskIDs` (`Rescheduled`): an insertion
places the tasks the batch names, and the payloads of a split and of a skip name none.

### 3.2 `PlanStatus`, `PlanHistory` and `SchedulePlan`

`PlanStatus` is the status table of `CanTransitionTo`. `SchedulePlan` has one user's rows and
*sessions*, each a request, a Kafka handler or a cleanup goroutine. A session's locals are
`mine` and `current` (rows as they were read), `staged` (rows written and not committed, locked) and
`todo` (plans the cleanup has listed). Each read, each write and each commit is a step. An
operation that read a row some time ago saves all of it, status included.

| TLA+ | code |
|---|---|
| `ApplyCheck`, `ReadCandidate`, `ReadActive`, `Archive`, `Activate`, `Commit` | `ApplyProposedPlan`, `ApplyPlan` |
| `ListDiscarded`, `ListArchived`, `DeletePlan`, `CleanupEnd` | the goroutine it leaves behind, `CleanupOldPlans` |
| `DiscardRead`, `DiscardWrite` | `DiscardPlan` |
| `RevertRead`, `RevertInsert`, `ReadActive`, `ReadActiveFails`, `Archive` | `RevertToPlan` |
| `OptimizeRead` ... `OptimizeEnd` | `executeOptimization`, five separate commits: "reschedule" is the quick one of `TriggerReschedule`, refused beside any proposal; "optimize" a deep one or the fallback chain, refused beside one of its own algorithm only. Strategy AUTO is a deep one with HYBRID |
| `ActiveForTask`, `InsertActive`, `ReadProposed`, `MarkStale` | `GetOrCreateActivePlan`, `MarkProposedPlanAsStale` |
| `DraftRead`, `DraftInsert` | `CreatePlan` |
| `Abort`, `DeadlockVictim` | a failing statement or a dying process; PostgreSQL breaking a cycle of two applies |

Left out: the tasks and events cloned with a plan, its times, `is_stale` (written and never
decided upon), the score of an optimization.

`PlanHistory` is what a user may expect of these operations: each takes one step on the plans as they
are, or none. An applied plan gets the plan it archives for its parent, a reverted one is a new plan
beside the archived one, a draft is made of the plan in use or of none, only the newest plan is optimized,
and proposed if no proposal of its algorithm waits. `SchedulePlan` with one session implements it
(`PlanFollowsHistory`): the refinement mapping drops `old` from the rows and maps `lost`, the readings of
the active plan that nobody noticed were lost, to `swallowed`. Such a reading is the one way to a second
active plan (`Lose`, `RevertBeside`). With two sessions the refinement does not hold: see section 5.

`SchedulePlan_proofs` holds for any number of sessions, `SchedulePlanSerial_proofs` extends it for
requests that come one after the other.

### 3.3 `TaskMirror` and `TaskEventConsumer`

`TaskMirror` is what the service promises: the snapshots are the fold of a partition's events, in
order, each once. `TaskEventConsumer` is the code: `Receive` (look up `processed_events`),
`Handle` or `HandleFails` (the handler's transaction), `RecordProcessed` and `ClearFailed`,
`RecordFailed`, `SendToDLQ`, `AutoCommit`, `CleanupOldEvents`, `Crash`. A claim works on one
message; `Return` is `MarkMessage`, which the code calls whether the handler failed or not.
`Publish` is `src/ptm_task`: the events of a task have its id as key, a bulk deletion that of its
user, so it may be on another partition and overtake them.

A snapshot is the offset of the event it shows. A malformed message goes to the dead letter
topic and is marked without touching anything else; it is not modelled. `CleanupOldEvents` forgets
only events behind the committed offset: it runs on events a day old, an auto-commit happens every
second. One process has all partitions: two consumers that overlap in a rebalance are planned. An
error of the lookup in `HandleTaskCreated` is thrown away and may add a second snapshot for a task;
here a task has one.

### 3.4 The response cache of the web client

`RtkQueryCache` is RTK Query 2.8 as `lib/store/api/apiSlice.ts` configures it, modelled by what the
client relies on (it is a library, and marked external). A *view* is a query with an argument, a
*call* a mutation with an argument; a behaviour is that of one *scene*, a set of views and calls.
`entry[q]` is the cache entry of a view (shown by a component or not, its fetch, its data, the tags
it provided), `phase[c]` where a call is, `undo[c]` the patches it would write back, `owed` the
tags that wait until no request is under way. `stored` is what the services and the mocks of the PTM
module hold, `latest` the last write anywhere.

| TLA+ | code |
|---|---|
| `StartCall`, `Patched` | the mutation is dispatched; `onQueryStarted` patches cached answers (`updateTask`, `updateNote`, `updateScheduleEvent`) |
| `Serve`, `WhatIsDone` | the service does it, or a part of a loop of requests (`reparentTasks`) |
| `CallSucceeds`, `CallFails`, `Undone`, `Invalidation` | the answer or the error; `patchResult.undo()`; `invalidatesTags`, which names its tags for an error too |
| `Mount`, `Unmount`, `Evict`, `Answer`, `Arrive`, `QueryFails` | the life of a query |
| `RequestEnded`, `Invalidated` | delayed invalidation: fetch again what is shown, forget what is not |

`ApiEndpoints` has the shapes endpoints take; `SalesApi`, `LogisticsApi`, `PurchaseApi`, `CrmApi`,
`PtmApi`, `DiscussApi` and `PlatformApi` (account, admin, settings, subscription, apps,
notifications) are the endpoints of the modules, each with the rows it shows or writes, the tags it
provides or invalidates, and the views it patches: 135 views and 177 calls. The data of a row is the
call that wrote it last. What a service writes beyond the row a call is named for
(`AlsoWriting`) is read in that service and marked external. It is what the service writes before it
answers: what a consumer of its events, the reschedule worker or the cleanup of old plans writes later
is no tag's to name. `WebCache` puts the tables into scenes: every
pair of a view and a call that touch a row (500 pairs), and five scenes with several calls.
`EndpointFacts` states, as assumptions that TLC evaluates, what the tables say: which pairs
are gaps, and that no other is listed; it is all that `WebCache_proofs` knows of them.

Left out: that a name two api files define keeps the definition injected first (every page here has
the endpoints of its own module); endpoints without tags (activity feed, password change, dependency validation,
`triggerOptimization`, typing, tokens of other services), paging and filters of lists, polling and
refetching on focus, which would only bring answers earlier.

### 3.5 `NotificationStore` and `WebSession`

One tab. A token is (session, turn); a request goes through `baseQueryWithReauth`: `Send`,
`Unauthorized` (which reads the refresh token when the 401 is there), `Refreshed` or `RefreshFails`,
`StoreTokens` (after an `await import`), `Answered`; `GiveUp` is `clearAuth`. `SignIn`, `SignedIn`,
`Logout` and `LoggedOut` are `useAuth`, `Reload` is the page loaded again with what localStorage has.
`websocketMiddleware` runs after each action, so `Connect` and `Disconnect` are parts of the actions
that store or clear tokens; `Opened`, `Lost`, `OnClose`, `TimerFires`, `InitialData` and
`NewNotification` are the events of a socket. `Notify` is the delivery service of
`src/notification_service`, which pushes to all the sockets of a user; the number it sends with
INITIAL_DATA is always zero (`websocket_controller.go:152` says so). `forgotten` and `strayed` are
history: sockets that live on without the middleware. `NotificationStore` is the slice.

Left out: the profile, categories and urgency of notifications, pings, a second tab that shares
localStorage.

### 3.6 `ChatView` and `DiscussChat`

`ChatView` has the operators on the list and on a cached page: merge, the callback of MESSAGE_NEW
(which takes the oldest optimistic entry of the same text before it looks for the id), load-more,
rewriting a page. `DiscussChat` is the window: every handler is an action together with the
effects React runs before the next one (`Rendered`: the unified effect of `ChatWindow`, then the one
of `MessageList`). The service keeps messages and pushes one event per change, in order within a
channel (its Kafka key), to every member, the sender included. `loads` are the loops of
`handleLoadMore` with their retries, `lazy` the state of the lazy query, `guard` `isLoadingRef`.
`missed`, `dropped`, `mixed`, `freed` and `cut` record what the code cannot recover from (section 5),
for the properties to say what holds otherwise.

| TLA+ | code |
|---|---|
| `Receive` with `CacheTold` and `ListTold` | `handleEvent`: `updateQueryData`, then the callback of a MESSAGE_NEW of the active channel |
| `Send`, `SendByRest`, `ChangeByRest`; `MutationApplied`, `MutationEnds` | `handleSendMessage`, `handleDeleteMessage`; the service does it; the answer or error and its `invalidatesTags` |
| `Open`, `PageRead`, `PageArrives`, `PageFails`, `Invalidate`, `Expire` | the page of a channel: subscribed to, read by the service, answered, failed, fetched again or forgotten |
| `ScrollToTop`, `LoadArrives`, `LoadFails`, `LoadRetries` | `handleLoadMore` of `MessageList` and of `ChatWindow`, around its `await`s |
| `PressRetry` | Retry of the toast that a loop leaves when its attempts are used up: `handleLoadMore` of the render the loop was started in, with its channel and oldest message, past `MessageList` |
| `Connect`, `Break`, `Noticed`, `RenewToken`, `OldCloses` | the STOMP client, its heartbeats, a new token |
| `TypingUpdate`, `TypingTimeout` | `setOnTypingUpdate` and its timeout |
| `Post`, `Change`, `ServerReceives` | the other members, and the service with what this client published |

Left out: reactions, drafts, replies and the state of the input, unread marks, presence, scroll
positions. The version an event carries is that of the moment it was posted.

## 4. Runs

| run | question | instance |
|---|---|---|
| `queue_live` | is an added or deleted task lost, overwritten by an older schedule, or never processed? (`TypeOK`, `BatchExclusive`, `OneShotCovered`, `ScheduleNeverOlder`, `OneShotScheduled`) | 1 replica, 2 handlers, 2 plans, room for 1 in a poll, 3 items, 1 fault |
| `queue_lost_trigger` | finding 1 (`ChangeCovered` violated) | one task updated twice |
| `queue_deadlock` | finding 2 (`PendingProcessed` violated) | one task updated twice |
| `plan_serial` | do the operations keep the plans in order one after the other? (`TypeOK`, `AtMostOneActive`, `OneProposalPerAlgorithm`, `LineageAcyclic`, refinement `PlanFollowsHistory`) | 1 session, all operations, 2 algorithms, 4 plans, 1 fault |
| `plan_concurrent` | what is left when two interleave? (`OrphanIsFault`, `ActiveNeverVanishes`, `DeleteOnlyDead`) | 2 sessions, all operations (a created task stands for the other two that look for the active plan: its steps are a superset of theirs), 4 plans, 1 fault |
| `plan_terminal` | finding 3 (`TerminalIsFinal` violated) | 2 sessions, 3 plans |
| `kafka_mirror` | do crashes and redeliveries show? (`TypeOK`, `OnlyRepeatsFail`, refinement `MirrorFollowsLog`) | 2 tasks, 1 partition of keys, 4 events, 2 crashes |
| `kafka_faults` | is an event ever forgotten? (`NothingForgotten`) | 1 task, 2 partitions, bulk deletions, 2 crashes, 2 errors |
| `kafka_retry` | finding 4 (`FailedIsRetried` violated) | 1 event, 1 error |
| `web_cache` | does the cache end up fresh, and where do the tags leave gaps? (`TypeOK`, `FreshWhenIdle`, `RefusedOnlyByOverlap`, `StaleOnlyAtKnownGaps`, `ViewsSettle`) | 500 pairs of a view and a call, 5 scenes of up to 2 views and 3 calls |
| `web_session` | who is signed in, whose socket is open, what does the bell show? (`TypeOK`, `BackOnlyByRefresh`, `OneSocket`, `SocketsOfSession`, `BadgeOfUnmarkedPushes`, `ListedOnce`, `ConnectedIsOpen`, `Reconnects`) | 1 request, 3 sockets, 1 notification, 2 sign-ins, 1 expired token, 1 fault |
| `web_chat` | what does the window show when pages, events, load-more and reconnections meet? (`TypeOK`, `OfChannel`, `NoHole`, `UpToDate`, `ListedOnce`, `OneLoop`, `GuardReleased`, `TypingEnds`, `Settles`) | 3 channels, one of them empty, 4 messages, pages of 1, seven budgets of posts, sends, scrolls, opens, faults |

**Bounds.** In `queue_live` a task is added and deleted in one plan and a task added in another,
so that batches of two rows, opposite triggers and plans that wait for each other occur; two
replicas are left to the proof of `BatchExclusive`, which holds for any number. The two runs of
findings change one task twice: a change, and another while the first is in work or done. Four plans are an active one, an archived ancestor, a proposal and
the one a revert inserts. `MaxArchivedPlans` is 10 in the code and 1 here, so that the limit
is exceeded; the page of 50 rows the cleanup reads is not reached. `MaxEvents` 4 is two events
of two tasks; `MaxRetryAttempts` is the code's 3, and with two crashes the same event is handled
three times and reaches the dead letter topic. The consumer's runs do not check for deadlock: a
consumer rightly waits when the topic is exhausted, and so does the bounded publisher. In
`web_cache` a user opens views that have to be fetched `MaxOpens` times, enough to come back to one
that was forgotten; an entity has an old and a new row. In `web_session` two sessions are what a late
refresh needs to hit somebody else's, and three sockets are an old one that closes, the one it
makes the middleware forget, and the one opened beside it. In `web_chat` each budget is one kind of
session (reading, sending, editing, failing, scrolling, wandering between channels, chatting):
together they would be too many states, and a hazard needs two or three of the events. Pages of one
message make three pages of a channel of three; the empty channel is the one whose display clears
`isLoadingRef`; three faults use up the attempts of a load-more, so that its Retry is offered. The three runs do not check for deadlock: a client with nothing left to do
rightly rests.

**Fairness.** In the queue: weak fairness for the steps of a connection and of a worker that can go on,
the clock and the ticker; strong fairness for the two steps that wait for a row lock, since PostgreSQL
queues the waiters and a lock that is free again and again is obtained. No change has to be
made and no failure has to happen. In the consumer: a claim goes on with its message. In the web
client: a request ends, with an answer or an error (the browser sees to it), sockets deliver their
events, timers fire, a connection with a refused token is closed; in the chat the STOMP client
reconnects, notices a dead socket by its heartbeats and handles what was pushed, and the service
works off what it received. The user, the peers and the faults owe nothing.

## 5. What the checks show

What fails, with the code's own words:

1. **A repeated update is dropped** (`queue_lost_trigger`). The README says of `ptm.task.updated`
   "queue reschedule". The row of (plan, CONSTRAINT_CHANGE, task) is never deleted, and the
   upsert leaves a COMPLETED row as it is: every update after the first processed one is queued
   without effect.
2. **A handler and the worker wait for each other** (`queue_deadlock`). The handler has the task row
   and waits for the queue row; the worker has the queue row and its `applyChanges`, on
   another connection, waits for the task row. The cycle goes through the memory of the
   process, where PostgreSQL does not see it, and there is no timeout.
3. **A terminal status is left** (`plan_terminal`). A save of a row read earlier brings a
   discarded or archived plan back.
4. **A failed event is not retried** (`kafka_retry`). The middleware returns the error so that
   the message comes again; `ConsumeClaim` marks it all the same.

What holds within limits, and fails beyond them (TLC finds a counterexample when the limit is
lifted): `OneShotCovered` and `ScheduleNeverOlder` hold for one replica only, as `processing` is
memory; `LineageAcyclic`, `OneProposalPerAlgorithm`, `AtMostOneActive` and `PlanFollowsHistory` hold for one session
only;
`AtMostOneActive` allows one more active plan for each read error `RevertToPlan` throws away;
`MirrorFollowsLog` and `OnlyRepeatsFail` hold with crashes and without failing statements or bulk deletions.

The web client states no promise in the cases below, so they are conditions of the properties and
not findings.

*Response cache.* Where the tags of a call meet a tag of the view, the cache is always right in the
end. They do not meet in 206 of the 500 pairs, which `KnownGaps` of `WebCache` lists and
`StaleOnlyAtKnownGaps` shows to be all (that each is one is `KnownGapsAreGaps`). The kinds: the service writes another entity too (orders and
inventory, a converted lead, a task and its project or parent, the subtasks that `deleteTask` deletes
with it); a view shows another entity's rows under its own tag (the tasks that block a task); a call
changes which plan is the active one, whose tasks `getScheduleTasks` shows; list tags that details do not have (bulk
deletions); figures that nothing invalidates (CRM analytics, department statistics); PTM mocks
beside service data; rows of the account service that two modules show under tags of their own.

*Session.* A refresh that answers after a logout signs the user in again (`BackOnlyByRefresh` says it
is the only way). A late `onclose` makes the middleware forget a live socket: a second one is
opened, and each push is listed twice (`OneSocket`, `ListedOnce`). INITIAL_DATA sets the badge to
zero, below the pushes that nobody has marked; it never counts more than those
(`BadgeOfUnmarkedPushes`). With what the user sees in the menu it has nothing to do: the menu shows the
answer of the API in the place of the slice's list (`NotificationButton.tsx:63`), and "mark all" calls
the API only (line 78), so the number may stay above a menu whose entries are all read. A logout
leaves the notifications in the store.

*Chat window.* Opening a channel whose page is not cached shows the page of the channel before and
merges it with the new one (`mixed`), which the comments at `ChatWindow.tsx:160` and `219` mean to
exclude; a load-more that answers late goes into whatever channel is shown. The lazy query's
`isLoading` changes once, so `isLoadingRef` stays set after the second load-more and no third page
comes (`GuardReleased`). A list that has become empty clears `isLoadingRef`
(`MessageList.tsx:307`) whatever is under way: who scrolls up, opens a channel without messages and
comes back can start a second load-more beside the first (`freed`; the proof of `OneLoop` failed
there before TLC had a channel without messages). The Retry of the error toast
(`ChatWindow.tsx:498`) does not ask `isLoadingRef` at all: what it loads is what the loop that failed
wanted, in whatever channel is shown by then, and a scroll to the top starts a second loop beside it.
`OneLoop` is therefore about the loops that scrolling started. Events while disconnected are lost and nothing is fetched again
(`missed`); a message published while `isConnected` is out of date is dropped and stays on the screen
(`dropped`). An edit reaches a message only through the cached page, not one that was scrolled to.
A reconnection clears the timers of typing indicators and leaves the names (`cut`). One's own
message may be listed twice.

## 6. What is proved

`RescheduleQueue_proofs`, for any replicas, plans, items, handlers and bounds, from
`ItemAssumption` and `BoundAssumption`:

* `QueueTypeCorrect`: `Spec => []TypeOK`.
* `QueueBatchExclusive`: `Spec => []BatchExclusive`, for any number of replicas.
* `QueueOneShotCovered`, `QueueScheduleNeverOlder`: under `SingleReplica`, `Spec => []OneShotCovered`
  and `Spec => ScheduleNeverOlder`.

The inductive invariant comes in two parts. `QueueInv` is `TypeOK`, `BatchExclusive` and
`SessionInv`, which is what the row locks give: two open transactions are about different rows
(`SessionsApart`), the effect an upsert has decided on still fits the row (`RowsMatch`), a one-shot change
is made once (`ChangedOnce`), a batch is of the worker's plan (`BatchOfPlan`), and what a worker has read was
committed (`ReadCommitted`). `BatchExclusive` alone is not inductive: that an upsert does not
change a locked row needs `RowsMatch`. `SingleInv` adds, for one replica, that the worker's reading is no
older than the schedule (`FreshRead`) and that after `Write` the one-shot items of the batch are
reflected (`BatchReflected`), from which `OneShotCovered` survives `Finish`.

`WebSession_proofs`, for any requests, sockets, notifications and bounds, from `BoundsAreNumbers`
and `NoneIsNothing`:

* `SessionTypeCorrect`: `Spec => []TypeOK`, in the parts `TheRest`, `RequestsOK`, `SocketsOK`, `StoreOK`.
* `SessionBackOnlyByRefresh`, from `SessionsOK`: every session the client holds a token of, or is
  refreshing, was issued, and is not over unless it was straddled. A token that is about to be stored
  must be in the invariant: it is where the session comes back from.
* `SessionOneSocket`: `OneSocket` is inductive with the types.
* `SessionSocketsOfSession`, from `ListensToOne`: without a straddled sign-out, whatever is about to be
  stored is of the session signed in, nobody signs in while somebody is, and the socket of the
  middleware is of that session.
* `SessionConnectedIsOpen`, from `SaysConnected`: a socket is open or its `onclose` is to come.
* `SessionListedOnce`, from `ListsOnce` and `OneSocket`: what is on its way to the list was pushed, is on
  one socket and not listed yet.
* `SessionBadgeOfUnmarkedPushes`, from `BadgeFits`: the badge is at most the number of pushes handled and
  not marked, the unread entries of the slice, which a sum over the list would count and a set of pairs (a notification, one of its unread entries) does
  without a recursion. `markAsRead` takes one entry off the list and one off the badge, unless the badge
  is at zero already (`BadgeRead`).

`RtkQueryCache_proofs`, for any endpoints and scenes, from `ContentsDiffer`, `KnownSources` and
`PatchedByTag`:

* `CacheTypeCorrect`: `Spec => []TypeOK`.
* `CacheFreshWhenIdle`: `Spec => []FreshWhenIdle`. The invariant `CacheFine` says of each view, unless
  a call was applied whose tags miss it (`Unmissed`), that it shows what was written last, or is being
  fetched, or provides a tag that is pending or that a call under way will invalidate; that an answer on
  its way is up to date or will provide such a tag; and that tags wait only while a request is under way.
  `PatchedByTag` says that an answer which calls patch has a tag they invalidate whatever rows it has;
  without it an undo could restore a row that no tag reaches any more.
* `CacheRefusedOnlyByOverlap`: `Spec => []RefusedOnlyByOverlap`. A refused value comes back to the screen
  through the undo of another call, so `RefusedInv` says where each content comes from that a view, an
  answer or an undo holds (`Origins`: a service accepted it, or its call is under way, or another call
  patched over it and has not ended well), and that a view which shows what no service holds is to be
  fetched again (`Reloading`). What the last fetch brought is never refused, so only a failed fetch leaves
  one.

`WebCache_proofs`, for any scenes of the endpoints of the web client, from the facts of
`EndpointFacts`:

* `WebStaleOnlyAtKnownGaps`, from `CacheFreshWhenIdle`: TLC's run has one view and one call at a time, the
  theorem any number of each. What it takes from the tables is `ScenesOfEndpoints` (a scene is of these
  endpoints, a call as often as one likes) and `GapsAreKnown`.

`TaskEventConsumer_proofs`, for any partitions, tasks, kinds of event and bounds, from
`KeyAssumption`, `KindAssumption` and `BoundAssumption`:

* `ConsumerTypeCorrect`: `Spec => []TypeOK`. A claim that is not polling has a message behind its
  marks (`HasWork`), or a return could mark past the log.
* `ConsumerNothingForgotten`: whatever fails and crashes, every message behind the committed offset was
  applied or has its row in `failed_events`, but for one per failed statement. The property counts
  behind the offset, which an auto-commit moves; the invariant `KeptInv` counts behind the marks,
  and says what the stage of a claim knows of its message.
* `ConsumerOnlyRepeatsFail` and `ConsumerImplementsMirror`, under `OnlyCrashes` (no failing statement,
  no bulk deletion): a failed event had been applied, and every step of the consumer is a step of
  `TaskMirror` or a stutter. The second is the safety half of the refinement that `kafka_mirror` checks as
  `MirrorFollowsLog` (`MirrorInOrder`, the specification of `TaskMirror` without its fairness). `OrderInv`
  says that what was handled of a partition is a prefix of its log (`PrefixDone`), that the snapshot of a task
  is the last handled event about it (`MirrorShows`), and that an event which may come again is recorded as
  processed or deletes its task (`RepeatsSettled`), so that handling it again changes nothing. The
  assumption is needed: a failing statement is skipped for good (finding 4), and a bulk deletion
  overtakes the events of its tasks.

`SchedulePlan_proofs`, for any number of requests side by side, any algorithms, plans and bounds, from
`OpsAssumption`, `BoundAssumption` and `NoneAssumption`:

* `PlanTypeCorrect`: `Spec => []TypeOK`; the locals of a request fit the statement it is about to run.
* `PlanDeleteOnlyDead`: the cleanup deletes no plan in use. `SharedInv` says who may still save
  which plan: an expired plan, and one on the list of a cleanup, is remembered and staged by nobody.
* `PlanOrphanIsFault`: a plan is left in PROCESSING by a fault only, and each fault leaves one at
  most: a step adds at most one plan to the orphans, and the only step that adds one (an abort)
  counts a fault.
* `PlanActiveNeverVanishes`: from `CommitInv`, what a transaction has staged when it commits leaves an
  active plan or takes none away, unless it is a discard or a `MarkProposedPlanAsStale` that saves a row
  it read before its status changed: the property excepts those.

`SchedulePlanSerial_proofs`, under `SingleSession` (a user's requests come one after the other; with two,
TLC has counterexamples for each of these, see section 5): `PlanAtMostOneActive`,
`PlanOneProposalPerAlgorithm`, `PlanLineageAcyclic`, `PlanStatusFollowsTable` (a stored status changes only
as `CanTransitionTo` allows, which no run checks by itself), `PlanImplementsHistory`. No statement checks
again what an earlier one has read, so the invariant is that the memory of the one request is still true
(`SyncFits`), that what it has staged is an insertion, an application or a change the table allows
(`StagedKinds`), and that who adds an active plan takes the old one away or did not see it because a read
error was thrown away (`ActiveFits`). A parent was in use when it was named (`ParentInv`): a new edge goes
to a plan that does not descend from the one that gets it.

`PlanImplementsHistory` is the refinement of `PlanHistory` (`PlanFollowsHistory`). An operation reads and
writes in pieces and shows nothing before it commits, so the step of `PlanHistory` is taken by the
commit, and the invariant has to say what a transaction has written at each of its statements:
`OutcomeInv` names, per operation, the rows staged and why they are one step on the plans as they are
(`ApplyFits`, `RevertFits`, `DiscardFits`, `DraftFits`, `TaskFits`). One lemma per operation keeps it
(`ApplyOutcome` to `TaskOutcome`), `HistoryCommit` maps each commit to its step, and `HistoryWrites` the
four statements of the optimizer and the cleanup that are committed at once.

`DiscussChat_proofs`, for any channels, texts, page size, retries and budgets, from the five assumptions of
`DiscussChat` (pages have room for a message, a load is tried at least once, the user is not the peer):
`ChatTypeCorrect`, `ChatOfChannel`, `ChatNoHole`, `ChatUpToDate`, `ChatListedOnce`, `ChatOneLoop`,
`ChatGuardReleased`, `ChatTypingEnds`, all from `InvCorrect`.

* A set of entries is `Good` if it is of one channel, complete from its oldest message on, and as the
  service has it, except for messages missed and those an event on its way will bring. The invariant
  (`ContentInv`) is that every cached page, every answer under way and, unless `mixed`, the list are
  Good. The properties speak of the list at rest only: they are not inductive, since a hole in
  the page that the next render merges would be a hole in the list.
* Three lemmas carry it through all actions: a Good set stays Good when the service moves on
  (`EvolvesGood`), when the event at the head of the queue is handled, whether the set is told
  of it (`ToldGood`, `ReceivedGood`) or need not be (`UntoldGood`), and when a page is merged
  into the list or a load-more put before it (`MergedGood`, `PrependedGood`). An edit or deletion
  reaches the list through the page only, so after its event the list alone is not Good; it is
  with the items of the page (`Fresh` with `T`), and the effects that run next make it so
  (`RenderedContent`).
* `EventsInv` says that the last event of a message carries the version the service has, and that while
  a new message is on its way so is each after it; it is why a message pushed into a page
  cannot leave a hole below it.
* `LoadInv`: the first load-more is alone and holds the guard until it is answered; later a loop that
  scrolling started holds it at its first attempt, unless `freed`.

The invariants that carry these proofs were checked by TLC on the instances of the runs first. TLC
evaluates the assumptions on the constants in the runs. Model-checked only:

* the liveness properties (`OneShotScheduled`, `ViewsSettle`, `Reconnects`, `Settles`), and with them
  the fairness half of the refinement of `TaskMirror`: fairness is out of the prover's reach;
* what the tables of the endpoints say, a computation: the assumptions of `EndpointFacts`.

Every other property of a passing run is stated by a theorem.

## 7. What is not modelled, and why

The components of section 1 whose status is `not_modelled` in `PROJECT.json`, each with its
reason there: CRUD services without a protocol, numerical solvers, I/O, and those the plan of
section 2 still has ahead of it. In the modelled components, what the paragraphs "Left out" of
section 3 name.

Of the TypeScript of the repository, all of it in `src/serp_web`, the modules model the parts that
keep state across events: the store, the cache and every api file with tags, the session, the
sockets, the chat window. They are a small share of its lines. About nine tenths are pages, forms,
tables and dialogs in JSX, and the declarations of types: functions of the queries they show,
whose state is a field or an open tab and which run nothing concurrently but the requests that
are modelled. A model of them would say that a page shows what it is given.

## 8. Running it

    tlc -workers 2 -config queue_live.cfg MCQueuePlans
    tlc -workers 2 -config web_cache.cfg MCWebCache
    tlapm RescheduleQueue_proofs.tla
    tlapm WebSession_proofs.tla
    tlapm RtkQueryCache_proofs.tla
    tlapm WebCache_proofs.tla
    tlapm TaskEventConsumer_proofs.tla
    tlapm SchedulePlan_proofs.tla
    tlapm SchedulePlanSerial_proofs.tla
    tlapm DiscussChat_proofs.tla

Each configuration belongs to the module of its run in `PROJECT.json`.
