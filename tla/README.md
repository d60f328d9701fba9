# Handywedge: TLA+ models and proofs

Handywedge (`src/`) is a Java framework for web applications: a workflow engine,
declarative transactions, user accounts with API tokens, request filters, a
number of separate services (push notices, OpenID Connect, a binary store, PDF to
SVG), and a browser page that draws the masters of the workflow engine. This directory
holds TLA+ models of it, configurations that check them with TLC on small instances, and
proofs that TLAPS checks for every size.

| file | what it is |
|---|---|
| `Workflow.tla` | the workflow engine, statement by statement, with its properties |
| `WorkflowPromise.tla` | what the engine promises: a history, and a route to go back along |
| `MCWorkflow.tla`, `Workflow*.cfg` | its instances for TLC |
| `WorkflowProofs.tla` | theorems about `Workflow`, and that it refines `WorkflowPromise` |
| `Transaction.tla` | `@FWTransactional`: interceptor, layer, connections of a pool |
| `MCTransaction.tla`, `Transaction.cfg` | its instance for TLC |
| `TransactionProofs.tla` | theorems about `Transaction` |
| `Accounts.tla` | registration, activation, password reset, API tokens |
| `MCAccounts.tla`, `AccountsSerial.cfg` | its instance for TLC |
| `AccountsProofs.tla` | theorems about `Accounts` |
| `PushSessions.tla` | the push notice service: sessions, callbacks, pinger, notices |
| `MCPushSessions.tla`, `Push*.cfg` | its instances for TLC |
| `PushSessionsProofs.tla` | theorems about `PushSessions` |
| `RequestCycle.tla` | the request filters: sessions, cookies, the flags of pooled threads |
| `MCRequestCycle.tla`, `Requests.cfg` | its instance for TLC |
| `RequestCycleProofs.tla` | theorems about `RequestCycle` |
| `Editor.tla` | the workflow editor: tabs, statuses, links, saving, loading, export |
| `MCEditor.tla`, `Editor.cfg` | its instance for TLC |
| `EditorProofs.tla` | theorems about `Editor` |
| `BinaryStore.tla` | uploads to S3, Azure and Google: parts, limits, failures |
| `MCBinaryStore.tla`, `BinaryStore.cfg` | its instance for TLC |
| `BinaryStoreProofs.tla` | theorems about `BinaryStore` |
| `OICLogin.tla` | the OpenID Connect relying party: states of logins, key cache |
| `MCOICLogin.tla`, `OICLogin.cfg` | its instance for TLC |
| `OICLoginProofs.tla` | theorems about `OICLogin` |
| `PROJECT.json` | which definition models which lines; runs, mutants, hazards, findings |

Run a configuration with `tlc -config WorkflowSerial.cfg MCWorkflow.tla`, and the
proofs of a module with `tlapm WorkflowProofs.tla`. Operators
introduced by "A fault ..." are not part of any specification: each is a plausible bug,
named in `PROJECT.json` with the definition it stands for and the property that then
fails.

## 1. Inventory

Paths are relative to `src/`; `core` is
`handywedge-master/handywedge-core/src/main/java/com/handywedge`.

### Workflow engine (`core/workflow`)

*State.* Three tables: `fw_wf_id_management` (the status of a workflow), `fw_wf_log`
(its history, key `(wf_id, wf_ser_no)`), `fw_wf_progress_management` (the rows a
rollback may go back along, same key); and the masters `fw_wf_rote` (status before and
after each action), `fw_role_action` (who may do what), `fw_status_master`.
*Operations.* `doInitAction`, `checkAction`, `doAction` in four overloads, the rollback
(`generateRollbackAction`), queries. *Interaction.* Called by application code in
request threads, inside or outside of a transaction; all requests share the tables.
*Hard.* An action is five or more statements (look at the status, UPDATE it, SELECT
MAX(wf_ser_no), INSERT the history, change the progress); what it read may be stale when
used; any statement may fail after others have been committed. *Correct if* the history
is numbered without gaps; status, history and route agree; a rollback goes one status
back; what was offered is what is admitted; an action happens as a whole; what a caller
was told is in the tables.

### Declarative transactions (`core/interceptor`, `core/db`)

*State.* Per request: `FWTransactionManager.layer`, `FWConnectionManagerImpl.connection`,
and the `connection` variable of each running interceptor call. Shared: the pool with the
auto-commit and read-only mode its connections are left in. *Operations.* Enter and leave
an annotated method (return, exception, `dontRollbackOn`), commit, rollback, close.
*Hard.* Nesting with exceptions that are caught on the way; failing `getAutoCommit`,
`commit`, `setReadOnly`; connections that break; requests that wait for a connection.
*Correct if* each connection goes back to the pool, nothing uncommitted goes with it, the
writes of an outermost method are kept or undone as a whole, the pool never dries up.

### Users and API tokens (`core/user`, `handywedge-libraries/handywedge-rest-user`, `-rest-token`, `-openidconnect-login`)

*State.* `fw_user`, `fw_user_passwd`, `fw_user_management` (pre-registration and its
token), `fw_user_passwd_reset`, `fw_api_token`, with foreign keys to `fw_user`; the links
in mails. *Operations.* register, follow the activation link, ask for and follow a reset
link, change the password, publish and remove API tokens, delete, OpenID Connect login.
*Interaction.* REST resources call several transactional services one after the other and
send a mail after the commit. *Hard.* Two requests on one id; links that were replaced or
used; mails that fail; rows that other rows refer to. *Correct if* a pre-registered
account cannot be used, an activated one is not replaced, only the last link activates,
and what is reported has happened.

### Request filters and contexts (`core/web/filter`, `core/util/FWThreadLocal`, `core/context`)

*State.* The flag LOGIN in `FWThreadLocal` of pooled threads (TRUE: logged in, FALSE: to be
logged out), the HTTP session with its user, `initConfig` and `ignoreAuthPath`, read on
first use. *Operations.* `FWSessionFilter.doFilter` (TRACE, resources, REST, pages),
`FWRESTFilter.doFilter`, `terminate`; login and logout in between. *Interaction.* Around
every request; the container keeps the sessions. *Hard.* What throws in `terminate` leaves
its flag to the next request of the thread; requests of one session overlap; a cookie
cannot be sent once the response is committed; first requests that come together.
*Correct if* no request acts on the flag of another and a session lasts from login to
logout.

### Push notices (`handywedge-pushnotice-service`, `-core`)

*State.* `SessionManager`'s two unsynchronised maps between users and WebSocket sessions,
the time of the last pong of each session. *Operations.* add, get, remove by user and by
session (from WebSocket callbacks), the pinger thread and its timers, the REST resource.
*Hard.* All of them run at once; close callbacks come from inside a loop; a null list ends
the pinger. *Correct if* the maps are the open sessions, a notice reaches each session of
its user, and a client that has vanished is noticed.

### OpenID Connect relying party (`handywedge-openidconnect`)

*State.* `OICStateManager.STATE_HOLDER` (the states of the logins under way), and in
`OICService` the cached key, in two static fields. *Operations.* `login` makes a state and
cleans up old ones when there are more than `REFRESH_SIZE`; `auth` takes the answer of the
provider: state, key, validation, login at the Handywedge application, removal of the
state. *Interaction.* Request threads, the provider, the user's browser in between, which
may post an answer twice. *Hard.* A clean-up races removals and other clean-ups; the two
fields change one after the other; the provider changes its key. *Correct if* a login that
is not too old can be finished, old states go, and a token is validated with its own key.

### Binary store (`handywedge-binarystore`)

*State.* At the stores: the object of a key; S3's multipart uploads that are pending;
Azure's uncommitted blocks. *Operations.* upload, delete, get, list. *Interaction.* Requests
share the bucket. *Hard.* Boundaries of 5 MB parts, the limit on the size, abort on failure,
calls whose answer is lost, uploads of the same key at once. *Correct if* each upload that
was begun is completed or aborted, what is completed is the whole file, what is answered
as stored is stored, and every request is answered.

### Workflow editor (`handywedge-wf-editor`)

*State.* The tabs with their graphs and the index of the current one; in each graph
statuses and links with their codes, and what is embedded in a status while it is edited.
*Operations.* Tabs are added, chosen, renamed and closed; statuses and links added, edited,
moved, connected and deleted; the project is saved and loaded as JSON and exported as CSV.
*Interaction.* What it exports are the masters `fw_status_master` and `fw_wf_rote` that
the workflow engine works on. *Hard.* Long sequences of edits; handlers of several cells
that answer one event, in an order nobody wrote down; codes that must be unique over all
tabs, also while they are loaded. *Correct if* codes stay unique, no link is lost but by its
user, loading gives what was saved, and what is exported fits together.

### PDF to SVG (`handywedge-libraries/handywedge-pdftosvg`, `handywedge-pdftosvg-rest`)

*State.* Files with unique names in a temporary directory. Pages are converted in parallel
by an external program. See "Not modelled".

### Not modelled

PDF to SVG: what could go wrong there, a page whose conversion times out or fails and is
missing from a result that is reported as complete (`FWPDFToSVGJob.java`, 133), is a return
value that is not looked at, at one line; its jobs share no state that a model would have to
interleave. Roles (two queries and a pattern match), the REST executor (reflection and
JSON), the JDBC wrappers (delegation), mail, logging, messages, cipher and notices (I/O and
formatting), Office to PDF, reports and JSF (calls of third-party converters), test
application, skeleton and docker files (examples, used as evidence of how the library is
called).

Most lines of JavaScript in the repository are libraries kept beside the editor (jQuery,
lodash, Backbone, moment, in `handywedge-wf-editor/lib`): more than 56,000 of 58,000. They
are not this project's code, and are modelled only as far as the editor uses them (links
that go with a deleted cell). The editor's own code are `wf_model.js` and `wf_cont.js`.

## 2. What is modelled

### `Workflow`

`db` holds the three tables by workflow, `tx` what each open transaction has written.
Each request thread has a program counter `pc` that names the statement it executes next,
the request `req`, and the local variables that carry something from one statement to
another: `post` (the status the generated action leads to) and `ser` (the number read by
`SELECT MAX`). `known` are the workflow ids the application has been given.

| action | code |
|---|---|
| `StartInit`, `StartAction` | a call of `doInitAction`, `checkAction`/`doAction`, `doAction(FWWFAction)`, `doAction(String, String)` |
| `CheckGo`, `RollbackByStatus`, `CheckRollback` | `generateActionWithStatusCheck` and `generateRollbackAction` in `checkAction` |
| `GenerateGo`, `RollbackByStatus`, `GenerateRollback`, `GenerateNothing` | `generateAction` in `doAction` |
| `InsertWFIDManagement`, `UpdateWFIDManagement` | the status |
| `SelectMaxSerNo`, `InsertWFLog`, `DuplicateSerNo` | `insertWFLog` |
| `WriteProgress` | `insertWFProgressManagement`, `deleteLastWFProgressManagement`, `deleteAllWFProgressManagement` |
| `Commit`, `Fail` | the application's own transaction ends; any failure |

The engine is not annotated `@FWTransactional` as a whole; the application decides.
`Joined` says that it calls the engine inside a method annotated REQUIRED; if it does not,
each statement is committed by itself. `Serialized` says that the application lets one
request at a time work on a workflow; the engine does not. The database is PostgreSQL at
READ COMMITTED: a statement sees what is committed when it starts, and an UPDATE of a row
waits for the transaction that holds it (`RowFree`). The UPDATE is the first write of
`doAction`, so one transaction at a time is past it, for each workflow.

Decisions: an application that gets an `FWWFException`, or any other, lets it end its
request. A workflow id is known to others only after the request that created it has
succeeded. UUIDs do not collide. Names, comments and dates are left out.

### `WorkflowPromise`

What the documentation describes: a workflow is its history and a set of numbers, the
route. Four actions: begin, advance, decide (a last action), go back. `KeepsPromise` of
`Workflow` is its refinement: the tables are mapped to the status, the history as a
sequence and the route as the numbers of the progress rows. Requests that wait, reads and
uncommitted writes are stuttering steps.

### `Transaction`

A request's running methods are a stack of frames; `layer` and `field` are the counter and
the connection of the request-scoped beans, which need not agree with the stack: this is
what the runs examine. A connection may break at any moment (`Break`), in use or in the
pool; the failures of `setAutoCommit`, `getAutoCommit`, `commit`, `rollback` and
`getWarnings` are outcomes of their own where the code treats them differently. When the
commit throws, the model leaves open whether the database has committed.

Not modelled: `close()` of a connection that itself throws, the list of statements and
result sets that it closes first, and a second data source.

### `Accounts`

`account` holds the rows of an id in three tables, `reset` and `tokens` those of the two
others. Each service method is a transaction. A SELECT is a step; the writes of a
transaction take effect in the step that commits it, with the keys and foreign keys of
`ddl.sql` checked there: two transactions that write the same row run one after the other,
so nothing can come between the writes of one. The exception, a DELETE whose rows are
picked before another transaction inserts more, is a step of its own (`DeleteTokens`,
`DeleteReset`). Mails are sent after the commit (`SendMail`, `MailFails`). Passwords and
tokens are numbers of a counter, since only equality matters; `known` is what users have
been told. Whether a link has expired is left open at each look.

Assumed: user management is enabled. Not modelled: names, roles and locales (`update`),
the HTTP session that a login opens, the expiry of API tokens.

### `PushSessions`

`conn` is each connection, `byUser` and `list` the map `SessionManager.sessions` and the
`ArrayList`s in it (with their `modCount`), `index` the other map, `pong` what
`PingSender` compares. Threads have a place `at` and an iterator `it`: one that runs
`onOpen` and one that runs `onClose` for each session (`opener`, `closer`), the pinger, and
one request to `PushResource`. Nothing in the code is synchronized, so each access to a
map or a list is a step.

| action | code |
|---|---|
| `OnOpen`, `Evict*`, `Add*` | `WebSocketServer.onOpen`: `remove(userId)` without `MULTI_SESSION`, then `add` |
| `OnClose`, `Remove*` | `WebSocketServer.onClose`: `remove(session)` |
| `PongMessage` | `WebSocketServer.pongMessage` |
| `GetLoginUsers`, `GetLoginUsersFails`, `PingUser`, `PingNext` | `PingSender.call` |
| `PongTimeout` | the thread of `setTimeout` |
| `Notice`, `NoticeNext` | `PushResource.notice` |
| `ClientCloses`, `ClientVanishes` | the other side |

`multi` (the property `MULTI_SESSION`) is chosen in `Init`: each run covers both.
`Serialized` says that callbacks do not overlap, apart from `onClose`, which runs within
the `close()` that causes it: the way a reader of the code would imagine it, and what one
client at a time would see.

External, that is taken from how the code uses the container: it calls `onClose` once for
each session that is closed, closes a session whose `onOpen` throws, and reads nothing of
a client before `onOpen` is over; a ping to a client that has vanished goes unnoticed into
a buffer. The interval of the pinger is taken to be longer than the ten seconds of its
timers, and a pong between the ping and the end of the timer to be in time. Not modelled:
the access key and the text of a notice, what unsynchronized changes may do to the inside
of a `HashMap`, and GET `/loginusers`, which only reads.

### `RequestCycle`

`session` is each HTTP session (valid or not, and its user), `cookie` the session each
browser's cookie names, `req` the request a thread works on, `flag` the LOGIN flag in the
thread. Of a session id only matters which session it names: `changeSessionId()` and the
end of a session turn what has held the id, in cookies and in requests under way, into
`Stale`. `overlap` and `buffered`, chosen in `Init`, say whether a browser sends requests
while it waits for another response, and whether responses fit into the container's buffer.

| action | code |
|---|---|
| `Receive`, `IfInitConfig`, `SetInitConfig`, `ReadConfig` | the beginning of `FWSessionFilter.doFilter` |
| `CheckUser` | the main way: `isExternalAuth`, the user, `isAccessAllow` |
| `RestFilter`, `RestEnd` | `FWRESTFilter.doFilter`, its `finally` |
| `Login*`, `Logout`, `BusinessEnds` | what the application or a REST resource does: `FWLoginManagerImpl` |
| `Respond` | TRACE, which returns before `terminate` |
| `Terminate`, `Invalidate`, `Destroy` | `terminate`, call by call |
| `Commit`, `Expire` | the container |

External: a session is created when it is asked for and the cookie names none, and cannot
be once the response is committed; `changeSessionId()` and `invalidate()` throw without a
valid session; a cookie that is set after the response was committed is not sent. A
request keeps the session it has found. Left open: which roles may see which page, which
tokens are accepted. Not modelled: `INTERCEPTOR_ERROR` and the logging context, which only
affect the log; the address and error page a refused request is sent to.

### `OICLogin`

A state is named by the login it belongs to. `holder` is `STATE_HOLDER`, `old` the logins
that are older than `HOLD_TERM`; `todo` and `expired` are the ids a running `refresh` has
still to come to and the threshold it computed when it began. `signer` is the provider's
key, `token` the key each login's id_token was signed with.

| action | code |
|---|---|
| `CreateState`, `CheckSize` | `OICStateManager.createState` |
| `RefreshNext`, `RefreshGone`, `RefreshEnd` | `refresh`, one id at a time |
| `Post` | `OICService.auth`: `getState` |
| `CheckCache`, `ReadCached`, `Fetch`, `FetchFails`, `SetKid`, `SetKey` | `getPublicKey`, access by access |
| `Validate`, `LoginFails`, `Respond` | the rest of `auth` |
| `Age`, `SignIn`, `Rotate` | time, the user, the provider |

A failing call of the provider and a key that it has withdrawn are both `FetchFails`. An
answer that reports an error changes nothing; its state stays until it is old. A state may
be posted again until an answer has been honoured. `overlapped` records whether two
requests were in `getPublicKey` at once; it decides nothing.

### `BinaryStore`

One key of one bucket; `vendor` and the `size` of each file are chosen in `Init`. Sizes are
in fractions of a part, and what an object holds is the sequence of the pieces it is made
of, each with its request. `pending` are S3's multipart uploads, one of which (`Old`) may be
somebody else's, `blocks` Azure's uncommitted blocks.

| action | code |
|---|---|
| `Begin` | the client of the store; `initiateMultipartUpload` |
| `ReadFirst`, `ReadFails` | the first 5 MB, a failing stream or temporary file |
| `PutSmall` | `putObject`, the blob's output stream, `gStorage.create` |
| `SendPart`, `SendFails` | `uploadPart`, `uploadBlock`, the temporary file for Google |
| `Complete`, `CommitBlockList`, `WriteChannel` | what makes the object |
| `GiveUp`, `AbortRound`, `Refuse` | S3, when the file is too large |
| `Info` | the description of the key that is answered |
| `Delete` | a delete request |

A remote call may fail before or after it has been carried out. External: S3 completes no
upload without parts; Azure's commit takes the uncommitted block of an id, else the
committed one, and drops all other uncommitted ones; Google makes the object when the
channel is closed, which the code never does. Not modelled: get and list, which only read,
making a bucket, temporary files, an interrupt of the abort loop.

### `Editor`

`tabs` are the tabs in order, `name` their names, `currenttab` the one that is shown (0:
the home page). A status has a tab, a code and a `box`: its edit mode, in which an edit box
and a new link are embedded in it (`dead` is an edit box that was loaded with a project and
answers to no one). A link has a tab, a code, two ends, the status it is embedded in
(`parent`) and the one whose handlers wait for its target (`opener`). The code 0 is the
empty text.

| action | code |
|---|---|
| `NewTab`, `ChangeTab`, `CloseTab`, `RenameTab` | `Tab_Add`, `Tab_Change`, `Tab_Close`, `Tab_Home`, the dialog |
| `AddStatus`, `AddTo` | the toolbox; `initstatus`, `initcode` |
| `OpenEditBox`, `UpdateStatus`, `Cancel`, `DismissDead`, `BlankClick` | edit mode of a status |
| `DeleteStatus`, `RemoveLink` | the x of a status, the tool of a link |
| `MoveSource`, `MoveTarget`, `EditLink` | dragging an end, the edit box of a link |
| `SaveAndLoad` | `JSON` save and `load_json` |

`Change` is what every change of a link sets off: the handlers of its opener and of the
status it was connected from. Saving and loading are one action: an edit in between is only
lost. Deletion of a cell's links and embedded cells is that of JointJS. Left out: positions,
names of actions, an end dropped on an edit box, plain links, a link's edit box while open,
and the list on the home page, which is computed anew each time. Tab names are without
quotes; one that is a decimal numeral is among `Numerals`, as that number, because the
object into which a project is parsed lists such members first and by their value
(`Precedes`).

## 3. What the runs check

| run | instance | question |
|---|---|---|
| `WorkflowSerial` | 2 requests, 2 workflows, 5 actions of two departments whose routes join, 3 log rows, failures; joined, serialized | used as documented, does the engine implement `WorkflowPromise`? |
| `WorkflowConcurrent` | 2 requests on 1 workflow, 3 actions, failures; joined | when requests overlap, is each action whole and does each request end? |
| `WorkflowPerCall` | the same without a transaction of the application | what remains of history and route when each statement is committed by itself? |
| `Transaction` | 2 requests, 1 connection that may break, nesting 2, 2 writes | the interceptor under every order of returns, exceptions and failures |
| `AccountsSerial` | 1 id, 5 passwords or tokens, failures | every sequence of requests on an account |
| `PushSerial` | 3 sessions of 2 users; serialized | every sequence of connects, closes, pings, notices and vanishing clients |
| `Requests` | 2 threads, 1 browser, 2 sessions; overlapping or not, buffered or not | whose flag ends or renames whose session? |
| `Editor` | 2 tabs named by a word or a numeral, 2 statuses, 2 links, at most 3 cells, codes up to 2 | do codes stay unique, links connected, loaded projects as saved, exports usable? |
| `BinaryStore` | 2 uploads of 0 to 7 half parts, limit of 4 parts, 3 rounds of the abort loop | what does the key hold, what stays pending, is every request answered? |
| `OICLogin` | 3 logins, 2 requests with answers, `REFRESH_SIZE` 1, 2 keys | who removes whose state, which key validates which token? |
| `PushConcurrent` | 2 sessions of 1 user; callbacks overlap | what remains when every access of the maps may come between two others? |

*Bounds.* A rollback needs two entries on the route and is itself one of the history:
three rows (`MaxLog`; the bound is on starting, so concurrent requests exceed it by one)
let it happen, also twice, and let another action race it. Two requests are what each race
in the code takes; two workflows show that they do not disturb each other. The masters
have joining routes, because `wf_ser_no` and the status decide there which way a rollback
goes. For `Transaction`, one connection and two requests make them compete; nesting of two
has an outermost, an inner method and one after a caught exception; two writes tell "some"
from "all". Five numbers in `Accounts` are enough to register, register again, activate,
publish and reset, or to delete and begin again. Three sessions are two of one user, one to
be replaced or to be skipped in a loop, and one of another, who must not notice; a session
is used once. Access by access, two sessions of one user have some 1.7 million states
and contend for each list; a third would exceed what TLC can visit here. In `Requests` two
threads serve one browser: a flag that stays in one is found there by a later request for
another session, and two requests may race for one session; two sessions at a time are the
one a request has had and one that replaces it. In `OICLogin` a third login makes the holder exceed its
size while the states of the first two are being used or cleaned up; two logins of different
keys and two requests fill the cache in each order. A part of two units in `BinaryStore`
has files that are shorter than a part, exactly one, end in a part and at its end; four parts
are the least limit at which a file of several whole parts is still accepted, and sizes go
one unit past what is refused; three rounds let the abort loop see its own upload, another
request's and one that never goes. Three cells in the editor are two statuses and their link,
or a status and two links, and may be spread over two tabs; of two names one is a numeral, so
that tabs are loaded as they were, in the other order, or as one. The theorems below do without
bounds.

*Fairness.* `WF_vars(Step(p))`: a request thread that can execute its next statement does.
`SF_vars(UpdateWFIDManagement(p))`: PostgreSQL grants a row lock to the waiting
transactions in the order they came, so that one that is passed over again and again is
granted it. Starting a request and failing are not fair. `Transaction` needs only that the
application's methods end (`SF` for each depth of the stack; strong, because calls and
breaks may come between); that a request gets a connection is then a consequence.
`BinaryStore` has
`WF_vars(Step(u))`: a request's thread goes on and each remote call returns or throws.
`Accounts`, `RequestCycle`, `OICLogin` and `Editor` check no liveness. In `PushSessions` threads go on (`WF` for each); the timers
and the start of a round of pings have `SF`, because where callbacks are serialized, other
callbacks may begin again and again in between, as they would not in a real container.

*Deadlock* is not checked in the workflow runs (with all workflows at `MaxLog` no request
starts, and the model stops), in `BinaryStore` and in `OICLogin` (each request happens
once). All others check it.

The properties:

- `RouteConnected`, `KeepsPromise`, `CheckAdmitsOffered` (joined and serialized): the status
  is the end of the route (`StatusOnRoute`), the route is one of the masters, the engine
  does what `WorkflowPromise` says, and `checkAction` admits exactly what `getActions` has
  offered.
- `ActionAtomic`, `RequestsEnd` (joined): the three tables change together, and everyone gets
  the row in the end.
- `LogNumbered`, `ProgressLogged`, `AnswersLogged` (always): the primary key makes one of two
  requests with the same number fail, no row of the route is without its row of history, and
  what callers were told is in the tables.
- `ConnectionsAccounted`, `NothingLeftOver`, `AllOrNothing`, `PoolRefills`: nothing is
  lost but a broken connection; no request works on one that belongs to another; the
  writes of a REQUIRED method are kept or undone as one.
- `Registered`, `NoticeReaches`, `GoneAreClosed` (serialized): the maps hold exactly the open
  sessions, one for each user without `MULTI_SESSION`; a notice that is reported as sent has
  gone to each of them; a client that has vanished is found and closed, because the pinger
  goes on.
- `OpenIsIndexed` (overlapping): whatever fails, a session that stays open is on the
  index, so that it can be removed when it closes.
- `SessionEnds`: a session ends only by its own requests, unless requests overlap, and a REST
  call always takes its own away. `UserKept`: unless they overlap, a page has a user to its
  end, and, where the response fits the buffer, the browser knows the session its user is
  logged in to.
- `PreRegisteredLocked`, `AccountLife`, `ReportIsTrue`, where requests on an id do not overlap:
  a pre-registered account cannot be used; an activated one is not replaced, only the last
  link activates, and registering anew is not blocked; what is reported has happened.
- `FreshSurvives`, `RefreshClears`: a clean-up removes no state that was not old when it
  began, and one that ends has left none that was. `CacheMatches`: unless two requests are
  in `getPublicKey` at once, the cached key is the one of the cached kid.
- `ObjectIsWhole`, `AcceptedIsStored`, `LeftPending`, `UploadsEnd`: see their comments, which
  also name what they leave out, at Azure most of all.
- `CodesStayUnique`, `LinkKept`, `LoadedAsSaved`, `ExportIsMasters`: the last is what
  `MastersAssumption` of `Workflow` asks of the masters.

### Where the code does not do what it says

One run checks a statement of the documentation and ends with a counterexample.

| run | statement | what happens |
|---|---|---|
| `WorkflowRollbackRace` | a rollback goes one status back | its target is computed before the row is locked; another action gets in between |

Behaviour that the models have, or that was met while modelling, but that no run is about.
The first three are in the models behind the conditions of the properties named; dropping
the condition shows them.

*Accounts.* `register` replaces only pre-registrations (`FWUserService.java:77`), but what it
read of the account is stale when it deletes: two registrations, or a registration and an
activation, of one id at once replace an activated account (`AccountLife`). *Push notices.* A
user reconnects while `onClose` of the earlier session runs: `onClose` finds the list empty,
the new session is added to it, the list is taken off the map; the open session is neither
listed nor notified, although `getLoginUsers` promises the connected users (`Registered`). An
iterator that throws in `remove(userId)` leaves a closed session in the list, on which each
later connection of this user fails. *Request filters.* `terminate` changes the session's id after
the page has been written; once the response is committed the browser is not told, and has
lost its login (`UserKept`).

*OpenID Connect.* `refresh` throws where a state it has just listed is gone, and the login
that started it fails. Two requests that fetch different keys at once may leave the kid of
one with the key of the other in the cache; every valid token of that kid is then refused
until another kid comes. The first two logins together may read the kid and a key that is
still null: an empty page. An answer posted twice at once succeeds twice.

*Binary store.* A small file leaves an S3 multipart upload that nobody ends. The first part
counts twice towards the limit, so that what is refused begins one part below the 5 GB of
`Message_ja.properties:24`. A file of exactly one part fails at S3 and is stored empty, with
success, at Azure; there, as at Google, a file past the limit is cut off with success. Two
uploads of several blocks to one key mix at Azure, because the ids of blocks are numbers
only. Large files never become objects at Google, as the channel is not closed. The abort
loop waits for all uploads of the bucket; a second abort of its own may throw.

*Editor.* A code that was cleared is numbered anew when the project is loaded, tab by tab, and
may then be that of a later tab, although codes must not repeat in the project
(`usage/index.html:103`). A link that was embedded when the project was saved and is
connected after loading vanishes at the next click beside all cells. Of tabs with the same
name only the last is loaded, and tabs with numerals for names come first. Renaming from the home page renames the last tab. A link to
the toolbox is exported as "undefined"; the export throws while an edit box is open or a
link leads nowhere. After the alert about a repeated code a status cannot be edited until
a click beside all cells. An empty project, or a quote in a name, is saved as a file that
cannot be loaded.

*Others.* `doAction(String, String)` puts the
action's code into its name and is always unauthorized; a user with a pending reset cannot
be deleted, because the row of the reset refers to the user; two requests that end one
session make `terminate` of the later throw, its flag stays in the thread and ends the
session of another request; a login that throws leaves the user in the session; of two token requests with `multiple = 0`
both new tokens may stay; a request between the assignments of `initConfig` and
`ignoreAuthPath` finds no path exempt from authentication; without a transaction of the
application an action's status is committed before its history, which may then fail; a
user without a right to an action gets a `NullPointerException`; an annotated method that
throws is not rolled back if it has joined a NON_TRANSACTION method; where callbacks
overlap, a null list or a `ConcurrentModificationException` ends the pinger for good.

## 4. What is proved

All of this holds for every value of the constants (any number of requests, workflows,
threads, sessions, users, logins, parts; any size), under the assumptions that the modules
name; the runs check the same formulas on small instances. A theorem about a way of using
the code (`Joined`, `Serialized`) says so in its statement; the others hold however
requests overlap and whatever fails.

| theorem | states | used |
|---|---|---|
| `WorkflowProofs!TypeCorrect` | `[]TypeOK` | in any way |
| `WorkflowProofs!HistoryNumbered` | `[]LogNumbered` | in any way |
| `WorkflowProofs!RouteIsLogged` | `[]ProgressLogged` | in any way |
| `WorkflowProofs!AnswersAreLogged` | `[]AnswersLogged` | in any way |
| `WorkflowProofs!ActionsAreAtomic` | `ActionAtomic` | joined |
| `WorkflowProofs!CheckAdmits` | `CheckAdmitsOffered` | serialized |
| `WorkflowProofs!RouteIsConnected` | `[]RouteConnected` | joined, serialized, each action checked |
| `WorkflowProofs!EngineKeepsPromise` | `KeepsPromise`: the refinement of `WorkflowPromise` | joined, serialized |
| `TransactionProofs!TypeCorrect` | `[]TypeOK` | in any way |
| `TransactionProofs!NoLeak` | `[]ConnectionsAccounted` | in any way |
| `TransactionProofs!CleanConnections` | `[]NothingLeftOver` | in any way |
| `TransactionProofs!WritesAreOne` | `[]AllOrNothing` | in any way |
| `AccountsProofs!TypeCorrect` | `[]TypeOK` | in any way |
| `AccountsProofs!PreRegisteredIsLocked` | `[]PreRegisteredLocked` | serialized |
| `AccountsProofs!AccountsLive` | `AccountLife` | serialized |
| `AccountsProofs!ReportsAreTrue` | `ReportIsTrue` | serialized |
| `PushSessionsProofs!TypeCorrect` | `[]TypeOK` | in any way |
| `PushSessionsProofs!OpenSessionsAreIndexed` | `[]OpenIsIndexed` | in any way |
| `PushSessionsProofs!MapsAgree` | `[]Registered` | serialized |
| `PushSessionsProofs!NoticesReach` | `NoticeReaches` | serialized |
| `RequestCycleProofs!TypeCorrect` | `[]TypeOK` | in any way |
| `RequestCycleProofs!RestEndsSession` | `RestLeavesNone` | in any way |
| `RequestCycleProofs!SessionsEnd` | `SessionEnds` | in any way (it has its own condition) |
| `RequestCycleProofs!UsersAreKept` | `[]UserKept` | in any way (it has its own condition) |
| `OICLoginProofs!TypeCorrect` | `[]TypeOK` | in any way |
| `OICLoginProofs!FreshStatesSurvive` | `[]FreshSurvives` | in any way |
| `OICLoginProofs!RefreshesClear` | `RefreshClears` | in any way |
| `OICLoginProofs!CacheIsRight` | `[]CacheMatches` | in any way (it has its own condition) |
| `EditorProofs!TypeCorrect` | `[]TypeOK` | in any way |
| `EditorProofs!ExportsAreMasters` | `[]ExportIsMasters` | in any way (it has its own condition) |
| `EditorProofs!CodesAreUnique` | `CodesStayUnique` | in any way (it has its own condition) |
| `EditorProofs!LinksAreKept` | `LinkKept` | in any way |
| `EditorProofs!LoadedIsSaved` | `LoadedAsSaved` | in any way (it has its own condition) |
| `BinaryStoreProofs!TypeCorrect` | `[]TypeOK` | all three stores |
| `BinaryStoreProofs!NothingElseLeft` | `[]LeftPending` | all three stores |
| `BinaryStoreProofs!AcceptedFilesAreStored` | `AcceptedIsStored` | all three stores |
| `BinaryStoreProofs!ObjectsAreWhole` | `[]ObjectIsWhole` | all three stores |

None of the properties but a few types is inductive. What each needs besides, and why:

### `WorkflowProofs`

Assumed are `MastersAssumption` and `UseAssumption`: each code has one route (`action_code`
is the key of `fw_wf_rote`), its statuses are rows of the status master, a role exists, and
the rollback's code, "no status" and "no workflow" are not among the others.

That the INSERT of a log row keeps the numbering depends on what its request has read
before, and that what it puts on the route is in the history depends on what it has just
written. The invariant `IInv` adds, for each request,

- `Located`: from which statement on the workflow and the target status are set;
- `Transacted`: a joined request has its transaction open just while it writes;
- `Pending`: before the INSERT, `ser` is one of the numbers in the history or the next one
  (so that the primary key leaves only the next), and before the progress, the row it will
  add is in the history it sees;

and says of committed and uncommitted tables alike that they are `Sound` (numbered, the
route within the history). The lemma `OthersKeep` is the heart: no request changes what
another one relies on. Joined, another's view is its own transaction; per call, histories
only grow, and a number that was at most the next one stays so. `ReadStep` and `WriteStep`
reduce each action to what it does to its own request; then there is one lemma per action.
`MaxExists` (a bounded set of numbers has a maximum) carries the facts about
`SELECT MAX(wf_ser_no)`, stated in `MaxSerProp`, `NumberedProp`, `AddNext`, `MoreRows`.

`JInv` (joined) says why an action is whole: two requests that write work on two workflows,
as the row that each inserts or updates first is locked until its commit (`Excluded`), so
that a transaction is what is committed now and one row more (`Held`). `AInv` says why an
answer stays true: requests that have written have different numbers (`Distinct`) and
histories only grow (`Kept`).

`SInv` (serialized) adds that requests under way work on different workflows (`Apart`), so
that what `checkAction` has found out is still so (`Checked`), and so is what
`generateAction` or `generateRollbackAction` has made of it (`Generated`). From it and
`JInv` follows, with lemmas about the last row of a numbered table (`LastOfMore`,
`OneLast`), that a commit appends to the promised history and extends the route or, as a
rollback, goes one status back (`CommitKeepsPromise`); every other step leaves the promised
state alone. `RouteIsConnected` is stated for applications that use `doInitAction` and
`doAction` with its check only: the overload without a check goes where it is told to.

### `TransactionProofs`

Assumed is `TransactionAssumption` (which only says that "no connection" is not a connection
and that there is a depth). What makes the properties inductive is how the counter, the
field and the stack agree, which the code nowhere says. `Frames`: while `layer` is n >= 1,
the n-th frame from the innermost began the transaction, it alone has a connection, and
that is the one in `field`; while `layer` is 0 or less (two steps of a broken connection may
leave it at -1) no frame has one. `Holds`: inside a transaction nothing is kept yet and the
connection holds all that was written, unless it broke; outside, what is left in `field` is
broken, so that no method works on it. `Pool`: no connection is in two places, and only a
broken one in none. `StepOf` reduces each action to its own request and the pool;
`SettleStep` stands for the five ways in which an outermost method ends.

### `AccountsProofs`

Assumed is `AccountsAssumption`; that there is an id is needed for "no request" to be typed.
`TInv` ties each place to the operations that come there (`OnPath`), and counts: whoever
begins a request leaves enough numbers for those that have yet to draw theirs (`Suffices`,
with cardinalities). `SInv` (serialized) is about the rows of an id (`Rows`: without an
account there is no token and no pending reset, a pre-registered one has only tokens of
OpenID Connect, and no known link is newer than the valid one), about what a request has
read and relies on (`Current`) and about what it has committed and will be answered for
(`Committed`). `Current` is what fails when requests on an id overlap, see section 3.

### `PushSessionsProofs`

Assumed is `PushAssumption`: a session has a user, and "no list" is not a list. `TInv` says
that an iterator has not gone past the end of its list as it was when it was made, so that
what it yields is a session whoever changes the list. `OInv` holds however callbacks
overlap: an open session is on the index, or its own `onOpen` has still to put it there, or
an eviction has just taken it off and closes it next.

`SInv` is the longest invariant of the project, because `SessionManager` keeps the same
fact in three places and changes them one by one. `Mutex`: one callback runs, but for the
`onClose` of a session that an `onOpen` has evicted. `ListsInv`, `MembersInv`: a user's list
has no repetitions, is empty only just before the first `add` or just after the last
`remove`, and holds a session exactly from its add to its remove, or until all are evicted.
`OpenerInv`, `CloserInv`, `NoticeInv`: what an iterator walks is what the map holds.
`AloneInv`, `OneInv`: without `MULTI_SESSION`, whom the eviction has dealt with is closed and
off the index, so that at most one is left. `IndexInv`: who is on the index has been opened
and not been removed. The lemmas about lists (`Appended`, `Dropped`, `First`, `Without`)
state what `ArrayList.add` and `ArrayList.remove(Object)` do; the latter removes the first
occurrence, and only `ListsInv` makes that the only one. Each action has a lemma for `TInv`
(`...Typed`), one for what it changes (`...Went`) and one for `SInv` (`...Keeps`).

### `RequestCycleProofs`

Assumed is `RequestAssumption` (names that are no sessions and no users). However requests
overlap, a REST call that goes towards its end has the flag "logout", so that its session
ends with it (`Control`, `RestEnding`). Unless they overlap, the flag in a pooled thread is
that of the request that it runs and gone when it is idle (`Flagged`), a request's session
is its browser's (`Holding`, `Alone`, `Known`), every valid session of buffered responses is
known to a browser or in an answer (`Reachable`), and a page has a user (`PageUser`).

### `OICLoginProofs`

Assumed is `BoundsAssumption`. An answer that is being checked belongs to a login that has
signed in, whose token does not change any more (`Posted`, `Named`). What a clean-up still
has to remove is old and ahead of its iterator (`Ahead`). Unless two requests have been in
`getPublicKey` at once, either one request fills the cache and nobody else is there, or all
of them only read it (`CInv`).

### `BinaryStoreProofs`

Assumed is `SizesAssumption`: a limit of at least two parts (the code has 1024) and at least
one round of the abort loop (20). With a limit of one part a small file is stored that
should be refused, and with no round nothing is aborted; `AcceptedIsStored` and
`LeftPending` are then false, as TLC shows. `TimesPart` and `PiecesProp` are the arithmetic of
parts, which the prover does only where products are hidden. `Tidy` says step by step what a
request may have left pending; its own upload is aborted in the first round, before it is
refused. `WInv` adds that block k of an object or of the uncommitted ones was sent by who
has sent at least k (`Numbered`, `Sent`), and that finitely many requests have sent any.

### `EditorProofs`

Assumed is `EditorAssumption`. Its only assumption on sizes is that there are at least as many
codes as cells of a kind; in the code they are unbounded, as are the loops of `initstatus`
and `initcode` that look for one. That they end with a code that is free is `FirstFreeProp`,
and that the codes of all other cells leave one free is counted in `StatusCodesFree` and
`LinkCodesFree`.

The inductive invariant `EInv` says what ties the cells of a page together. Every cell is on
one of the tabs (`Shown`), so that closing or losing a tab leaves nothing behind; both ends of a
link are statuses of its own tab (`Attached`), so that a status that goes takes the link with
it and the export finds a status at either end; and a link that is embedded in a status leads
nowhere yet, or came out of a file (`Embedded`), so that leaving an edit mode takes no link
that was connected. `Embedded` is kept because `Change` gives the link up before it closes the
edit mode. A tab that is not there has no name, which makes the names of a loaded project
those of the saved one.

Each handler has a lemma for what it changes (`...Went`) and one for `EInv` (`...Keeps`);
handlers that leave an edit mode share `ShutWent` and `WithoutWent`, changes of a link
`ChangeWent`. `CodesAreUnique`, `LinksAreKept` and `LoadedIsSaved` follow step by step from the
former. For loading, `KeysOrdered` shows that the keys of the object are totally ordered,
`Ranked` that one of them is the k-th (their ranks are an injection of finite sets of one
size), `LastOfNameProp` that each has the last tab of its name; so no tab is loaded twice, and
if the names differ and are in the order of the keys, what is loaded are the tabs
(`MergedIsTabs`).

### What is only model-checked

Liveness: `RequestsEnd`, `PoolRefills`, `UploadsEnd` and `GoneAreClosed`, which is out of the
prover's reach. All other properties of the passing runs are stated by a theorem.

## 5. Where it could go on

The models leave out what section 1 and the notes of the components name. Of that, most is
to be had from the user's name, role and locale in `Accounts`, and from an edit box of a link
that stays open while others are used in `Editor`. The counterexamples of section 3 are
about the code as it is: when it is changed, the condition of the property goes.
