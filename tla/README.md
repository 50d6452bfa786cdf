# MobileOperator: a verification project

TLA+ models of the MobileOperator server, their model-checking runs and their
proofs. Paths are relative to the repository.

## 1. The system

A server for the customers and administrators of a mobile operator. Apps connect
over TLS, send protobuf requests and get one response each. The state of the
business is in two Postgres databases; the process itself keeps little more than
its connections.

| component | state | operations | interacts with |
|---|---|---|---|
| Server, Session, ClientChannel (`server/Server.cpp`, `Session.cpp`, `ClientChannel.cpp`) | accepted channels; per channel the frame being read | accept, read a frame, write a response | runs on the worker pool; calls RRManager with each frame |
| Worker (`common/Worker.cpp`) | four threads on one io_service | start, join | runs every callback |
| RRManager (`server/RRManager.cpp`) | none between requests, except the session id and UserInfo it stores on a channel and never reads | `readSessionBuffer`: check the session, dispatch, respond | AuthLogic, SessionPostgresInfo, AuthPostgresManager |
| AuthLogic (`server/Logic/AuthLogic.cpp`) | none | registration, login, logout, purchases, administrators' changes, views, statistics | all Postgres managers |
| auth database (`server/db/auth.sql`, `AuthPostgresManager.cpp`, `SessionPostgresInfo.cpp`) | `server_users`, `server_session` | one transaction per method | |
| operator database (`server/db/malahov.sql`, `ClientPostgresManager.cpp`, `RatePostgresManager.cpp`, `ServiceManagerPostgres.cpp`, `UserPackagePostgresManager.cpp`) | `users`, `package_state`, `rates`, `services`, `user_connected_rate`, `user_connected_service` | one transaction per method | |
| CryptoHelper (`server/Crypto/CryptoHelper.cpp`) | the C library's random generator, shared by all threads | random strings for session ids and salts; md5 | |
| DBHelper (`server/db/DBHelper.cpp`) | a list of prepared statements that nothing fills | a new connection per call, by role | |
| ProtoHelper, Types, Helper | none | conversions, frame headers | |
| Config, GlobalParams, main | settings read at start | | |

**What is hard here.** Four threads run handlers, one handler per channel at a
time (a channel reads its next frame after the handler has returned). A handler
makes several calls to the managers, each with its own connection and its own
transaction; nothing spans two calls. So handlers interleave call by call, a
decision is taken on a copy of a row that another handler may have changed, the
process may end between two calls, and a call may fail or lose the
acknowledgement of its commit. Every manager turns every exception into
`status_internal_error`, and about half of the callers do not look at the result.

**What makes each component correct.**

* Billing: no purchase leaves an account in debt; money and counters move only for an offer whose
  connection is on record, and it is the right user's; a refusal leaves no trace; "Success!" tells the truth;
  purchases and administrators' changes of one user do not destroy each other.
* Sessions: a request whose session is running is served for the user who sent it;
  a logout is final;
  whoever is welcomed has a session.
* Registration: an account belongs to one login; one registration per login
  writes; a registered login is complete; "Success" tells the truth.
* Views: what is shown together was true together.
* Transport: frames keep their boundaries, requests are answered once, in order;
  the server goes on accepting.

The full list of what can go wrong, each at its line, is under `hazards` in
`PROJECT.json`, with the properties that would catch it. For some no property can be
stated that the code keeps: the model takes the step, the properties except it by
name, and the entry says so in a note (a request of an unknown session served for
whom it names, a lost rest after a restart, an exception in `remote_endpoint`, a
role that was never read).

## 2. Modules

| module | what it is |
|---|---|
| `Billing` | the five handlers that change accounts and packages, call by call |
| `AtomicBilling` | what they promise: each request is one step |
| `IsolatedBilling` | the conditions under which `Billing` implements `AtomicBilling`, and the refinement mapping |
| `Sessions` | `checkSession`, login, logout, the shared generator |
| `Registration` | `createUser` over both databases |
| `Directory` | what registrations promise: a book of logins and accounts that is only added to, in order |
| `PackageView` | a user's package state and story, read while `Billing` goes on; extends `Billing` |
| `Transport` | the acceptor, the channels' read loops and writes, the worker threads |
| `Dialogue` | what a channel promises its app: each request is handled once, in order, and answered once |
| `BillingProofs`, `IsolatedProofs`, `SessionsProofs`, `RegistrationProofs`, `PackageViewProofs`, `TransportProofs`, `ResponsesProofs`, `DialogueProofs` | theorems and proofs |
| `MCBilling`, `MCIsolatedBilling`, `MCSessions`, `MCRegistration`, `MCPackageView`, `MCTransport` | constants for TLC |

The models of handlers have the same shape. A variable per table; a variable with the
handler that runs on each channel (its locals and the call it is about to make,
`pc`); an action that begins a request; an action per call, which contains the
code up to the next call; `Reply`; `Crash`, after which only the tables remain.
`Fault` is a call that fails without effect or whose effect is not acknowledged.
Definitions marked as mutants are not part of a model: they are the plausible
mistakes each property was tested against.

### Billing

`users` is `users.score`, `package_state` the table of that name, `connected` the
rows of `user_connected_rate` and `user_connected_service`. `charged`, `credited`
and `missed` are history variables: which request's `updateUser` took money, by which
id (`uid`, and whether it came from a row, `isRow`); whose `updatePackage` wrote to a
package, and whose matched no row and succeeded all the same. `Script` gives the order of calls of the five
handlers; the actions `GetRateInfo`/`GetServiceInfo`, `GetUser`,
`CreateUserRate`/`CreateUserService`, `Charge`, `GetPack`, `PutPack`, `SetScore`,
`SetPack` are the calls. `Register` stands for the two inserts of a registration that
these handlers can see, a row of `users` and a package, for any id and at any
moment, between two calls of a handler too.

What the model keeps: `getUserInfo` succeeds without a row and leaves its
`UserInfo` uninitialised (`StrayScores`, any id), so that an `updateUser` may reach
another user's row, or one inserted in the meantime; the result of `updateUser` is
ignored by payments and checked for administrators; the result of `getPackage` is
overwritten (`StrayPacks`); an `UPDATE` that matches no row succeeds; counters
are added modulo `Word` (2^32) and rejected by a column beyond `MaxCount`
(2^31 - 1); the foreign keys of the connection tables; `ProtoHelper` not reading
`count_sms` of a service; a refusal for want of money answers with the success
code of the call before.

What it abstracts: `mb` stands for the three counters the code treats alike
(`count_mb`, `count_sec_into_net`, `count_sec_out_net`); scores and costs are
integers (rounding of FLOAT is not modelled); the number of the request stands
for `NOW()` in the primary keys, so two connections of one user and offer in one
microsecond are not modelled; offers do not change (no handler changes them);
requests with missing fields are refused before any call and are left out. An
administrator may set any score, of whatever sign: nothing in the code looks at it.
`Init` admits users without a package and ids without a user, which an interrupted
registration leaves behind.

### PackageView

`packageInfoRR` and `userStoryRR` are handlers that only read, in four and more
transactions. The module adds them to `Billing`: its variables and actions are
used as they are (`ViewServe` is a step of `Billing`'s `Serve` or of a view), so
each view interleaves with purchases, grants and restarts.

`dated` holds, per user, the rows of the two connection tables in the order of
their dates, which is what the queries of the views sort and filter by; `Dated`
says that `NOW()` dates a row when a handler of `Billing` inserts it, and the
first row of a complete registration is the rate with which it begins. `over` is
the set of services whose live time has run out (`Expire`). `view` is the view
that runs on each viewer: the call it is about to make and what it holds. The
package and the account it has read are kept as the sets of requests whose
credits and charges they include (`seen`, `paid`): that is what the properties
compare. Which charges a score includes is not which charges were made: an update
writes back a copy less a price, or an administrator's figure. `balance` follows the
charges that each account's score contains, `copy` those that a handler's copy of a
score contains, and `lost` collects what an update has dropped.

`getPackageState` and `getUserStory` give the order of the calls; each call is an
action (`GetPackage`, `GetUserInfo`, `GetUserRate`, `ViewRateInfo`,
`GetUserServices`; `GetUserConnectedRate`, `GetUserConnectedService`,
`GetPayments`), `Describe` is one turn of the loops that look up the details of
each row, whose results are ignored, and `FailedCall` a call that fails and ends
the view. `GetRole` is `getUserByUserId` in `checkSession`, with which a view
begins here: its result is ignored, and after a failure the role is what the stack
held. `Works` and `Fails` say what a role does to every later call:
`getDBConnection` gives AUTH an account of the other database, and falls off its
end for a role that is none of the enumerators: the call may then work, fail, or
end the process (`ViewCrash`). `GetUserServices` keeps the format `'999'` of
`to_char`, which makes the query fail for a service of 1000 days and more.

Abstracted: offers' fields, phones and dates are copied for display; `getSmsPayment`
and `getOutboundCalls` read tables no code writes; the three months of a story
are any suffix of the rows. Registrations go on beside the views: `Register` of
`Billing`, and `ConnectFirst`, the first rate, which may come without a package or more
than once. `complete` in a view says whether its user had package and first rate when
he asked.

### Transport

`accepting` says that an `async_accept` is pending; `sessions_` is the server's
list, which nothing ever leaves; `handlers` the channels whose handlers
`RRManager::onConnected` has installed; `op` the asynchronous operation pending on
each channel; `nextMsgSize_` is the field (0, or the size of the message to come);
`inbox` the frames sent and not yet read; `writes` the responses on their way;
`wire` what the app has received. `thread` says what each worker thread does.

`handleAccept` is four actions, because other threads matter between its parts:
`Accept`, `Endpoint` (`remote_endpoint`, which throws when the peer is gone, then
`sessions_` and `start`), `Install`, `AcceptAgain`; `AcceptError` is its error
path. `Install` is one step for the two handlers `onConnected` sets
(`RRManager.cpp:20` and `:25`): a read that ends in an error between them would still
cost its thread, as before both, and a request would already be served, as after both. `Handshake`, `ReadSize`, `Read`, `Drop`, `ReadError` are the branches of
`handle_handshake` and `handleRead`, `Respond` the end of
`RRManager::readSessionBuffer` together with the `read()` that follows it. What
happens between `Read` and `Respond` is the subject of the other modules, which
take from here that a channel has one handler at a time (`OneHandlerPerChannel`).
A callback that no other thread can observe half-way needs an idle thread and
does not occupy it. An exception (`Throw`) ends the thread; `Return` is
`service_.run()` returning once nothing is pending.

A response is written in units (TLS records); writes of one channel take turns on
its stream (`WriteUnit`), since nothing orders them. `MakeBuffer` cuts the length
to 16 bits (`Word`). `Limits` are the descriptors left for channels: accepted
channels keep theirs, a running handler has one for its database connection.
Apps and the kernel's queue are external: an app sends requests and empty frames,
ahead of its answers or not, and may leave at any time.

Left out: two threads inside one `SSL` object, and a `std::function` that is read
while it is installed, which are undefined in the code and taken here as one of
the two orders; `Session::stop`, which nothing calls; errors of a channel whose
app has not left. The history variables say who sent ahead (`eager`) and whose
request found no handler (`dropped`).

`Dialogue` abstracts a channel to sets of request numbers: sent and not yet handled
(`waiting`), with a handler (`serving`), answers on their way (`answering`) and
arrived (`answered`). Threads, frames, units and the acceptor are out of its sight.
The mapping at the end of `Transport` reads these sets off `inbox`, `thread`,
`writes` and `wire`; `ReadSize`, the accepts and every unit of an answer but its
last are stutters. Unlike `ResponsesIntact` it also speaks of apps that send ahead,
whose answers may be mixed on the wire.

### Sessions

`server_session` is the table, `held` the session each user's app holds (the app
is external: it keeps what its last "Welcome!" carried, and keeps the old one when
the response was lost). A request names that session or one that is not stored, and
in its session_info any user: if the session is not running the server serves it for
that user (`RRManager.cpp:156-188`), and so does the model. `vouched` marks the requests
whose user `getUserBySession` has filled in; `MixedUpOnlyIfCrowded` is about those. A session id is the second of the seed and the number of
characters drawn since: equal seeds give equal strings. `Seed` and `Draw` are
`srand(time(NULL))` and the loop over `rand()` (two drawing loops do not
interleave character by character); salts of registrations use the same
generator. `Check`, `Touch`, `Whose` are the three calls of `checkSession`; `Use`
stands for every handler that neither logs in nor out. One clock serves the
process and the database. `getUserByUserId`, `getUserByLogin` and `saveSession`
only affect the role, or are written and never read, and are left out. The
history variables say in which seconds the generator was seeded (`seeds`), in
which more than once (`crowded`), and which sessions a logout ended (`closed`). A
logout that meets another request of its session between the check of `end_date`
and `updateSession` (`Racing`) does not count as having ended it: the code
prolongs the session again.

### Registration

`server_users` and its sequence `next_id` are the auth database, `users` (here the
phone), `package_state` and `connected` the operator's. The calls are
`IsUserExist`, `InsertServerUser`, `GetUserByLogin`, `CreateUser`,
`CreateEmptyPackage`, `CreateUserRate`. The model keeps: the sequence is not
rolled back; `server_users.user_id` is a bigint and `users.id` an integer (ids
beyond `MaxId` do not fit); `createEmptyPackage` takes the id modulo `Word`; the
phone is a `varchar(12)` (`LongLogins`); after a failed `getUserByLogin` the
`UserInfo` has an empty login and an uninitialised id (`StrayIds`: 0, somebody's id,
one beyond the column); from there on no failure stops the handler. Drawing the salt is part of `Sessions`. A failing
call and a restart both count against `MaxFaults`.

`Directory` is the same tables without handlers: a login is enrolled, once, with an
id no other login has; an account is opened, once, for the owner of its id or for
nobody; a package is added, once, and rates, to an account that exists. Both modules
record which ids have a rate and not how many rows, so a second rate for one id is
no step. The mapping is the identity on the tables.

## 3. Runs

| run | configuration | shows |
|---|---|---|
| `billing` | two phones of one customer, an administrator who sets a debt, a second user, a rate that is listed and one that is not, a service, registrations; 2 requests, 2 faults; 1.0 M states, 40 s | the five invariants of `Billing`; `OnlyAdminsMakeDebt`; `AdminEditsItsTarget` |
| `billing_live` | the same with one rate, 1 fault, fair; 372 k states, 85 s | `ChargeIsAnswered` |
| `isolated` | two customers and an administrator, no faults, 3 requests, counters up to 4; 105 k states | refinement of `AtomicBilling`; `NoOverspend` |
| `overspend` | two phones, no fault | `NoOverspend` fails without isolation |
| `lost_credit` | one purchase, one fault | `SuccessMeansDelivered` fails |
| `lost_sms` | one request, no fault | `SuccessMeansDelivered` fails for services |
| `sessions` | two users, three channels, 3 requests that name any user, 1 fault; 1.0 M states, 40 s | `MixedUpOnlyIfCrowded`, `SessionsApart`, `LogoutIsFinal`, `WelcomeUnlessDisturbed` |
| `same_second` | two logins, no fault | `WelcomeHasSession` fails |
| `registration` | three logins (one too long), three channels, ids 0 to 2 fit, 4 requests, 2 faults; 2.2 M states, 90 s | `AccountIsOwners`, `OneWriterPerLogin`, `CompleteUnlessDisturbed`; refinement of `Directory` |
| `registration_success` | one fault | `SuccessMeansRegistered` fails |
| `package_view` | one user, one buying and one granting or score-setting channel, one viewer, a registration, two requests, a failing call of the view; 2.2 M states, 100 s | `PackageIsExplained`, `ScoreIsCurrent`, `ViewIsReal`, `CompleteIsShown` |
| `transport` | two channels, two threads, one or two descriptors, up to two requests, responses that fit the header and that do not; 224 k states | the six invariants, the action property and the two liveness properties of `Transport`; refinement of `Dialogue` |

**Why the bounds are enough to be interesting.** Two requests allow a purchase
to overlap with a second purchase or with an administrator's change, call by
call; a price of 2 against a score of 2 makes the second purchase poor exactly
when the first is visible, and the debt -1 makes every later one poor. Two faults
let the check and the charge of one purchase both go wrong. Two users, of whom either
may be missing at first and be registered at any moment, make a garbage id
somebody else's, or one's own too late. `MaxCount` 3 and `Word` 8
let a package overflow its column; garbage counters wrap around when a rate is
added and do not fit when a service is. The theorems hold for any number of
requests and faults. In `sessions`,
three channels make two handlers of one app and one of another overlap at the
generator; `TTL` 1 with one tick lets sessions run out under way. In
`registration`, three inserts with two ids of the sequence that fit cover the last and the
one beyond, and a garbage id congruent to a real one covers the cut to 32 bits.
In `package_view`, two requests put two rows between any two calls of a view, or a
purchase and an administrator's score that wipes it out (without `lost`,
`ScoreIsCurrent` fails there); a score of 1 buys s1 once, and a
failing call leaves details blank. Services of 1000 days (`LongLived`), whose view fails
at once, are in the proof and not in this run; the faults of `Billing`'s own calls are
left to its runs, and to the proof, which admits any number of both. In
`transport`, two requests of one app let a request be read while the answer to
the one before is written; the second app competes for the descriptor, the
acceptor and the two threads, and can end one of them; `Word` 3 with responses of
2 and 3 units gives a length that fits and one that is cut. An inbox holds one frame,
so an app sends ahead while a request is handled; that frames queue in order behind
each other is left to the theorems.
Deadlock is not checked: the number of requests is bounded, so every behaviour
ends with idle channels; and the server of `transport` may lose all its threads.

Symmetry is used for interchangeable channels only, and not in the runs with
liveness properties.

**Fairness.** `Billing`'s `FairSpec` says weak fairness of each handler's calls, and no
crash: the io_service runs a callback once a thread is free, handlers hold no
lock and wait for no other handler, and Postgres answers each call with success
or failure. Nothing is assumed of the arrival of requests. `Transport`'s `FairSpec`
is weak fairness of each thread's running callback and, per channel, of
accepting it, reading its frames, handing over its messages and writing to it:
an io_service queues what is ready and runs it in order. It assumes nothing of
the apps, which need not send, and nothing of errors: `AcceptError`, `Endpoint`'s
exception and `ReadError` may or may not happen, and the liveness properties name
the outcomes that excuse the server.

**Disagreements between the code and what it says** (`findings`): an overspend by
two purchases of one account; "Success!" without a credited package after a failed
read; messages of services that are never delivered; a welcome without a session
when two users log in within a second; "Success" for a registration that failed.

## 4. Proofs

The theorems hold for every value of the constants that satisfies each module's
`ConstantsAssumption` (`IsolatedProofs` also uses `NoneAssumption`: `None` is not a
handler); nothing else is assumed.

* `BillingProofs`. `TypeCorrect` is inductive as it stands: a handler at a step is
  a handler of a script that has this step. `ChargesAreConnected`,
  `CreditsAreConnected` and `SuccessesAreConnected` come from one inductive
  invariant: the three properties with `HandlersInStep`. None of them is inductive
  alone: the update comes calls after the check, and what carries over is that the
  row of the connection exists and that the id held is the user's own if it came
  from a row. It need not have come from one: the row may have been inserted between
  `getUserInfo` and `createUserRate`, and `ChargedIsConnected` says no more of such a
  charge than that its connection is on record. `DebtIsAdministrators` uses the same
  invariant for a step: whatever a purchase writes, the copy, garbage or not, passed
  the check, so the difference is not negative, whatever happened to the row meanwhile.
  This is why purchases may overwrite each other and still not produce debt, and why
  a debt is an administrator's very figure. `EditsHitTheirTarget` is the part about
  ids, at `updateUser` of an administrator.
  `RefusalsAreClean` needs `RequestsApart`: two handlers never share a request
  number, and an offer is connected only after both possible refusals.
  `ChargesAreAdmitted`, the safety half of `ChargeIsAnswered`, combines them: an
  answer after a charge is no refusal, and one that says "Success!" has the credit,
  or its `updatePackage` matched no row (`missed`).
* `IsolatedProofs`. `IsolatedSpec` is `Billing` while no two handlers work on one user
  (`Isolated`), no call fails (`NoFault`), nothing outgrows its column (`Roomy`) and
  every user is registered completely; handlers of different users interleave call
  by call. `CalmAlways` is the invariant: users stay complete, every handler has found
  its user, and the account and package it read are the ones the tables still
  hold, up to what it has itself written (`Informed`). It is not inductive without
  `Isolated` on both ends of a step: a handler keeps its copy true because the one
  that moves is another user's. `NoOverspendAlone` follows at
  the charge, `SuccessDelivers` at `updatePackage`: what is written
  is what the package holds plus the offer. For `AloneIsAtomic` each user has at most one
  handler, so what the mapping anticipates for him is that handler's alone
  (`Values`); a step changes only its own user's values, `Buy` and `Grant` at the
  insert, `Adjust` at `updateUser`, and every other call leaves them as they were.
* `SessionsProofs`. `SessionsKeptApart` rests on `SessionsApart` with
  `GeneratorAhead`: unless a second is crowded, the generator is past every id
  known to anyone, so what is drawn is new. `UsersNotMixedUp` adds that the user
  of a handler that `getUserBySession` has answered (`vouched`) comes from the row of
  the id it names, whatever user it named.
* `RegistrationProofs`. `TypeCorrect` is proved with `HandlersInStep` (defined
  there): past the insert the login is stored, and a handler's `UserInfo` either
  bears no login or is the stored one. `OneWriter` follows since only an insert of
  a login that is not stored begins to write. `AccountsAreOwners` adds `Serial`:
  stored ids lie below the sequence, so a new one is nobody's.
  `UndisturbedIsComplete` needs the step-by-step account of what a handler has
  done (`Clean`), that the ids to come are free, and both theorems before it: a
  handler's steps are not disturbed by others, because no other one writes its
  login and no other login has its id. `UndisturbedSuccessIsTrue` states the
  exception to which `registration_success` is the counterexample: without a failure
  or a restart the answer "Success" finds account, package and rate complete
  (`Settled`: nobody writes any more for a login that has been answered "Success",
  so `CompleteUnlessDisturbed` speaks of it).
  `RegistrationImplementsDirectory` maps each call to a step of `Directory` or a
  stutter. A garbage id does not break it: an account is opened under it only for
  nobody, since a handler that knows a login knows the stored id (`HandlersInStep`).
* `BillingProofs` also has `HandlersStayInStep` and `RequestsKeptApart`, the two
  parts of the invariant that say how handlers and tables agree, on their own:
  auxiliary invariants, proved and not run.
* `SessionsProofs` also has `GeneratorStaysAhead`, and `LogoutsAreFinal`: whoever
  could revive a session stands in `updateSession` or is about to insert its id.
  The first is what `Racing` excludes at the logout, and after it the check
  fails; the second is excluded by `GeneratorAhead` unless the second is crowded.
  `UndisturbedWelcomeIsTrue` states the exceptions to which `same_second` is the
  counterexample: `createSession`'s insert fails without a fault only on an id that
  is stored, and then, by `SessionsApart`, the row is the user's own or its second
  is crowded; rows, faults and crowded seconds stay (`Stays`), so what held at the
  insert holds when the answer is sent.
* `TransportProofs`. The invariant ties together who is inside `handleAccept`,
  what is pending on each channel and what each thread does: a channel that a
  thread is admitting has no operation pending before `start`, a channel that is
  served has no read pending (hence `OneHandler`), an accept is pending exactly
  when no thread is handling one or has thrown in it (`AcceptsOnce`), and a thread that
  ended names a channel that is gone and will never run a callback again
  (`ThreadsEnd`, `InstalledSafe`). `RunsOnUntilThrown` needs that a thread lost in
  `remote_endpoint` stays the only acceptor for good (`ThrownStays`): its channel is
  never kept, since nobody is left to accept one. `TypeCorrect` supplies the types.
* `ResponsesProofs`. `AnswersArriveWhole` needs to know where the last request of an
  app that waits is (`OnePlace`): in the inbox, with a handler, or in the one write
  under way, and nowhere once it is answered; and that the wire ends just before
  what is still to come (`InTurn`). The app's waiting alone keeps two writes from
  alternating. `Sized` says that a length that was read is that of the frame at the
  head, so that empty frames shift nothing.
* `DialogueProofs`. `TransportImplementsDialogue` needs two invariants. That of
  `Transport` (`Queued`, over those of `TransportProofs` and `ResponsesProofs`) says
  that the requests of an inbox carry ascending numbers, so that the head is the
  first of what waits, and that no two writes answer one request. That of `Dialogue` (`InOrder`, proved
  over the abstract specification alone, `DialogueOrder`) says that no request is in
  two places and that numbers move on in order; it carries back to `Transport`
  through the mapping, so that the last unit of an answer is the first and only
  time it arrives. Then one lemma per action says which of the sets it moves a
  number between.
* `PackageViewProofs`. `ViewsAreBilling` first: every behaviour of `PackageView` is
  one of `Billing`, so `Billing`'s theorems may be cited. The views' invariant adds
  that every row of `connected` is dated (`RowsKept`), that every charge is in the score of
  the account it was taken from, or lost (`AccountsKept`), that a request whose credit is
  known was connected before and charged before it was credited (`CreditIsLast`),
  and, per call a view has behind it, what that call's result stays true of
  (`ViewsSound`): the package is read first, and whatever it includes was
  connected earlier, so the rate and the services read later include it or
  something newer. `PackagesExplained` and `ScoresCurrent` rest on this order; with the
  package read last both fail, which is what their mutant does. `CompletesShown`
  follows since a refusal without a failure names a row that was missing, while what
  was there when the user asked is never removed (`StillComplete`).

Only model-checked: liveness (`ChargeIsAnswered`, `RequestsAreAnswered`,
`AppsAreAccepted`), which is out of the prover's reach. Every safety property of
the passing runs is proved.

## 5. Not modelled

The lists (`allRatesRR`, `allServicesRR`, `allUsersRR`) and the statistics: one
query each, which change nothing and combine nothing, so that there is no order
of events for them to get wrong. The checks for missing message fields, which end
a request before its first call. md5, protobuf and TLS (libraries); the
configuration (read once, before the threads start); `AdminPackagePostgresManager`
(empty); the submodule with the protocol messages (absent). The end of the process
(`Crash`) has no line of its own and is marked external. Two hazards lie outside the
models: the lock in `isPrepared`, and the dates of a view.

## 6. Plan

1. Done: `Billing` with its abstract specification; `Sessions`; `Registration`;
   `Transport`; `PackageView`; the role of a view's calls; registrations beside
   purchases and views.
2. Left: the handlers of `Registration` in full beside those of `Billing`, in the place
   of `Register`: whose account a garbage id of a registration completes.
3. Done: the proofs of every safety property of the runs; the refinements of
   `AtomicBilling`, `Directory` and `Dialogue`; for each finding about a "Success"
   or a "Welcome!" the conditions under which it is the truth.
4. Left to prove: that with no failure and no restart the views of `PackageView`
   read what one moment of `AtomicBilling` held, once handlers of their user are
   kept apart.
