# libwebqq in TLA+

libwebqq is a client library for the WebQQ chat service: it logs an account in,
keeps it logged in, polls for messages, sends messages to groups and keeps
tables of the account's groups, members and buddies.  This directory holds TLA+
modules that model its control, TLC configurations that check them on small
instances, and proofs for TLAPS that hold for every instance.

All paths below are relative to the repository; the specifications follow the
code, and where a comment or the README says something else the difference is
listed under *Where the code differs from what is said of it*.

    tlc -config Session_app.cfg SessionProperties      model-check one run
    tlapm SessionProofs.tla                            check the proofs

`PROJECT.json` lists the runs, for each property a plausible bug that breaks it
(a *mutant*: the definition `X_Bug` that stands before `X` and that no
specification uses), the source lines of each definition, the hazards of the
code and the theorems.

## 1. Inventory

### Execution model

Everything runs in one `io_service` thread.  The loops and the chains of requests
are stackless coroutines (`BOOST_ASIO_CORO_REENTER`): a function object whose
members and bound arguments are its state, and which is resumed at its last
`BOOST_ASIO_CORO_YIELD` by the handler of a request, a timer, a queue or a post.
There are no locks and no preemption.  What is hard is what happens *between* two
yields of one coroutine: other coroutines, `stop()`, `feed_vc()` or
`send_group_message()` may run and change what was read before; and a process may
die and be started again with the cookies that are in its database.

So in every module **an action is what the code does between two yields**, and a
program-counter variable names the yield at which a coroutine is suspended.

### Components

| Component (source) | State it keeps | Operations | What makes it correct |
|---|---|---|---|
| Main loop (`webqq_loop.cpp:40-250`) | `firs_start`, `m_counted_network_error`, the error and code it was resumed with; writes `m_status` | poll, react to the result, wait, drop the session, check_login, wait for a code, login, wait, start over | reconnects whenever it can; never gives up without a reason; logs in no faster than the service allows |
| Polling request (`webqq_poll_message.hpp`) | the JSON of one answer, an iterator | one long poll; walk over the entries | every message delivered once, in order, before the next poll |
| check_login (`webqq_check_login.hpp`, `webqq_verify_image.hpp`) | `m_login_sig`, `m_version`; clears `m_psessionid`, `m_clientid`, `m_groups`, sets OFFLINE | home page, version, signature, check, image | the old session is gone before the new login |
| login_vc_op (`webqq_login.hpp`, `webqq_vfwebqq.hpp`, `webqq_status.hpp`) | retry counter, iterator over `m_groups`; writes `m_status`, `m_clientid`, `m_psessionid`, `m_vfwebqq` and cookies | password, redirects, vfwebqq, status change, buddies, group list, members | a login that is reported has a complete, persistent session |
| Message sender (`group_message_sender.hpp`) | `m_group_message_queue` (circular, 20), message in hand | wait for a message, for a login, post, call back, pause | in order, at most once, nothing lost in silence |
| Group refresh loop (`webqq_loop.cpp:252-366`) | `m_group_refresh_queue`, `m_last_sync` | full refresh (throttled), members of one group, callback | one callback for each command; 30 minutes between full refreshes |
| Group list and numbers (`webqq_group_list.hpp`, `webqq_group_qqnumber.hpp`) | `m_groups`, an iterator into it | request the list, take it over, ask for each unknown number | every listed group is found; the walk ends |
| Buddy database (`buddy_mgr.*`) | SQLite tables of groups, members, buddies | replace lists, map numbers, look up | one row for each group; numbers of groups survive |
| Group members (`webqq_group_member.hpp`, `webqq_impl.cpp:158-268`) | rows of members, chains of number requests | request, insert, ask for numbers one by one | no member without a number is forgotten; every chain ends |
| Group message processing (`process_group_msg.hpp`) | entry, image iterator, `ec` | look up group and sender, refresh members, image addresses, signal | see polling |
| WebQQ object (`webqq_impl.cpp`, `webqq.cpp`) | `m_status`, ids, queues, signals | `start`, `stop`, `feed_vc`, `send_group_message`, `search_group`, `join_group` | `stop` ends the loops |
| Cookie store (`cookie_mgr.hpp`) | SQLite table of cookies | match, save, delete, drop the session | every request carries what the service gave last |
| Search and join of groups (`webqq_impl.cpp:303-455`) | a chain of one or two requests, the cookie `verifysession` | search, join, image of a challenge | one callback; the cookie of the last image |
| Keep-alive (`webqq_keepalive.hpp`) | a stream | request, 20 s timer | ends with the status |
| Offline files (`webqq_send_offfile.hpp`) | a file and a stream | open, blocks, tail, answer, `send_offfile2` | one callback, whichever part fails |
| Buddy list hash (`webqq_hash.hpp`) | none | a function of uin and ptwebqq | agrees with the service's script |
| Error codes, face map, constants | none | tables | - |

### Who talks to whom

* `m_status` and `m_psessionid` are written by the main loop, check_login,
  login_vc_op and `stop()`, and read by all loops at moments of their own.
* `m_vc_queue` (capacity 1): `feed_vc()` and check_login push, the main loop pops.
* `m_group_message_queue` (capacity 20): `send_group_message()` pushes, the sender
  pops.
* `m_group_refresh_queue` (unbounded): the login, the processing of messages of
  unknown members and the application push a callback and a gid; the refresh loop
  pops and calls back.  So the *main loop waits for the refresh loop* (twice), and
  both call the group list request, which clears or swaps `m_groups` under
  iterators of each other.
* The chain of number requests that a list of members starts goes on behind the back
  of the refresh loop, so that several run at once over one table of members.
* Searches, joins and the login share one cookie `verifysession`.
* The SQLite file keeps cookies and the three tables over restarts.

### What is hard to test here

The list with lines is `hazards` in `PROJECT.json`; in short: `m_status` is one
variable with several writers, so that QUITTING is written over and ONLINE is seen
in the middle of a login; partial failures of the chain of a dozen login requests;
the queues of bounded capacity and codes that outlive their challenge; a crash
between the writes of two cookies; errors of which the last one wins in the walk over
messages; two group lists at once over one map; iterators and ids that are stale after a
yield; answers that lack a field; a throttle computed with
the components of a duration; rows of members that a list replaces under a chain of
requests; a cookie set and removed in one answer; waits that nobody ends after `stop()`.

## 2. Plan

The order is that of importance: the session first, for everything else depends
on it.

| Step | Modules | State |
|---|---|---|
| 1. Session: main loop, check_login, login, polling outcome | `CoroQueue`, `Presence` (abstract), `Session`, `SessionProperties`, `SessionProofs` | done |
| 2. Message sender | `Sender`, `SenderProofs` | done |
| 3. Group refresh loop, over restarts | `GroupRefresh`, `GroupRefreshProofs` | done |
| 4. Messages of an answer | `PollBatch`, `PollBatchProofs` | done |
| 5. Group table, list and numbers | `GroupDb`, `GroupDbProofs` | done |
| 6. Members: rows, numbers, chains of several groups at once | `MemberDb`, `MemberDbProofs` | done |
| 7. Cookies, and the calls with one callback: searches, joins, offline files | `CookieStore`, `Requests`, `RequestsProofs` | done |
| 8. The object: session, sender, refresh loop and keep-alive together | `WebQQ`, `WebQQProofs` | done |

Abstract specifications: `Presence` (what every other loop may rely on about the
status and the session id) is implemented by `Session`, and is what `Sender` is
checked under.  `Sender` and `GroupRefresh` are each checked with a free environment,
and are then the abstract specifications of their loops inside `WebQQ`, which
implements both under a refinement mapping.

Theorems, in the order in which they were proved: the session's inductive invariant, what
follows from it and its refinement of `Presence`; the throttle; the tables of groups and of
members; the justified relogin; the single callback of the calls; the sender's order and
completeness; the refresh loop's single callback; delivery in order; the listed groups; the
object, which implements `Session`, `Sender` and `GroupRefresh`; the cookies.

## 3. Modules

### CoroQueue

`boost::async_coro_queue` over a `circular_buffer` is not in the repository; it is
modelled as the code uses it (external): a buffer in which a push beyond the
capacity overwrites the oldest item.  The one coroutine that may wait in `async_pop`
is a program counter of the module that uses the queue; a push while it waits hands
the item over and the queue stays empty.  `cancele()` ends a waiting coroutine and
does nothing else.

### Presence

The abstract specification of `m_status` and "`m_psessionid` is not empty".  It
says that an id is never replaced in place and that a session which was left is not
taken up again under the same id.  It promises nothing about QUITTING: the code
does overwrite it.

### Session

| In the module | In the code |
|---|---|
| `status`, `psessionid`, `clientid` | `m_status`; the two ids are empty or not |
| `jar` | the cookies of `psession.qq.com` (`webqq_status.hpp:104`, `webqq_login.hpp:195`) in the database: `drop_session` clears them |
| `pc` | the yield of the main loop or of the chain it called |
| `ec`, `str`, `firs_start`, `netErr`, `attempt` | the members and bound arguments of those names (`m_counted_network_error`, `login_vc_op::i`) |
| `vcq` | `m_vc_queue` |
| `Boot`, `Poll*`, `PollWaitOver` | `webqq_loop.cpp:60-137` and the results of `webqq_poll_message.hpp` |
| `Home/Version/SigReturns`, `Check*`, `Image*`, `CheckWaitOver` | `webqq_check_login.hpp`, `webqq_verify_image.hpp`, `webqq_loop.cpp:150-180` |
| `VcArrives`, `Feed` | `webqq_loop.cpp:184`, `feed_vc` |
| `Login*`, `RedirectReturns`, `VfwebqqReturns`, `SetStatus*`, `BuddiesReturn`, `GroupList*`, `GroupWaitOver`, `MembersReturn` | `login_vc_op`, `webqq_vfwebqq.hpp`, `webqq_status.hpp` |
| `LoginSucceeded`, `LoginWrongPasswd`, `LoginFailed`, the timers | `webqq_loop.cpp:193-232` |
| `Stop`, `Restart` | `webqq_impl.cpp:125`; the death of the process at any yield and the constructor of the next one |

Data is abstracted to what decides the control: an id is there or not, a code is an
answer to the latest challenge (`fresh`), to an older one (`stale`) or `blank`.
`str` is the bound argument: it is overwritten when a code is popped.  `asked`
(a challenge was signalled and not answered), `alive` (the server still honours the
session), `gap` (seconds of timers since the last login request, capped at 30) and
`crashes` are history variables: no guard of the code's steps reads them, except
`asked` in `Feed` when the application is `Disciplined`, that is calls `feed_vc` once
per challenge as `webqq.hpp` asks for.  A restart may find the database empty (the
library was told to keep it in memory).

`SessionProperties` has the properties and the parts of the inductive invariant,
`SessionProofs` the proofs.  The proofs about each other module are in a module of its
name with `Proofs` behind it.

### Sender

`Sender` has the coroutine of `group_message_sender.hpp` (`spc` is its yield), the queue
and the calls of `send_group_message`; a message is the number of its call.
`sent`, `called` (callbacks), `lost` (overwritten messages) are history.  Its
surroundings are any behaviour of `Presence`, plus `stop()` and restarts.

### WebQQ

`WebQQ` is the object: `Session`, `Sender` and `GroupRefresh` with their variables, in one
thread, over the same `status`, `psessionid`, table of groups and `stop()`.  A step is a
step of one of them, or `Stop` or `Restart`, which all of them see.  `MemberRequest` joins
two loops: a main loop that walks the groups of a login, or the messages of a poll, pushes
a command and stands still (`waiting`) until the refresh loop calls back; in `Session`
alone that is a step which simply ends.  The keep-alive has one visible step, its end on
QUITTING (`kpc`).

The refresh loop is seen through a mapping (`Rfr`): its `main` is "done", "waiting" or
"running" by the main loop's `pc` and `waiting`, its `quitting` is
`status = "QUITTING"`.  The environment of `GroupRefresh` (`Request`, `Relogin`,
`MainReturns`) is thus what the real main loop has to stay within: `RefreshSpec`.

### GroupRefresh

`group_refresh_loop_op` with its queue (`rq`), the command in hand (`v`), the table of
gids and its main caller (`main`).  Time is the sum of the throttle timer and of the
pauses between commands.  `Wait(d)` is the code's computation with
`minutes()` and `seconds()`, which are components of a duration, not its length:
between 31 and 59 minutes of any hour there is no wait at all, and 3600 s count as 0
minutes.  `FirstWait` is a consequence of a detail: `async_pop` copies the coroutine
*before* `m_last_sync` is assigned, so that the first command computes with
`not_a_date_time`, whose tick count has 0 minutes and 54 seconds; it waits 1746 s.
`synced` says which copy runs.  A gid that is not in the table is the null pointer of
`webqq_loop.cpp:334`, and `crashed`.  `AppGids` are the gids the application asks for:
`webqq::update_group_member` takes any group it holds, and one that `search_group` made
has the empty gid, which is the command for a full refresh.  `Restart` keeps `since` (time
goes on) and loses `m_last_sync` and the queue.

### PollBatch

`poll_message_op` and `process_group_message_op` over one answer: `batch` is the
JSON, `i` the iterator, `left` the images still to be asked for, `ec` the error the
walk was last resumed with.  `Done` keeps the order of the code: the handler that
resumes the walk is called before the message is delivered
(`process_group_msg.hpp:166`), in one step.

What an entry lacks is thrown about, and nothing around `io_service::run` catches it, so that
the process ends (`crashed`).  An entry is `Broken` without `poll_type` (and so is an
answer without `result`, an answer of one broken entry), `Unsigned` without the ids of group
and sender, and a group message may lack something in its content: it is not `whole`.  The
last is found behind the images, which makes no difference but to how many of them were asked
for before; an entry with fewer images is another member of `Items`.  A broken entry ends the
process inside the handler of the message before it, which is then not delivered (`Done`).

The refresh of members waits twice: until the group refresh loop takes the command
(`RefreshTaken`), which looks the group up and uses a null pointer if it is gone, and until the
members came.  In between that loop does nothing else, so that the table changes only by a
login, after `stop()`.

The first test of the walk takes every
kind of entry that is not a group message (`webqq_poll_message.hpp:170`), so that the
branch for `kick_message` is never reached; they are `Other`.

### GroupDb

The table of groups, `m_groups` (`mem`) and the walk of `update_group_list_op` that
asks for numbers.  A gid is the group's code and the round in which the service drew
it.  `Replaced` is the code's test (`webqq_group_list.hpp:132`): the old map is
replaced if some gid was *known*, and kept beside the new groups if all are new.

Two ask for lists (`Lists`): the login of the main loop (`webqq_login.hpp:239`) and the group
refresh loop (`webqq_loop.cpp:297`), each for one at a time, and both at once in every order.
So `lpc`, `todo`, `cur` and `dangling`, the places of their iterators, are functions of the
asker.  A list of one may add groups before or behind the iterator of the other (`Inserted`),
or replace the map under it.  The login goes on to the walk for the members
(`MembersStart`, `MembersReturn`, `RestOver`), which waits for the group refresh loop and looks
groups up in the table.

`Cleared` is the clear of check_login, which cannot come while the login itself walks, but
leaves the iterator of the refresh loop dangling, as a replaced map does.  What happens then is
undefined behaviour: the process dies (`Dangles`), or the freed nodes still hold what they
held and the walk goes on over them.  That the memory was given to something else is not
modelled.  `Restart` keeps the table and nothing else.  `Fixed` are groups whose gid the
service draws only once.

Not in this module: a third list, of a login that an application stopped and started again on
the same object leaves behind (`start()` makes a new main loop whether or not the old one has
ended; in the other modules too it is called once).

### MemberDb

| In the module | In the code |
|---|---|
| `rows` | `group_buddies`: of each uid the group of its row and whether the number is there.  The uid is `UNIQUE ON CONFLICT replace`: an insert takes the row from another group, and its number with it |
| `asked`, `AskMembers`, `Members*` | the one request of `update_group_member_op` |
| `chain`, `StartChain`, `ChainBegins`, `Number*` | `update_group_member_qq_op` and `buddy_uin_to_qqnumber`: the uids are read when the chain is made, the rows when it comes to them |
| `AddBuddy` | `qqGroup::add_new_buddy` |

`excused` is history: the members whose number nobody is to ask for, and why it may be so
(a request failed, an answer broke off, the number was -1, the process died).

### CookieStore and Requests

`CookieStore` has the operators of `cookie_mgr.hpp` on a table: what the `Set-Cookie`
lines of an answer do to it (`SaveLines`, the loop of `save_cookie`, line by line), and which
rows match a host and a path.  A host is the
sequence of its labels, so that the `SQL` of `build_domain_conditions` is the set of its
ends.  Of an expiration date it keeps whether there is one.

`Requests` has the table as a variable, and calls (`call`) that are searches, joins or
offline files, at any of their yields.  The `Set-Cookie` lines are those the service is
known to send (external).  `latest` is history: what the service last gave under each
name.  `posted` counts callbacks on their way through the `io_service`:
`failed_invode_handler` posts, and after a failed open the upload goes on beside it.
`JoinThrows` and `UploadThrows` are callbacks of the application that throw inside a `try`
which is there for the parser.  The handler of an upload's answer
(`webqq_send_offfile.hpp:156`) calls the application only when the tail or the answer ended with
an error code and the answer was nevertheless complete (`webqq_send_offfile.hpp:224`); otherwise
it makes the next request, and if that throws the one failure is posted (`UploadReturns`).

## 4. Runs

`WebQQ_compose` takes less than two minutes, each other run less than one.  Distinct
states in brackets.

| Run | Instance | What it asks and shows |
|---|---|---|
| `Session_app` [23612] | groups fetched, disciplined application, 1 crash, `LiveSpec` | Types; the database never holds a session that the loop gave up or never had (`JarNeverAhead`); the loop returns only after `stop()` or a refused password (`DoneMeansQuitting`); no code of an old challenge is sent (`VcFresh`); a reported login is complete and persistent (`LoginMeansSession`); 12 s of timers between logins (`LoginsSpaced`); the loop implements `Presence` (`PresenceSpec`); it reconnects after every mix of failures (`Recovery`); a stop is honoured where nothing can write over QUITTING before it is read (`StopHonoured`); the inductive invariant of the proofs (`IInv`) |
| `Sender` [3228] | queue of 2, 5 messages, 1 crash, any `Presence` | Order and at most once (`InOrderOnce`), no silent loss (`NoSilentLoss`), overwritten only for as many newer ones as fit (`NewestKept`), callbacks (`CallbackIffSent`), delivery once the account stays online (`Delivered`) |
| `WebQQ_compose` [855046] | queue of 1, 2 messages, 2 groups, 1 crash | With the real main loop the sender still meets its specification (`SenderSpec`), and so does the refresh loop (`RefreshSpec`); nothing leaves between the loss of a session and the accepted password (`NothingSentWhileLoggedOut`) |
| `GroupRefresh` [433432] | 2 groups, 7 pauses, queue of 2, any number of restarts | The main loop is owed one callback while it waits and none otherwise (`CalledBackOnce`); 1800 s between full refreshes, 1746 s over a restart (`FullSpaced`); a waiting main loop is served (`Served`) |
| `PollBatch` [483592] | 2 groups, 1 sender, 3 entries, 2 images | Messages are delivered once and in order (`DeliveredInOrder`); a relogin has a reason (`ReloginJustified`); the main loop gets its result, unless it was stopped or the process died of a flawed entry or of a group that is unknown or gone (`Polled`) |
| `GroupDb` [299164] | 2 groups, one of them with 2 gids, both askers, any number of lists and restarts | One row for each group and gid (`OneRow`); known numbers stay (`NumberKept`); the groups of the last list, whole or faulty, are found (`AnswerListed`); the walks for numbers end (`WalkEnds`) |
| `MemberDb` [187512] | 2 groups, 3 members, 2 chains, any number of restarts | A member without a number is still to be asked for, or a failure explains it (`NumbersOwed`); every chain ends, whatever happens to the rows under it (`ChainsEnd`) |
| `Requests` [38082] | 2 calls, 2 values of a cookie, files of 0 to 2 blocks | Each request carries, of each cookie meant for its host, the value that was given last (`CookiesSent`); one callback for each call, and one more for each of the two faults that the code answers twice (`CallbackOnce`); every call is answered (`Answered`) |
| `Session_FailedLoginRetried`, `WebQQ_SendHasSession`, `WebQQ_StopEndsLoops`, `PollBatch_UnknownGroupRelogins` | small | violated, see section 7 |

Why the bounds suffice:

* *Session*: its counters are those of the code (3 network errors, 5 retries of the
  group list, a queue of 1); the only bound is one crash, after which every state of
  the database that a run can leave has been tried; the initial database is any
  that an earlier process can have left.  `gap` is capped at 30: it is compared
  with 12, and a first login is told by 30.
* *Sender*: a queue of 2 (20 in the code) has an empty, a partly filled and a full
  state and distinguishes the oldest item from the newest; 5 messages overfill it
  while one is in hand, and overwrite more than one item.
* *WebQQ*: each loop was checked alone with larger bounds; here it matters how they meet.
  A second message meets the sender in its inner loop.  Two groups are one that the
  table has and one that it has lost while the login still walks to it; the application's
  full refresh (`AppGids = {all}`) stands between the command of the main loop and its
  callback, fails and is queued again behind it.  The application adds no command to those
  that wait (`MaxQueue = 0`).  With pauses of 0 the throttle timer is always set; its
  length is the business of `GroupRefresh`.

  The view `Visible` leaves out what decides nothing: history that no guard reads (`alive`,
  `gap`, `sent`, `called`, `lost`, `since`); `wait` and `synced`, since the timer is set
  for each of their values; the variables of a coroutine at yields after which they are
  assigned before they are read (`ec`, `str`, `attempt`, `hand`, `v`); and the database once
  no process can start any more.  The properties of this run compare a state with the next
  one only, so that one of the histories that lead to a view stands for all.
* *GroupRefresh*: the pauses are the ends of the intervals that `Wait` treats
  differently (0 and 30:59 on one side, 31:00 on the other, an hour and 60:59) and
  values inside them.  `MaxQueue` bounds the application's commands: with two
  in the queue and one in hand, commands of all three sorts (full, of the main loop,
  of others) meet.  Restarts are not bounded: the state does not grow with them.
* *PollBatch*: a message of an unknown group, one after it that overwrites its
  result and a third of any sort, flawed ones among them; two images, for the table may
  change between them.
* *GroupDb*: two groups are one at an iterator and one before or behind it; a list may have
  both, one or none, and so replace the map by a part of it or join it.  One group has two
  gids, so that gids go and come back any number of times, in each of the ways in which a list
  can end; that the other has one (`Fixed`) keeps the run short and is no bound of the proofs.
  There are no more askers than two.
* *MemberDb*: two chains and two groups share members, so that one chain meets rows that
  another list replaced or another chain has filled; a third member is what a
  chain has left while it asks for one and passes over another.
* *Requests*: two calls overlap over one cookie; two values tell the last from the one
  before; files of no block, of one and of more.

An application that is not disciplined and a session without group fetching are covered by
the proofs, which hold for both values of the constants, and not by a run.

Deadlock is not checked anywhere (`CHECK_DEADLOCK FALSE`): every module
has states where the system rightly stops (the loops returned, no call is under way or the process died),
and in `Session` where an application that was destroyed never feeds a code.  That
the system does not stop where it should not is said by the liveness properties.

## 5. Fairness

* **Weak fairness of the code's own steps** (`CodeFairness`, and `WF_vars(Loop)` in
  the other modules, `WF_vars(ChainStep(c))`, `WF_vars(Step(c))` and
  `WF_vars(Answered(w))` for each chain, each call and each asker of a list): each request that was started ends with some answer or
  error, each timer fires, each posted handler runs; `io_service` calls every
  completion handler.  There is one `WF` for all steps of a coroutine, for it waits
  at one yield at a time.  Which answer comes is not constrained by it.
* A step that waits for another loop is fair only **while the object is not stopped**:
  the poll (which may refresh members for a message), `MembersReturn` and
  `RefreshTaken`.  `stop()` cancels the refresh loop, which may then never call
  back.  That it calls back otherwise is `Served` of `GroupRefresh`; there the wait
  ends too if the gid is unknown, by a crash.  In `GroupDb` nothing is assumed of the walk for
  the members, and `WalkEnds` is about the numbers only.
* In `WebQQ` the wait is in the model, and what is fair is the loops themselves.  The two
  strong conditions of `FairSpec` (`PollReturns`, `MembersReturn`) say that the walk over
  the entries of an answer, or over the groups of a login, has an end: the steps that end
  it are disabled while the main loop waits.  `FairSpec` is used only to show
  that `StopEndsLoops` fails, and so errs on the side of the code.
* **Strong fairness of the environment** (`HonestService`, in `Recovery` only): a
  request that is made again and again is *once* answered as it should be, a session
  that ended is once reported, and the application once answers a challenge.  It is an
  assumption about the service and the user, not about the code; without it no
  client reconnects.
* Nothing is assumed of `Stop`, `Restart`, `Feed` (beyond the above), the
  application's calls, lists of members or changes of the tables.

## 6. Proofs

| Module | Theorem | Statement |
|---|---|---|
| `SessionProofs` | `Invariant` | `Spec => []IInv` |
| | `TypeCorrect`, `JarCorrect`, `DoneCorrect`, `CodesFresh`, `LoginComplete` | the five invariants of `Session_app` |
| | `LoginSpacing` | `Spec => LoginsSpaced` |
| | `ImplementsPresence` | `Spec => PresenceSpec` |
| `SenderProofs` | `Invariant`, `TypeCorrect` | the inductive invariant and the types, for a queue of any capacity |
| | `OrderKept`, `NothingVanishes`, `NewestStay`, `CallbacksFollow` | `InOrderOnce`, `NoSilentLoss`, `NewestKept`, `CallbackIffSent`, for any number of messages and restarts and whatever `Presence` does |
| `GroupRefreshProofs` | `RefreshInvariant`, `RefreshTypes`, `RefreshSpacing` | types and `FullSpaced`, for every set of pauses and any restarts |
| | `MainCalledBackOnce` | `CalledBackOnce`, for a queue of any length |
| `PollBatchProofs` | `ReloginHasReason` | `ReloginJustified`, for answers of any length |
| | `BatchInvariant`, `BatchTypes`, `AllDelivered` | types and `DeliveredInOrder`, for answers of any length |
| `GroupDbProofs` | `GroupsInvariant`, `GroupsTypes`, `RowsUnique`, `NumbersKept`, `AnswersListed` | types, `OneRow`, `NumberKept`, `AnswerListed`, for any number of groups and rounds |
| `MemberDbProofs` | `MembersInvariant`, `MembersTypes`, `NoMemberForgotten` | types and `NumbersOwed`, for any number of groups, members and chains |
| `RequestsProofs` | `AnsweredOnce` | `CallbackOnce`, for any number of calls and files of any length |
| | `SavedAsMeant` | what `save_cookie` makes of the table is what the service means, for any number of lines |
| | `CookiesKept`, `RequestTypes`, `CookiesRight` | the table has the values that count; types and `CookiesSent` |
| `WebQQProofs` | `ImplementsSession`, `MainInvariant`, `ObjectKeepsSession` | the main loop of the object is `Session`, so that what is proved of it holds of the object |
| | `ImplementsSender`, `ObjectSends` | `Spec => SenderSpec`, and the sender's four properties in the object |
| | `ImplementsRefresh`, `ObjectRefreshes` | `Spec => RefreshSpec`, and the refresh loop's two properties in the object |
| | `OnlineMeansLogin`, `SilentWhileLoggedOut` | ONLINE means that a password was accepted; `NothingSentWhileLoggedOut` |

Each safety property and each action property that a passing run checks is thus a theorem
for every value of the constants.

Assumptions are those on the constants only (`MaxCrashes \in Nat`, `Disciplined \in BOOLEAN`,
`QueueCap \in Nat \ {0}`, `All \notin Gids`, `Pauses \subseteq Nat`, `NoNum \notin Codes`,
`Tokens \subseteq Nat \ {NoValue}` and the like); `WebQQ` repeats those of its parts for the
constants it gives them.  TLC evaluates each of them in a run.

**The session.** None of its invariants is inductive alone.  `IInv` is the conjunction
of the types and six parts, each of which says why one property survives the steps
that may disturb it:

* `NetErrInv`: the loop polls only with fewer than three errors counted.  Needed for
  the types, since a poll adds one.
* `QuitInv`: QUITTING has a cause.  This is `DoneMeansQuitting` before the loop
  has seen it.
* `ReloginInv`: how much of the old session is gone at each step of a new login.
  `JarNeverAhead` speaks of the database only; the memory must be known too, for the
  client id is written to the database in the middle of a login.
* `CompleteInv`: from the answer with the session id on the session is complete, and
  stays so up to the signal.  `LoginMeansSession` is its last state.
* `CodeInv`: with a disciplined application the queue is empty at every yield, so that
  no code can outlive its challenge.
* `GapInv`: each yield on the way to a login has its 12 seconds behind it; the one login
  without them is the first (`firs_start = 0`), before which no login was made.

The step is proved by one lemma for each part (`TypeStep`, `NetErrStep`, ...,
`GapStep`), with one case for each action; the invariants are then consequences of
`IInv` in one state.  `LoginSpacing` needs `GapInv` and that only `VcArrives`
leads to the login.  `ImplementsPresence` maps each action to one of
`Presence` or a stutter; it needs `ReloginInv`, which says that the status becomes ONLINE
and the id non-empty only while there is none.

**The sender.** `NoSilentLoss` and `NewestKept` say where each call has gone, and the calls are
numbers.  They need to know how these numbers lie: `QueueInv` says that `sent`, the message in
hand and the queue follow each other in age, and that items of the queue are apart by at least
their distance (`Spread`).  From this a full queue spans at least `QueueCap` calls, so that
its oldest item, the one overwritten, is that much older than the call that overwrites it.
`HandInv` puts the message in hand between the two: a restart or a new login can hold it for
as long as they like while the queue moves on behind it.  `WaitInv` is what the direct handing
over of `async_coro_queue` rests on: a sender waits only at an empty queue, and so cannot be
handed a message before older ones.  `PushMessage` is the lemma about the overwriting queue.

**The refresh loop.** `FullSpaced` speaks of the moment of the request; `SpacedInv` says
that while the timer runs, the time elapsed and the time to wait make up 1800 s.
The heart is `WaitEnough`: `d + Wait(d) >= 1800` for every `d`, although
`Wait` uses the components of the duration.  A restart sets the invariant up again, for
the first wait of a process does not depend on what it remembers.
`CalledBackOnce` counts the commands, in hand or in the queue, that will call the main loop
back.  It is not inductive, for a full refresh that fails is queued again after it has
called back.  `OwedInv` adds why this does no harm: a command of the main loop is never one for
a full refresh, and only those get to the list request.

**The walk over an answer.** `DeliveredInOrder` says while an entry is processed that
`delivered` is what lies before the iterator: there is an order-preserving numbering of
the group messages passed.  `EntryInv` adds that the entry in process is a group message from the
moment that it waits for a request (before, it may be `Unsigned`), and the step extends the
numbering by it, but for the one after which the process dies.  That the walk passes over none is about the next entry it
stops at, a least element (`LeastEntry`).

**The tables.** `OneRow` and the types (a number is the group's own) are inductive
together; `ListKeeps` and `MapKeeps` state what the two updates of the table
preserve, and `NumbersKept` follows from them.  `AnswersListed` needs of a list, of either asker
and however it ends, that every group in it gets a row (`ListCovers`) and a place in m_groups,
whether it joins the map (`InsertCovers`) or replaces it (`ReplaceCovers`), and of a number
that a row which is rewritten keeps its gid (`NumberCovers`).

**The members.** `NumbersOwed` is inductive together with the types.  The lemmas
say what it rests on: a walk that goes on leaves behind only members that have a number
or are the one just dealt with (`WalkLeavesNone`), and a chain that is
started has all rows of its group on its list (`StartOwesAll`), including those that the
list in the answer took from another group.

**The calls.** `CallbackOnce` needs to know, of each yield, that nothing is posted but after
a failed open, that no callback has thrown, and that a call which waits has not been called
back but for that open.  A call that has ended may still have one post on its way, the failure after
a callback that threw (`ThrownPostedGood`).  That is `Good` of one call; each step changes one call, and the rest stay as they are.

**The cookies.** `CookieInv` says that the table is `Table(latest)`: of each cookie the one row
under which the service sets it, with the value given last, and no row of any other.  It is
inductive because of `SavedAsMeant`: `save_cookie` goes line by line, deletes and inserts and
keeps a list of what it has inserted, while an answer means, of each cookie, its last
value, and a removal only if no line gives it one.  The two agree for any number of lines in
any order, by induction over them; the prover has no induction over data, so that it goes over
the set of the numbers of lines for which they agree (`UpTo`, with the least number that would
not be in it, and `LineByLine` for the recursive function).  `CookiesRight` then is about one state: the rows that
`build_domain_conditions` selects are those meant for the host (`DomainsMeant`).

**The object.** The theorems of a part are about the part's own `Spec`; in `WebQQ` it has
more company.  `ImplementsSession`, `ImplementsSender` and `ImplementsRefresh` show that each
step of the object is a step of the part under its mapping, or none of its visible
ones: `SenderFollows` and `RefreshFollows` go through the steps of the object.  Both need
invariants of the main loop, which is why it comes first: that it is a behaviour of
`Presence` rests on `ReloginInv`, and that it does not return without QUITTING
(`MainReturns` of the refresh loop's world) on `QuitInv`.  `TableTyped` says that the groups which
a login lists are groups.  The properties of the parts then carry over.  The lemmas `SameMainNext`,
`SameSender` and `SameRefresh` say only that a module and its proofs' module, each with
its own instance, mean the same steps.  `SilentWhileLoggedOut` needs `OnlineInv`: a login attempt
forgets both ids *before* it asks for anything, and ONLINE comes back only with the accepted
password.

**Only model-checked.** Liveness under fairness, with ENABLED in it, is out of reach of the
prover: `Recovery`, `StopHonoured`, `Delivered`, `Served`, `Polled`, `WalkEnds`, `ChainsEnd` and
`Answered` are shown by TLC on the instances of section 4.  So are the four violations of section 7,
each of which is a counterexample.  No module declares a RECURSIVE operator.

## 7. Where the code differs from what is said of it

| Property, run | What is said | What the code does |
|---|---|---|
| `FailedLoginRetried`, `Session_FailedLoginRetried` | `webqq_login.hpp:254`: without the group list the login has failed; `webqq_loop.cpp:222`: retried in 30 s | The accepted password has set ONLINE (`webqq_login.hpp:368`), which a failure does not undo (it assigns a local variable of the same name).  After the 30 s the loop polls with what it has. |
| `SendHasSession`, `WebQQ_SendHasSession` | `group_message_sender.hpp:101`: wait for the login, and the test below it asks for a `psessionid` | The sender's inner loop tests the status only, and it is ONLINE several requests before the id arrives: a message is posted without one. |
| `StopEndsLoops`, `WebQQ_StopEndsLoops` | `README.md:38-40`: the loops exit safely after the object is gone | `stop()` sets QUITTING once.  A poll that needs a login, check_login and an accepted password write over it; `m_vc_queue` is not cancelled; a sender that waits for a login waits for ever; a sender or refresh loop that comes to `async_pop` afterwards is not woken. |
| `UnknownGroupRelogins`, `PollBatch_UnknownGroupRelogins` | `process_group_msg.hpp:76`: the group is unknown, log in again | The result of a later message or of an image of the same one replaces `need_refresh`; the loop polls on with void group ids. |

Observations that are part of the models and contradict no claim that a run states:

* A status change or a group list that fails, and a code that is blank, lead back to
  the head of the loop.  If the status is ONLINE there, it polls, with or without a
  session, and it is the error of that poll that leads to the next login: `Recovery`
  rests on the service reporting a session that is none.
* The poll results 110 (`user_quit`) and unknown codes have no branch: the loop polls
  again at once.
* The first full refresh waits 1746 s after the first `async_pop`, whatever the age of
  the process (`FirstWait`), and the list that a login asks for does not count for the
  throttle: `FullSpaced` is about the refresh loop only.
* A refresh command for a gid that is gone, and an image of a message of an unknown
  group, use a null pointer.
* `kick_message` is never acted on (section 3, PollBatch).
* `webqq_group_list.hpp:134` says that a new gid makes the old list void; the test is
  the opposite, so void groups stay in `m_groups` until a gid is met again.
* `group_has_qqnum` without a row: the code reads a SOCI `into` variable for which no
  row came; it is modelled as "no number", as the code uses it.
* A full refresh that fails is queued again *with its callback*, and calls back each
  time; the main loop never passes one, so `CalledBackOnce` holds.
* A list of members forgets the numbers of the rows it replaces, and asks for all of them
  again; a number whose request failed is written as empty, also over one that another
  chain has found meanwhile.
* `buddy_mgr.cpp:226` binds the parameters of the update of a flag in the wrong order;
  `buddy_mgr.cpp:193` makes a buddy with an empty uin, for the variable of that name is not
  the one the query was asked with.  `clean_out_outdated` is never called.
* `cookie_mgr.hpp:98` says that the date decides whether a cookie is removed; the
  test behind it is made only where there is *no* date, so that it never holds: a cookie
  with a date in the past is stored.
* The answer to a search is parsed outside the `try` (`webqq_impl.cpp:351`), and one that is
  no JSON ends the process (`SearchGarbled`).  So does a poll whose answer has no `result`, an entry
  of it without `poll_type` (`webqq_poll_message.hpp:161,168`), or a message without its ids or with
  a content that lacks something (`process_group_msg.hpp:62,97`).
* The callback of a join runs inside the `try` (`webqq_impl.cpp:416`) and is called again if
  it throws (`JoinThrows`); so is that of an upload whose tail or answer ended with an error code
  and was nevertheless complete (`webqq_send_offfile.hpp:156`, `UploadThrows`).  Elsewhere an
  exception of a callback leaves `io_service::run`.
* An offline file that cannot be opened is reported and then uploaded nevertheless, with
  a second callback: and a third, if that one throws.
* A list of the group refresh loop and one of a login may replace m_groups under each other's
  iterators (section 3, GroupDb).  A group that stayed in m_groups beside a list of new gids
  is not in the table any more: the walk for the members of a login hands its gid to the group
  refresh loop, which uses a null pointer (`MembersReturn`).
* `WEBQQ_D_HOST` (`constant.hpp:42`) has a blank before the `d`, so that `send_offfile2`
  asks for a host that does not exist; the model has both ends of that request.
  `lwqq_time` (`webqq_send_offfile.hpp:25`) reads a variable that was never assigned, which
  gets into a URL only.
* Data that nothing in the models tells apart: `m_login_sig` stays that of an earlier attempt if
  the page has none (`webqq_check_login.hpp:118`), `m_sigbadvc` that of an older code
  (`webqq_loop.cpp:198`), and of more than 100 cookies the rest is left out
  (`cookie_mgr.hpp:195`).

## 8. What is not modelled

* **Tables of buddies and categories** (`webqq_buddy_info.hpp`): one request of the login
  writes them in one go, and accessors read them; cards, flags, nicks and owners of groups
  are data.
* **Dates and the number of cookies**: see section 7; the service is taken to remove a
  cookie with an empty value.
* **Buddy list hash** (`webqq_hash.hpp`): a pure function of bytes whose reference is the
  service's script, which the repository does not have; a model could only repeat it.
* **Keep-alive**: its request and timer are not told apart, for nothing but its end is seen.
* **Face map, constants, texts of error codes, URLs, JSON, the body of a message**: data
  and wording.
* **Network, HTTP (avhttp), SQLite, asio**: external; a request ends with any of the
  results that the code tells apart.
