------------------------------- MODULE Session -------------------------------
(***************************************************************************)
(* The main loop of libwebqq (webqq_main_loop_op) with the three chains of *)
(* requests that it runs: polling, check_login and login_vc_op.  One       *)
(* thread runs everything, so an action is what happens between two        *)
(* yields; between them stop(), feed_vc() and a crash may come.            *)
(*                                                                         *)
(* A value of pc is the yield at which the loop is suspended:              *)
(*   boot         the idle_post of the constructor                         *)
(*   poll         async_poll_message        pollWait    the 60s/12s timer  *)
(*   home, version, sig, check, image       the requests of check_login    *)
(*   checkWait    the 300s timer            vcWait      async_pop, waiting *)
(*   vcGot        the popped code is on its way to the loop                *)
(*   login, redirect, vfwebqq, setStatus, buddies, groupList, groupWait,   *)
(*   members      the requests of login_vc_op and its timer                *)
(*   loginRet     the result of async_login is on its way to the loop      *)
(*   blockedWait, retryWait   the 300s and 30s timers                      *)
(*   done         the coroutine has returned                               *)
(*                                                                         *)
(* Only what decides the control is kept: identifiers are empty or not,    *)
(* and a verification code answers the latest challenge or an older one.   *)
(* io_service posts that change nothing are folded into the step before.   *)
(*                                                                         *)
(* A definition X_Y is X with the plausible bug Y: no specification uses   *)
(* it, PROJECT.json names the property that it breaks.                     *)
(***************************************************************************)
EXTENDS Integers, Sequences, CoroQueue

CONSTANTS
    FetchGroups,  \* m_fetch_groups: disable_group_fetch() was not called
    Disciplined,  \* feed_vc is called once per challenge, as webqq.hpp says
    MaxCrashes    \* bound: how often the process dies and is started again

ASSUME FetchGroupsAssumption == FetchGroups \in BOOLEAN
ASSUME DisciplinedAssumption == Disciplined \in BOOLEAN
ASSUME MaxCrashesAssumption == MaxCrashes \in Nat

VARIABLES
    status,      \* m_status
    psessionid,  \* ~m_psessionid.empty()
    clientid,    \* ~m_clientid.empty()
    jar,         \* the cookies of psession.qq.com in the persistent database
    pc,          \* where the main loop is suspended
    ec,          \* the error_code the loop was last resumed with
    firs_start,  \* firs_start: 0 until the first poll on cached cookies ends
    netErr,      \* m_counted_network_error
    vcq,         \* m_vc_queue
    str,         \* the verification code the loop holds
    attempt,     \* login_vc_op::i, the group list attempts made
    stopped,     \* stop() was called: the webqq object is gone
    asked,       \* history: the latest challenge was signalled, not answered
    alive,       \* history: the server still honours the latest psessionid
    gap,         \* history: seconds of timers since the last login request
    crashes      \* history: restarts so far

memory  == <<status, psessionid, clientid>>
control == <<firs_start, netErr, attempt>>
codes   == <<vcq, str, asked>>
history == <<alive, stopped, crashes>>
vars    == <<memory, control, codes, history, jar, pc, ec, gap>>

-----------------------------------------------------------------------------
Status == {"OFFLINE", "ONLINE", "QUITTING"}

CheckPCs == {"home", "version", "sig", "check", "image"}
LoginPCs == {"login", "redirect", "vfwebqq", "setStatus", "buddies",
             "groupList", "groupWait", "members"}
PCs == {"boot", "poll", "pollWait", "checkWait", "vcWait", "vcGot",
        "loginRet", "blockedWait", "retryWait", "done"}
          \cup CheckPCs \cup LoginPCs

PollErrors  == {"need_login", "network_error", "need_refresh", "user_quit",
                "unknow_ret_code"}
LoginErrors == {"wrong_passwd", "wrong_vc", "blocked_account", "other"}
Errors == PollErrors \cup LoginErrors \cup
          {"fetch_verifycode_failed", "login_failed_other",
           "failed_to_change_status", "failed_to_fetch_buddy_list",
           "failed_to_fetch_group_list"}

VcCap == 1                 \* m_vc_queue(_io_service, 1)
MaxNetErr == 3             \* network errors after which the loop logs in
GroupListRetries == 5      \* i++ < 5
Jars == [psessionid : BOOLEAN, clientid : BOOLEAN]
EmptyJar == [psessionid |-> FALSE, clientid |-> FALSE]

\* A code answers the latest challenge, or an earlier one; a blank code asks
\* for another login attempt.
Codes == {"fresh", "stale", "blank"}
Stale(q) == [i \in DOMAIN q |-> IF q[i] = "fresh" THEN "stale" ELSE q[i]]

\* Time only matters up to GapCap seconds.
GapCap == 30
Elapse(d) == IF gap + d < GapCap THEN gap + d ELSE GapCap

-----------------------------------------------------------------------------
\* The constructor: the session of an earlier process is taken over from the
\* cookies c of the database.
Loaded(c, p, cl, st, first) ==
    /\ p = c.psessionid
    /\ cl = c.clientid
    /\ first = IF c.clientid THEN 0 ELSE 1
    /\ st = IF c.clientid THEN "ONLINE" ELSE "OFFLINE"

Init ==
    /\ jar \in {c \in Jars : c.psessionid => c.clientid}
    /\ Loaded(jar, psessionid, clientid, status, firs_start)
    /\ pc = "boot" /\ ec = "ok"
    /\ netErr = 0 /\ attempt = 0
    /\ vcq = <<>> /\ str = "blank" /\ asked = FALSE
    /\ alive = jar.psessionid
    /\ stopped = FALSE /\ gap = GapCap /\ crashes = 0

PollOrRelogin_KeepsCookies(st) ==
    \/ st = "ONLINE" /\ pc' = "poll" /\ UNCHANGED jar
    \/ st # "ONLINE" /\ pc' = "home" /\ UNCHANGED jar

\* The test of the polling loop, and the way from it to check_login: the
\* session cookies are dropped.  The status may be QUITTING here.
PollOrRelogin(st) ==
    \/ st = "ONLINE" /\ pc' = "poll" /\ UNCHANGED jar
    \/ st # "ONLINE" /\ pc' = "home" /\ jar' = EmptyJar

NextRound_NeverQuits(st) == netErr' = 0 /\ PollOrRelogin(st)

\* The head of the outer loop.
NextRound(st) ==
    \/ st = "QUITTING" /\ pc' = "done" /\ UNCHANGED <<netErr, jar>>
    \/ st # "QUITTING" /\ netErr' = 0 /\ PollOrRelogin(st)

Boot ==
    /\ pc = "boot"
    /\ NextRound(status)
    /\ UNCHANGED <<memory, codes, history, ec, firs_start, attempt, gap>>

-----------------------------------------------------------------------------
(* Polling                                                                 *)

\* retcodes 0, 102 and 116.
PollOk ==
    /\ pc = "poll"
    /\ ec' = "ok"
    /\ netErr' = IF netErr > 0 THEN netErr - 1 ELSE 0
    /\ firs_start' = 1
    /\ PollOrRelogin(status)
    /\ UNCHANGED <<memory, codes, history, attempt, gap>>

\* retcode 110 and the unknown ones: no branch of the loop handles them.
PollUnhandled ==
    /\ pc = "poll"
    /\ ec' \in {"user_quit", "unknow_ret_code"}
    /\ alive' = (alive /\ ec' # "user_quit")
    /\ firs_start' = 1
    /\ PollOrRelogin(status)
    /\ UNCHANGED <<memory, codes, stopped, crashes, netErr, attempt, gap>>

PollNeedLogin_StaysOnline ==
    /\ pc = "poll"
    /\ ec' = "need_login" /\ alive' = FALSE
    /\ pc' = "pollWait"
    /\ UNCHANGED <<memory, control, codes, stopped, crashes, jar, gap>>

PollNeedLogin ==
    /\ pc = "poll"
    /\ ec' = "need_login" /\ alive' = FALSE
    /\ status' = "OFFLINE" /\ pc' = "pollWait"
    /\ UNCHANGED <<psessionid, clientid, control, codes, stopped, crashes,
                   jar, gap>>

PollNetworkError_OffByOne ==
    /\ pc = "poll"
    /\ ec' = "network_error"
    /\ netErr' = netErr + 1
    /\ status' = IF netErr' > MaxNetErr THEN "OFFLINE" ELSE status
    /\ pc' = "pollWait"
    /\ UNCHANGED <<psessionid, clientid, firs_start, attempt, codes, history,
                   jar, gap>>

\* A failed request, or an answer that cannot be parsed.
PollNetworkError ==
    /\ pc = "poll"
    /\ ec' = "network_error"
    /\ netErr' = netErr + 1
    /\ status' = IF netErr' >= MaxNetErr THEN "OFFLINE" ELSE status
    /\ pc' = "pollWait"
    /\ UNCHANGED <<psessionid, clientid, firs_start, attempt, codes, history,
                   jar, gap>>

PollNeedRefresh ==
    /\ pc = "poll"
    /\ ec' = "need_refresh"
    /\ status' = "OFFLINE" /\ pc' = "pollWait"
    /\ UNCHANGED <<psessionid, clientid, control, codes, history, jar, gap>>

PollWaitOver_StaysFirst ==
    /\ pc = "pollWait"
    /\ gap' = Elapse(IF ec = "need_login" THEN 60 * firs_start ELSE 12)
    /\ PollOrRelogin(status)
    /\ UNCHANGED <<memory, codes, history, ec, firs_start, netErr, attempt>>

\* The timer after a failed poll; ec is still the error of the poll.
PollWaitOver ==
    /\ pc = "pollWait"
    /\ gap' = Elapse(IF ec = "need_login" THEN 60 * firs_start ELSE 12)
    /\ firs_start' = 1
    /\ PollOrRelogin(status)
    /\ UNCHANGED <<memory, codes, history, ec, netErr, attempt>>

-----------------------------------------------------------------------------
(* check_login_op.  The first three requests ignore their errors.          *)

HomeReturns ==
    /\ pc = "home" /\ pc' = "version"
    /\ UNCHANGED <<memory, control, codes, history, jar, ec, gap>>

VersionReturns_KeepsPsession ==
    /\ pc = "version" /\ pc' = "sig"
    /\ status' = "OFFLINE" /\ clientid' = FALSE
    /\ UNCHANGED <<psessionid, control, codes, history, jar, ec, gap>>

\* The session is forgotten and the status set, whatever it was.
VersionReturns ==
    /\ pc = "version" /\ pc' = "sig"
    /\ status' = "OFFLINE" /\ psessionid' = FALSE /\ clientid' = FALSE
    /\ UNCHANGED <<control, codes, history, jar, ec, gap>>

SigReturns ==
    /\ pc = "sig" /\ pc' = "check"
    /\ UNCHANGED <<memory, control, codes, history, jar, ec, gap>>

\* m_vc_queue.async_pop on a queue that holds q.
TakeVc(q) ==
    \/ q = <<>> /\ pc' = "vcWait" /\ UNCHANGED <<vcq, str>>
    \/ q # <<>> /\ pc' = "vcGot" /\ str' = Head(q) /\ vcq' = Tail(q)

\* ptui_checkVC('0', ...): the server gives the code, the loop queues it.
\* Codes the queue holds belong to an earlier challenge now.
CheckGivesVc ==
    /\ pc = "check"
    /\ ec' = "ok" /\ asked' = FALSE
    /\ TakeVc(PushBack(Stale(vcq), "fresh", VcCap))
    /\ UNCHANGED <<memory, control, history, jar, gap>>

\* ptui_checkVC('1', ...): an image has to be fetched.
CheckNeedsImage ==
    /\ pc = "check" /\ pc' = "image"
    /\ UNCHANGED <<memory, control, codes, history, jar, ec, gap>>

CheckFails ==
    /\ pc = "check" /\ pc' = "checkWait"
    /\ ec' = "login_failed_other"
    /\ UNCHANGED <<memory, control, codes, history, jar, gap>>

\* The image arrives: login_check_need_vc, m_signeedvc.  A slot of the signal
\* may call feed_vc at once, before the loop reaches async_pop.
ImageReturns ==
    /\ pc = "image"
    /\ ec' = "ok"
    /\ \/ asked' = TRUE /\ TakeVc(Stale(vcq))
       \/ /\ ~stopped /\ asked' = FALSE
          /\ \E x \in {"fresh", "blank"} :
                TakeVc(PushBack(Stale(vcq), x, VcCap))
    /\ UNCHANGED <<memory, control, history, jar, gap>>

ImageFails_Signalled ==
    /\ pc = "image" /\ pc' = "checkWait"
    /\ ec' = "fetch_verifycode_failed" /\ asked' = TRUE
    /\ UNCHANGED <<memory, control, vcq, str, history, jar, gap>>

ImageFails ==
    /\ pc = "image" /\ pc' = "checkWait"
    /\ ec' = "fetch_verifycode_failed"
    /\ UNCHANGED <<memory, control, codes, history, jar, gap>>

\* do { } while (ec): check_login again, with no look at the status.
CheckWaitOver ==
    /\ pc = "checkWait" /\ pc' = "home"
    /\ gap' = Elapse(300)
    /\ UNCHANGED <<memory, control, codes, history, jar, ec>>

\* The loop has a code: log in with it, or start over for a blank one.
VcArrives ==
    /\ pc = "vcGot"
    /\ \/ str # "blank" /\ pc' = "login" /\ gap' = 0
          /\ UNCHANGED <<netErr, jar>>
       \/ str = "blank" /\ NextRound(status) /\ UNCHANGED gap
    /\ UNCHANGED <<memory, firs_start, attempt, codes, history, ec>>

-----------------------------------------------------------------------------
(* login_vc_op                                                             *)

\* The handler of async_login is posted with the error e.
ReturnFromLogin(e) == pc' = "loginRet" /\ ec' = e

LoginAccepted ==
    /\ pc = "login" /\ pc' = "redirect"
    /\ ec' = "ok" /\ status' = "ONLINE"
    /\ UNCHANGED <<psessionid, clientid, control, codes, history, jar, gap>>

\* A failure leaves the status alone: it assigns a local of that name.
LoginRefused ==
    /\ pc = "login"
    /\ \E e \in LoginErrors : ReturnFromLogin(e)
    /\ UNCHANGED <<memory, control, codes, history, jar, gap>>

\* One or two redirects, whose errors are ignored; then a client id is made
\* and saved.
RedirectReturns ==
    /\ pc = "redirect" /\ pc' = "vfwebqq"
    /\ clientid' = TRUE
    /\ jar' = [jar EXCEPT !.clientid = clientid => @]
    /\ UNCHANGED <<status, psessionid, control, codes, history, ec, gap>>

\* Its error is ignored; its success sets the status.
VfwebqqReturns ==
    /\ pc = "vfwebqq" /\ pc' = "setStatus"
    /\ \/ ec' = "ok" /\ status' = "ONLINE"
       \/ ec' = "failed_to_change_status" /\ UNCHANGED status
    /\ UNCHANGED <<psessionid, clientid, control, codes, history, jar, gap>>

SetStatusOk ==
    /\ pc = "setStatus" /\ pc' = "buddies"
    /\ ec' = "ok" /\ status' = "ONLINE" /\ psessionid' = TRUE
    /\ jar' = [jar EXCEPT !.psessionid = TRUE]
    /\ alive' = TRUE
    /\ UNCHANGED <<clientid, control, codes, stopped, crashes, gap>>

SetStatusFails_GoesOn ==
    /\ pc = "setStatus" /\ pc' = "buddies"
    /\ ec' = "failed_to_change_status"
    /\ UNCHANGED <<memory, control, codes, history, jar, gap>>

\* The request fails or is refused; or its answer has a psessionid and then
\* lacks a field, so that m_psessionid is set before the parser throws.
SetStatusFails ==
    /\ pc = "setStatus"
    /\ ReturnFromLogin("failed_to_change_status")
    /\ \/ UNCHANGED <<psessionid, alive>>
       \/ psessionid' = TRUE /\ alive' \in BOOLEAN
    /\ UNCHANGED <<status, clientid, control, codes, stopped, crashes, jar,
                   gap>>

\* The result only counts when no groups are fetched.
BuddiesReturn ==
    /\ pc = "buddies"
    /\ \E e \in {"ok", "failed_to_fetch_buddy_list"} :
          \/ FetchGroups /\ pc' = "groupList" /\ ec' = e /\ attempt' = 0
          \/ ~FetchGroups /\ ReturnFromLogin(e) /\ UNCHANGED attempt
    /\ UNCHANGED <<memory, firs_start, netErr, codes, history, jar, gap>>

GroupListOk ==
    /\ pc = "groupList" /\ pc' = "members"
    /\ ec' = "ok"
    /\ UNCHANGED <<memory, control, codes, history, jar, gap>>

GroupListFails ==
    /\ pc = "groupList" /\ pc' = "groupWait"
    /\ ec' = "failed_to_fetch_group_list"
    /\ UNCHANGED <<memory, control, codes, history, jar, gap>>

GroupWaitOver ==
    /\ pc = "groupWait"
    /\ gap' = Elapse(attempt * 20 + 50)
    /\ \/ attempt < GroupListRetries /\ attempt' = attempt + 1
          /\ pc' = "groupList" /\ UNCHANGED ec
       \/ attempt >= GroupListRetries /\ ReturnFromLogin(ec)
          /\ UNCHANGED attempt
    /\ UNCHANGED <<memory, firs_start, netErr, codes, history, jar>>

\* The members of every group were refreshed by the group refresh loop.
MembersReturn ==
    /\ pc = "members"
    /\ ReturnFromLogin("ok")
    /\ UNCHANGED <<memory, control, codes, history, jar, gap>>

-----------------------------------------------------------------------------
(* The main loop again: what it does with the result of the login.         *)

\* siglogined; a slot that destroys the webqq object is a Stop before this.
LoginSucceeded ==
    /\ pc = "loginRet" /\ ec = "ok"
    /\ NextRound(status)
    /\ UNCHANGED <<memory, codes, history, ec, firs_start, attempt, gap>>

LoginWrongPasswd_NotQuitting ==
    /\ pc = "loginRet" /\ ec = "wrong_passwd"
    /\ pc' = "done"
    /\ UNCHANGED <<memory, control, codes, history, jar, ec, gap>>

LoginWrongPasswd ==
    /\ pc = "loginRet" /\ ec = "wrong_passwd"
    /\ status' = "QUITTING" /\ pc' = "done"
    /\ UNCHANGED <<psessionid, clientid, control, codes, history, jar, ec,
                   gap>>

LoginFailed ==
    /\ pc = "loginRet" /\ ec \notin {"ok", "wrong_passwd"}
    /\ pc' = IF ec = "blocked_account" THEN "blockedWait" ELSE "retryWait"
    /\ UNCHANGED <<memory, control, codes, history, jar, ec, gap>>

BlockedWaitOver ==
    /\ pc = "blockedWait" /\ pc' = "retryWait"
    /\ gap' = Elapse(300)
    /\ UNCHANGED <<memory, control, codes, history, jar, ec>>

RetryWaitOver ==
    /\ pc = "retryWait"
    /\ gap' = Elapse(30)
    /\ NextRound(status)
    /\ UNCHANGED <<memory, codes, history, ec, firs_start, attempt>>

-----------------------------------------------------------------------------
(* The calls of the application, and crashes.                              *)

\* feed_vc: the waiting loop gets the code, or the queue keeps it.
Feed ==
    /\ ~stopped
    /\ Disciplined => asked
    /\ asked' = FALSE
    /\ \E x \in {IF asked THEN "fresh" ELSE "stale", "blank"} :
          \/ pc = "vcWait" /\ pc' = "vcGot" /\ str' = x /\ UNCHANGED vcq
          \/ /\ pc # "vcWait" /\ vcq' = PushBack(vcq, x, VcCap)
             /\ UNCHANGED <<pc, str>>
    /\ UNCHANGED <<memory, control, history, jar, ec, gap>>

\* ~webqq: m_vc_queue is not cancelled, the loop is not woken.
Stop ==
    /\ ~stopped /\ stopped' = TRUE
    /\ status' = "QUITTING"
    /\ UNCHANGED <<psessionid, clientid, control, codes, alive, crashes, jar,
                   pc, ec, gap>>

\* The process dies and another one starts, from the database that is left
\* (none is when it was kept in memory).
Restart ==
    /\ crashes < MaxCrashes /\ crashes' = crashes + 1
    /\ jar' \in {jar, EmptyJar}
    /\ Loaded(jar', psessionid', clientid', status', firs_start')
    /\ pc' = "boot" /\ ec' = "ok"
    /\ netErr' = 0 /\ attempt' = 0
    /\ vcq' = <<>> /\ str' = "blank" /\ asked' = FALSE
    /\ stopped' = FALSE /\ gap' = GapCap
    /\ UNCHANGED alive

\* The steps of the loop itself: each is an answer or a timer that comes.
PollReturns == \/ PollOk \/ PollUnhandled \/ PollNeedLogin
               \/ PollNetworkError \/ PollNeedRefresh
CheckLogin == \/ HomeReturns \/ VersionReturns \/ SigReturns
              \/ CheckGivesVc \/ CheckNeedsImage \/ CheckFails
              \/ ImageReturns \/ ImageFails
Login == \/ LoginAccepted \/ LoginRefused \/ RedirectReturns
         \/ VfwebqqReturns \/ SetStatusOk \/ SetStatusFails
         \/ BuddiesReturn \/ GroupListOk \/ GroupListFails
LoginResult == LoginSucceeded \/ LoginWrongPasswd \/ LoginFailed
Timers == \/ PollWaitOver \/ CheckWaitOver \/ GroupWaitOver
          \/ BlockedWaitOver \/ RetryWaitOver
Loop == \/ Boot \/ PollReturns \/ CheckLogin \/ VcArrives \/ Login
        \/ LoginResult \/ Timers

Next == Loop \/ MembersReturn \/ Feed \/ Stop \/ Restart

Spec == Init /\ [][Next]_vars

-----------------------------------------------------------------------------
(* Every request ends with some answer or error and every timer fires.  A   *)
(* poll that meets a message of a new member, and the refresh of the         *)
(* members after a login, also wait for the group refresh loop, which stop() *)
(* cancels: they are only owed while the webqq object exists.                *)
CodeFairness == /\ WF_vars(Loop /\ (pc = "poll" => ~stopped))
                /\ WF_vars(MembersReturn /\ ~stopped)

FairSpec == Spec /\ CodeFairness

(* The service is not broken forever: a request made again and again is     *)
(* once answered as it should be, a session that ended is once reported,    *)
(* and the application once answers a challenge.                            *)
HonestService ==
    /\ SF_vars(PollNeedLogin /\ ~(psessionid /\ alive))
    /\ SF_vars(CheckGivesVc \/ CheckNeedsImage)
    /\ SF_vars(ImageReturns /\ (asked' \/ str' # "blank"))
    /\ SF_vars(Feed /\ pc = "vcWait" /\ str' # "blank")
    /\ SF_vars(LoginAccepted)
    /\ SF_vars(SetStatusOk)
    /\ SF_vars(GroupListOk)

LiveSpec == FairSpec /\ HonestService
=============================================================================
