-------------------------- MODULE SessionProperties --------------------------
(***************************************************************************)
(* What makes the main loop (module Session) correct, and what the comments *)
(* and the README of libwebqq say of it that the code does not do.          *)
(***************************************************************************)
EXTENDS Session

\* The variables have their types.  In particular the network error counter
\* never passes 3: the third error in a row ends the polling loop.
TypeOK ==
    /\ status \in Status
    /\ psessionid \in BOOLEAN /\ clientid \in BOOLEAN
    /\ jar \in Jars
    /\ pc \in PCs
    /\ ec \in Errors \cup {"ok"}
    /\ firs_start \in 0..1
    /\ netErr \in 0..MaxNetErr
    /\ vcq \in Seq(Codes) /\ Len(vcq) <= VcCap
    /\ str \in Codes
    /\ attempt \in 0..GroupListRetries
    /\ stopped \in BOOLEAN /\ asked \in BOOLEAN /\ alive \in BOOLEAN
    /\ gap \in 0..GapCap
    /\ crashes \in 0..MaxCrashes

-----------------------------------------------------------------------------
(* Safety                                                                  *)

Relogging == CheckPCs \cup {"checkWait", "vcWait", "vcGot", "login",
                            "redirect", "vfwebqq", "setStatus"}

\* Whenever the process dies, the next one resumes a session only if this one
\* still held it: the database never has a psessionid that the loop gave up
\* (dropped before the first request of a new login) or never had, and never
\* a psessionid without the client id it was made for.
JarNeverAhead ==
    /\ jar.psessionid => psessionid /\ clientid /\ jar.clientid
    /\ jar.clientid => clientid
    /\ pc \in Relogging => ~jar.psessionid

\* The loop returns only when somebody asked for it: stop() was called or the
\* server refused the password.  No series of errors ends the polling, and a
\* returned loop has left QUITTING for the other loops to see.
DoneMeansQuitting ==
    pc = "done" => /\ status = "QUITTING"
                   /\ stopped \/ ec = "wrong_passwd"

\* An application that calls feed_vc once per challenge, as webqq.hpp says,
\* never has an answer to an old challenge sent with a new login, whatever
\* failures, retries, blank codes and restarts come between.
VcFresh == Disciplined /\ pc = "login" => str = "fresh"

\* When on_logined is signalled the session is complete: there is a psession
\* id and a client id, both are in the database, so that a crash right after
\* the signal does not cost the login; and the account is ONLINE unless the
\* object was destroyed meanwhile.
LoginMeansSession ==
    pc = "loginRet" /\ ec = "ok" =>
        /\ psessionid /\ clientid
        /\ jar = [psessionid |-> TRUE, clientid |-> TRUE]
        /\ status = "ONLINE" \/ stopped

\* Between two login requests of a process at least 12 seconds of timers
\* pass, however the errors of polling, check_login and login combine: the
\* server locks out accounts that log in too fast.  The one login that
\* follows a failed attempt to use cached cookies comes at once.
LoginsSpaced ==
    [][pc # "login" /\ pc' = "login" /\ ~stopped => gap >= 12]_vars

-----------------------------------------------------------------------------
(* The inductive invariant behind the safety properties                    *)

\* QUITTING has a cause, and a loop that returned saw it.
QuitInv ==
    /\ status = "QUITTING" =>
          stopped \/ (pc = "done" /\ ec = "wrong_passwd")
    /\ pc = "done" => status = "QUITTING"

\* The loop polls only after fewer than three network errors: the third one
\* leaves a status that is not ONLINE, and the counter starts again at 0.
NetErrInv ==
    /\ pc = "poll" => netErr < MaxNetErr
    /\ pc = "pollWait" /\ status = "ONLINE" => netErr < MaxNetErr

\* While a login is under way there is no psession id, and before the redirect
\* no client id either; the database agrees, from the first request on.
ReloginInv ==
    /\ jar.psessionid => psessionid /\ clientid /\ jar.clientid
    /\ jar.clientid => clientid
    /\ pc \in Relogging \ {"vfwebqq", "setStatus"} => jar = EmptyJar
    /\ pc \in Relogging \ {"home", "version"} => ~psessionid /\ ~jar.psessionid
    /\ pc \in Relogging \ {"home", "version", "checkWait", "vfwebqq",
                           "setStatus"} => ~clientid
    /\ pc \in {"vfwebqq", "setStatus"} => clientid /\ jar.clientid

\* From the answer that carries the psession id to the end of the login the
\* session is complete.
CompleteInv ==
    \/ pc \in {"buddies", "groupList", "groupWait", "members"}
    \/ pc = "loginRet" /\ ec = "ok"
  => /\ psessionid /\ clientid
     /\ jar = [psessionid |-> TRUE, clientid |-> TRUE]
     /\ status = "ONLINE" \/ stopped

\* A disciplined application owes an answer only while the loop waits for it,
\* so that the queue is never used and no code is old.
CodeInv ==
    Disciplined =>
        /\ vcq = <<>>
        /\ asked => pc = "vcWait"
        /\ pc = "vcGot" => str # "stale"
        /\ pc = "login" => str = "fresh"

\* Unless stopped, the loop polls only while ONLINE, and every way to
\* check_login leads over enough seconds of timers, or is the first.
GapInv ==
    /\ pc = "boot" \/ firs_start = 0 => gap = GapCap
    /\ firs_start = 0 => pc \in {"boot", "poll", "pollWait", "done"}
    /\ firs_start = 0 /\ pc = "boot" => status # "OFFLINE"
    /\ ~stopped /\ pc = "poll" => status = "ONLINE"
    /\ ~stopped /\ pc \in CheckPCs \cup {"checkWait", "vcWait", "vcGot"}
          => gap >= 12

\* Together with the types: closed under every step of the loop.
IInv == /\ TypeOK /\ NetErrInv /\ QuitInv /\ ReloginInv /\ CompleteInv
        /\ CodeInv /\ GapInv

P == INSTANCE Presence

\* The other loops may rely on Presence: a psession id is never replaced in
\* place, and a session that was left is never taken up again under its id.
PresenceSpec == P!Spec

-----------------------------------------------------------------------------
(* Liveness                                                                *)

Connected == pc = "poll" /\ psessionid /\ alive

\* The account is reconnected automatically: if the service is not broken
\* forever, then from any state, after any errors and restarts, the loop
\* polls again in a session the server honours, unless the application
\* stopped it or the password is wrong.
Recovery == []<>(Connected \/ stopped \/ pc = "done")

\* Where nothing can overwrite QUITTING before the loop looks at it, a stop is
\* honoured: the loop returns.  Elsewhere it may not (see StopEndsLoops of
\* module WebQQ).
StopHonoured ==
    status = "QUITTING" /\ pc \in {"boot", "loginRet", "blockedWait",
                                   "retryWait"}
        ~> pc = "done" \/ ~stopped

-----------------------------------------------------------------------------
(* What is said of the program and is not so                               *)

\* webqq_login.hpp:254: without the group list the login has failed; and
\* webqq_loop.cpp:222: it is retried after 30s.  But the status stays ONLINE,
\* and the loop goes back to polling instead.
FailedLoginRetried ==
    [][pc = "retryWait" /\ pc' # pc /\ crashes' = crashes
          => pc' \in {"home", "done"}]_vars
=============================================================================
