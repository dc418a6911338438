-------------------------------- MODULE WebQQ --------------------------------
(***************************************************************************)
(* The WebQQ object: the main loop (Session), the message sender (Sender), *)
(* the group refresh loop (GroupRefresh) and the keep-alive loop run in    *)
(* one thread.  They share m_status, m_psessionid, the table of groups and *)
(* the call of stop(); the main loop waits for a callback of the refresh   *)
(* loop when it meets a message of an unknown member and for every group   *)
(* of a login.  A step of the system is a step of one of them, or stop()   *)
(* or a crash, which all of them see.                                      *)
(*                                                                         *)
(* The keep-alive does one thing that the others can see: it looks at the  *)
(* status whenever its request has ended, and returns (kpc) on QUITTING.   *)
(***************************************************************************)
EXTENDS Integers, Sequences, Functions

CONSTANTS FetchGroups, Disciplined, MaxCrashes,  \* see Session
          QueueCap, MaxMsgs,                     \* see Sender
          Gids, All, AppGids, Pauses, MaxQueue   \* see GroupRefresh

ASSUME MainAssumption == /\ FetchGroups \in BOOLEAN /\ Disciplined \in BOOLEAN
                         /\ MaxCrashes \in Nat
ASSUME SenderAssumption == QueueCap \in Nat \ {0} /\ MaxMsgs \in Nat
ASSUME RefreshAssumption == /\ All \notin Gids /\ AppGids \subseteq Gids \cup {All}
                            /\ Pauses \subseteq Nat /\ MaxQueue \in Nat

VARIABLES
    status, psessionid, stopped, crashes,             \* shared
    clientid, jar, pc, ec, firs_start, netErr,        \* the main loop
    vcq, str, attempt, asked, alive, gap,
    waiting,                 \* the main loop waits for the refresh loop
    sendq, spc, started, hand, sent, called, lost, nextId,  \* the sender
    rq, rpc, v, synced, wait, groups, since,          \* the refresh loop
    kpc                      \* the keep-alive: "running" or "done"

shared  == <<status, psessionid, crashes>>
main    == <<clientid, jar, pc, ec, firs_start, netErr, vcq, str, attempt,
             asked, alive, gap>>
sender  == <<sendq, spc, started, hand, sent, called, lost, nextId>>
refresh == <<rq, rpc, v, synced, wait, since>>
vars    == <<shared, stopped, main, waiting, sender, refresh, groups, kpc>>

Main == INSTANCE Session
Sndr == INSTANCE Sender

\* What the refresh loop sees of the main loop.
Rfr == INSTANCE GroupRefresh WITH
           main <- IF pc = "done" THEN "done"
                   ELSE IF waiting THEN "waiting" ELSE "running",
           quitting <- status = "QUITTING"

Init == /\ Main!Init /\ Sndr!Idle /\ waiting = FALSE /\ kpc = "running"
        /\ rq = <<>> /\ rpc = "pop" /\ v = [cb |-> FALSE, gid |-> All]
        /\ synced = FALSE /\ wait = 0 /\ since = Rfr!Spacing
        /\ groups \in SUBSET Gids

\* The process lives.
Up == rpc # "crashed"

\* The main loop itself.  The answer with the group list changes the table.
MainLoop == /\ Main!Loop \/ Main!MembersReturn
            /\ IF pc = "groupList" THEN groups' \in SUBSET Gids
                                   ELSE UNCHANGED groups

MainStep_DoesNotWait ==
    /\ Up
    /\ MainLoop \/ (Main!Feed /\ UNCHANGED groups)
    /\ UNCHANGED <<waiting, sender, refresh, kpc>>

\* A main loop that waits for its callback does nothing else; feed_vc may come.
MainStep == /\ Up
            /\ \/ ~waiting /\ MainLoop
               \/ Main!Feed /\ UNCHANGED groups
            /\ UNCHANGED <<waiting, sender, refresh, kpc>>

\* The login asks for the members of the next group of m_groups; the walk over
\* the messages asks for those of a group it has just found in the table.
MemberRequest ==
    /\ Up /\ ~waiting /\ waiting' = TRUE
    /\ \E g \in Gids :
          /\ \/ pc = "members"
             \/ pc = "poll" /\ g \in groups
          /\ Rfr!Push([cb |-> TRUE, gid |-> g])
    /\ UNCHANGED <<shared, stopped, main, sender, synced, wait, since, groups,
                   kpc>>

SenderStep == /\ Up
              /\ Sndr!Loop \/ Sndr!SendGroupMessage
              /\ UNCHANGED <<main, waiting, refresh, groups, kpc>>

\* The refresh loop runs, or update_group_member() gives it work.  Whether the
\* main loop is called back is decided there.
RefreshStep ==
    /\ UNCHANGED <<shared, main, sender, kpc>>
    /\ waiting' \in BOOLEAN
    /\ Rfr!Loop \/ Rfr!AppRequest

\* The request of the keep-alive ends and finds QUITTING.  Otherwise it is
\* made again after 20s, and again.
KeepAlive ==
    /\ Up
    /\ kpc = "running" /\ status = "QUITTING" /\ kpc' = "done"
    /\ UNCHANGED <<shared, stopped, main, waiting, sender, refresh, groups>>

\* stop() cancels two of the queues and sets the status.
Stop == /\ UNCHANGED <<waiting, kpc>>
        /\ Main!Stop /\ Sndr!Cancelled /\ Rfr!Stop

Restart == /\ Main!Restart /\ Sndr!Fresh /\ waiting' = FALSE /\ Rfr!Restart
           /\ kpc' = "running"

Next == \/ MainStep \/ MemberRequest \/ SenderStep \/ RefreshStep \/ KeepAlive
        \/ Stop \/ Restart

Spec == Init /\ [][Next]_vars

\* Every request ends and every timer fires; the walk over the groups of a
\* login, or over the messages of an answer, has an end.
FairSpec ==
    /\ Spec
    /\ WF_vars(MainStep /\ Main!Loop) /\ SF_vars(MainStep /\ Main!PollReturns)
    /\ SF_vars(MainStep /\ Main!MembersReturn)
    /\ WF_vars(SenderStep /\ Sndr!Loop)
    /\ WF_vars(RefreshStep /\ Rfr!Loop)
    /\ WF_vars(KeepAlive)

\* What decides how a state goes on, for TLC: no guard asks for a history
\* variable, what a loop holds is only read where it is resumed with it, and
\* the database only by a process that starts.
\* With pauses of at most 30 minutes the throttle timer is always set, so that
\* synced decides nothing either.  No property that is checked with this view
\* asks a step for more.
Visible == <<shared, stopped, clientid,
             IF crashes < MaxCrashes THEN jar ELSE Main!EmptyJar,
             pc, firs_start, netErr, vcq,
             IF pc \in {"pollWait", "groupWait", "loginRet"} THEN ec ELSE "ok",
             IF pc = "vcGot" THEN str ELSE "blank",
             IF pc \in {"groupList", "groupWait"} THEN attempt ELSE 0,
             asked, waiting,
             sendq, spc, started, nextId,
             IF spc \in {"got", "waitLogin", "sending"} THEN hand ELSE 0,
             rq, rpc, Rfr!InHand, groups, kpc>>

-----------------------------------------------------------------------------
\* The main loop keeps the promises the sender was checked under: seen from
\* the sender, it does nothing that Presence does not allow.
SenderSpec == Sndr!Spec

\* The refresh loop inside the object is the one that GroupRefresh describes:
\* the main loop asks for one refresh at a time, does nothing while it waits
\* (in a poll as well as in a login), and stop(), relogins and restarts reach
\* the loop only as described there.
RefreshSpec == Rfr!Spec

\* Between the moment a login attempt forgets the session and the moment the
\* server accepts the password, no message leaves, whatever the sender was
\* doing when the session went: there is a psession id, or at least the client
\* id or the redirect of an accepted login.
NothingSentWhileLoggedOut ==
    [][sent' # sent /\ sent' # <<>> =>
          psessionid \/ clientid \/ pc = "redirect"]_vars

-----------------------------------------------------------------------------
(* What is said of the program and is not so                               *)

\* See Sender: with the real main loop the message leaves during a new login.
SendHasSession == Sndr!SendHasSession

\* README.md:38-40: the webqq object may go at any time, and the loops can
\* exit then.  But the wait for a verification code is not cancelled; a stop
\* during a poll, check_login or a login is written over by its result; a
\* sender that waits for the login never looks at the status again; and a
\* sender or refresh loop that comes to async_pop after stop() stays there,
\* the main loop perhaps with it.
StopEndsLoops ==
    stopped ~> \/ pc = "done" /\ spc = "done" /\ rpc = "done" /\ kpc = "done"
               \/ ~stopped \/ ~Up
=============================================================================
