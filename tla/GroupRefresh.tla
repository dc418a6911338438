----------------------------- MODULE GroupRefresh -----------------------------
(***************************************************************************)
(* The group refresh loop (group_refresh_loop_op): the coroutine that      *)
(* takes commands from m_group_refresh_queue and asks the service for the  *)
(* members of a group, or for the whole group list, and then calls back.   *)
(* The main loop is the caller that waits for such a callback, during a    *)
(* login and when a message comes from an unknown member; module Session   *)
(* assumes that it comes.                                                  *)
(*                                                                         *)
(* A value of rpc is the yield at which the coroutine is suspended:        *)
(*   pop       async_pop, with nothing in the queue                        *)
(*   got       a popped command is on its way to the coroutine             *)
(*   throttle  the timer before a full refresh                             *)
(*   list      update_group_list     members  update_group_member          *)
(*   done      the coroutine has returned                                  *)
(*   crashed   the process died of a null pointer                          *)
(*                                                                         *)
(* Time is the sum of the timers and of the pauses between two commands;   *)
(* what requests take is not counted.                                      *)
(***************************************************************************)
EXTENDS Integers, Sequences

CONSTANTS
    Gids,     \* group ids
    All,      \* the empty gid: a command for a full refresh
    AppGids,  \* what the application asks for, of all these
    Pauses,   \* seconds between the end of a command and the next one
    MaxQueue  \* bound: as long as the queue is shorter, the application may add
              \* to it

ASSUME GidsAssumption == All \notin Gids
ASSUME AppGidsAssumption == AppGids \subseteq Gids \cup {All}
ASSUME PausesAssumption == Pauses \subseteq Nat
ASSUME MaxQueueAssumption == MaxQueue \in Nat

VARIABLES
    rq,        \* m_group_refresh_queue
    rpc,       \* where the coroutine is suspended
    v,         \* v: the command it holds
    synced,    \* m_last_sync was assigned in the copy that runs
    wait,      \* the seconds of the throttle timer
    groups,    \* the gids in the table of groups
    main,      \* the main loop: it runs, waits for its callback, or is done
    quitting,  \* m_status is QUITTING
    stopped,   \* stop() was called
    since      \* history: seconds of timers and pauses since the last full
               \* refresh ended, in this process or an earlier one, capped

loop == <<rq, rpc, v>>
time == <<synced, wait, since>>
env  == <<groups, main, quitting, stopped>>
vars == <<loop, time, env>>

\* cb: the callback is the one the main loop waits for.
Command == [cb : BOOLEAN, gid : Gids \cup {All}]

\* The service locks out accounts that ask for the list more often.
Spacing == 1800
Capped(t) == IF t > Spacing THEN Spacing ELSE t

Minutes(d) == (d \div 60) % 60
Seconds(d) == d % 60

Wait_WholeDuration(d) == IF Minutes(d) <= 30 THEN Spacing - d ELSE 0

Wait_Swapped(d) == IF Seconds(d) <= 30 THEN Spacing - Minutes(d) ELSE 0

\* The timer before a full refresh, d seconds after the last command: the
\* code adds up the components of the duration, not its length.  0: no timer.
Wait(d) == IF Minutes(d) <= 30 THEN Spacing - Seconds(d) ELSE 0

\* async_pop copies the coroutine before m_last_sync is assigned, so that the
\* first command subtracts not_a_date_time, whose ticks (2^63 - 2 microseconds)
\* have 0 minutes and 54 seconds.
FirstWait == Spacing - 54

-----------------------------------------------------------------------------
Init == /\ rq = <<>> /\ rpc = "pop" /\ v = [cb |-> FALSE, gid |-> All]
        /\ synced = FALSE /\ wait = 0 /\ since = Spacing
        /\ groups \in SUBSET Gids /\ main = "running"
        /\ quitting = FALSE /\ stopped = FALSE

\* A waiting coroutine gets the command, or the queue keeps it.
Push(c) == \/ rpc = "pop" /\ rpc' = "got" /\ v' = c /\ UNCHANGED rq
           \/ rpc # "pop" /\ rq' = Append(rq, c) /\ UNCHANGED <<rpc, v>>

\* async_pop when the queue is q.
Pop(q) == \/ q = <<>> /\ rpc' = "pop" /\ rq' = q /\ UNCHANGED v
          \/ q # <<>> /\ rpc' = "got" /\ v' = Head(q) /\ rq' = Tail(q)

\* The main loop asks for the members of a group and waits.  A login walks
\* m_groups, which keeps ids that the table of groups lost.
Request == /\ rpc # "crashed" /\ main = "running" /\ main' = "waiting"
           /\ \E g \in Gids : Push([cb |-> TRUE, gid |-> g])
           /\ UNCHANGED <<time, groups, quitting, stopped>>

\* webqq::update_group_member with a group the application holds: of any age,
\* or one that search_group made, which has no gid.
AppRequest == /\ rpc # "crashed" /\ ~stopped
              /\ rpc = "pop" \/ Len(rq) < MaxQueue
              /\ \E g \in AppGids : Push([cb |-> FALSE, gid |-> g])
              /\ UNCHANGED <<time, env>>

\* The coroutine is resumed with a command: QUITTING ends it, a full refresh
\* waits for its time, and a group that is not in the table is a null pointer.
CommandTaken ==
    /\ rpc = "got"
    /\ \/ quitting /\ rpc' = "done" /\ UNCHANGED time
       \/ /\ ~quitting /\ v.gid = All
          /\ \E d \in Pauses :
                /\ wait' = IF synced THEN Wait(d) ELSE FirstWait
                /\ since' = Capped(since + d)
          /\ rpc' = IF wait' = 0 THEN "list" ELSE "throttle"
          /\ UNCHANGED synced
       \/ /\ ~quitting /\ v.gid # All
          /\ rpc' = IF v.gid \in groups THEN "members" ELSE "crashed"
          /\ UNCHANGED time
    /\ UNCHANGED <<rq, v, env>>

ThrottleOver == /\ rpc = "throttle" /\ rpc' = "list"
                /\ since' = Capped(since + wait)
                /\ UNCHANGED <<rq, v, synced, wait, env>>

\* The caller of the command in hand is called.
CallBack == main' = IF v.cb THEN "running" ELSE main

ListReturns_RetriesFirst ==
    /\ rpc = "list" /\ groups' \in SUBSET Gids
    /\ Pop(rq) \/ Pop(<<v>> \o rq)
    /\ CallBack
    /\ synced' = TRUE /\ since' = 0
    /\ UNCHANGED <<wait, quitting, stopped>>

\* The group list came or not; what it changed in the table is not decided
\* by that.  A command that failed is queued again, and called back all the
\* same.
ListReturns ==
    /\ rpc = "list" /\ groups' \in SUBSET Gids
    /\ Pop(rq) \/ Pop(Append(rq, v))
    /\ CallBack
    /\ synced' = TRUE /\ since' = 0
    /\ UNCHANGED <<wait, quitting, stopped>>

MembersReturn_Requeues ==
    /\ rpc = "members"
    /\ (Pop(rq) \/ Pop(Append(rq, v))) /\ CallBack
    /\ synced' = TRUE
    /\ UNCHANGED <<wait, since, groups, quitting, stopped>>

\* The members came or not: update_group_member_op never reports an error.
MembersReturn ==
    /\ rpc = "members"
    /\ Pop(rq) /\ CallBack
    /\ synced' = TRUE
    /\ UNCHANGED <<wait, since, groups, quitting, stopped>>

\* The main loop goes on.  In a login it asks for the list itself, and it
\* writes over a QUITTING that came meanwhile.
Relogin == /\ rpc # "crashed" /\ main = "running"
           /\ groups' \in SUBSET Gids /\ quitting' \in {quitting, FALSE}
           /\ UNCHANGED <<loop, time, main, stopped>>

\* The main loop returns: it was stopped, or the password is wrong.
MainReturns == /\ rpc # "crashed" /\ main = "running" /\ main' = "done"
               /\ quitting' = TRUE
               /\ UNCHANGED <<loop, time, groups, stopped>>

\* m_group_refresh_queue.cancele() ends a coroutine that waits in async_pop,
\* and no other.
Stop == /\ rpc # "crashed" /\ ~stopped /\ stopped' = TRUE /\ quitting' = TRUE
        /\ rpc' = IF rpc = "pop" THEN "done" ELSE rpc
        /\ UNCHANGED <<rq, v, time, groups, main>>

\* The process dies, here or elsewhere, and another one starts: with an empty
\* queue, with the table that the database kept or with none, and without
\* m_last_sync.  A refresh that was under way ends with its process.
Restart ==
    /\ rq' = <<>> /\ rpc' = "pop" /\ v' = [cb |-> FALSE, gid |-> All]
    /\ synced' = FALSE /\ wait' = 0 /\ groups' \in {groups, {}}
    /\ since' = IF rpc = "list" THEN 0 ELSE since
    /\ main' = "running" /\ quitting' = FALSE /\ stopped' = FALSE

Loop == CommandTaken \/ ThrottleOver \/ ListReturns \/ MembersReturn

Next == \/ Request \/ AppRequest \/ Loop \/ Relogin \/ MainReturns \/ Stop
        \/ Restart

Spec == Init /\ [][Next]_vars

\* Every request ends with an answer or an error, and every timer fires.
FairSpec == Spec /\ WF_vars(Loop)

-----------------------------------------------------------------------------
InHand   == IF rpc \in {"got", "throttle", "list", "members"} THEN <<v>> ELSE <<>>
Commands == InHand \o rq
OwedOnes == {k \in DOMAIN Commands : Commands[k].cb}

\* The variables have their types.
TypeOK ==
    /\ rq \in Seq(Command) /\ v \in Command
    /\ rpc \in {"pop", "got", "throttle", "list", "members", "done", "crashed"}
    /\ synced \in BOOLEAN /\ wait \in 0..Spacing /\ since \in 0..Spacing
    /\ groups \in SUBSET Gids /\ main \in {"running", "waiting", "done"}
    /\ quitting \in BOOLEAN /\ stopped \in BOOLEAN

\* The main loop is a coroutine that is called back at the place where it
\* waits: it is owed exactly one callback while it waits and none otherwise,
\* through queued commands, failed refreshes that are queued again, and
\* relogins.  A second callback would resume it where it does not wait, and
\* a callback owed to a dead process never reaches the next one.
CalledBackOnce ==
    rpc \notin {"done", "crashed"} =>
        IF main = "waiting" THEN \E k \in DOMAIN Commands : OwedOnes = {k}
                            ELSE OwedOnes = {}

\* "At least 30 minutes of sleep before the next one, or the service locks
\* the account out" (webqq_loop.cpp:286): that much lies between the end of
\* a full refresh and the next one of this loop, whatever commands, failures
\* and relogins come between, although minutes and seconds are mere
\* components of the elapsed time.  A crash loses the time of the last
\* refresh, and the first one of a process still comes 1746 seconds after
\* the last one of the process before it.
FullSpaced ==
    rpc = "list" => since >= IF synced THEN Spacing ELSE FirstWait

\* A main loop that waits for the members of a group goes on, however often
\* the full refreshes of others fail: unless the object was stopped or the
\* group is unknown and the process dies.
Served == main = "waiting" ~> main # "waiting" \/ stopped \/ rpc = "crashed"
=============================================================================
