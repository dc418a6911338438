------------------------------- MODULE Sender -------------------------------
(***************************************************************************)
(* The group message sender (group_message_sender_op): the coroutine that  *)
(* takes messages from m_group_message_queue and posts them one by one.    *)
(* It reads m_status and m_psessionid, which the main loop writes between  *)
(* its steps: here any behaviour of Presence may happen to them, and       *)
(* module WebQQ puts the real main loop in its place.                      *)
(*                                                                         *)
(* A value of spc is the yield at which the coroutine is suspended:        *)
(*   pop        async_pop, with nothing in the queue                       *)
(*   got        a popped message is on its way to the coroutine            *)
(*   waitLogin  the 20s timer        sending  the POST of the message      *)
(*   pause      the 400ms timer      done     the coroutine has returned   *)
(*                                                                         *)
(* A message is the number of the call of send_group_message that made it. *)
(* X_Y is the definition X with the plausible bug Y (see PROJECT.json).    *)
(***************************************************************************)
EXTENDS Integers, Sequences, FiniteSets, Functions, CoroQueue

CONSTANTS
    QueueCap,   \* m_group_message_queue(_io_service, 20)
    MaxMsgs,    \* bound: messages the application sends in one process
    MaxCrashes  \* bound: how often the process dies and is started again

ASSUME QueueCapAssumption == QueueCap \in Nat \ {0}
ASSUME MaxMsgsAssumption == MaxMsgs \in Nat
ASSUME SenderCrashesAssumption == MaxCrashes \in Nat

VARIABLES
    status, psessionid,  \* see Presence
    stopped,   \* stop() was called: the webqq object is gone
    crashes,   \* history: restarts so far
    sendq,     \* m_group_message_queue
    spc,       \* where the sender is suspended
    started,   \* the coroutine is past its first async_pop
    hand,      \* v: the message the coroutine holds, 0 for none yet
    sent,      \* history: the messages posted, in order
    called,    \* history: the messages whose donecb was posted, in order
    lost,      \* history: the messages overwritten in the queue
    nextId     \* history: the next message

outer    == <<status, psessionid, stopped, crashes>>
local    == <<sendq, spc, started, hand, sent, called, lost, nextId>>
vars     == <<outer, local>>

Messages == 1..MaxMsgs

-----------------------------------------------------------------------------
P == INSTANCE Presence

Idle == /\ sendq = <<>> /\ spc = "pop" /\ started = FALSE /\ hand = 0
        /\ sent = <<>> /\ called = <<>> /\ lost = {} /\ nextId = 1

Init == P!Init /\ stopped = FALSE /\ Idle

SendGroupMessage_OffByOne ==
    /\ ~stopped /\ nextId <= MaxMsgs
    /\ nextId' = nextId + 1
    /\ \/ spc = "pop" /\ spc' = "got" /\ hand' = nextId
          /\ UNCHANGED <<sendq, lost>>
       \/ /\ spc # "pop"
          /\ sendq' = PushBack(sendq, nextId, QueueCap - 1)
          /\ lost' = lost \cup Range(Overwritten(sendq, QueueCap - 1))
          /\ UNCHANGED <<spc, hand>>
    /\ UNCHANGED <<outer, started, sent, called>>

\* The webqq object is there, and with it its send_group_message: the waiting
\* sender gets the message, or the queue keeps it.
SendGroupMessage ==
    /\ ~stopped /\ nextId <= MaxMsgs
    /\ nextId' = nextId + 1
    /\ \/ spc = "pop" /\ spc' = "got" /\ hand' = nextId
          /\ UNCHANGED <<sendq, lost>>
       \/ /\ spc # "pop"
          /\ sendq' = PushBack(sendq, nextId, QueueCap)
          /\ lost' = lost \cup Range(Overwritten(sendq, QueueCap))
          /\ UNCHANGED <<spc, hand>>
    /\ UNCHANGED <<outer, started, sent, called>>

\* The POST of the message in hand leaves.
Post == spc' = "sending" /\ sent' = Append(sent, hand)

MessageArrives_DropsWhenOffline ==
    /\ spc = "got" /\ started' = TRUE
    /\ \/ status = "ONLINE" /\ (started \/ psessionid) /\ Post
       \/ status # "ONLINE" /\ spc' = "pause" /\ UNCHANGED sent
    /\ UNCHANGED <<outer, sendq, hand, called, lost, nextId>>

MessageArrives_IgnoresStatus ==
    /\ spc = "got" /\ started' = TRUE
    /\ \/ status # "QUITTING" /\ Post
       \/ status = "QUITTING" /\ spc' = "done" /\ UNCHANGED sent
    /\ UNCHANGED <<outer, sendq, hand, called, lost, nextId>>

\* The coroutine is resumed with a message.  The first time it enters at the
\* head of the outer loop; later it is inside the inner one, which asks for
\* the status only.
MessageArrives ==
    /\ spc = "got" /\ started' = TRUE
    /\ \/ status = "ONLINE" /\ (started \/ psessionid) /\ Post
       \/ /\ status = "OFFLINE" \/ (status = "ONLINE" /\ ~started /\ ~psessionid)
          /\ spc' = "waitLogin" /\ UNCHANGED sent
       \/ status = "QUITTING" /\ spc' = "done" /\ UNCHANGED sent
    /\ UNCHANGED <<outer, sendq, hand, called, lost, nextId>>

\* The 20s timer; it is set again as long as there is no session, also when
\* the status is QUITTING.
LoginSeen ==
    /\ spc = "waitLogin"
    /\ status = "ONLINE" /\ psessionid
    /\ Post
    /\ UNCHANGED <<outer, sendq, started, hand, called, lost, nextId>>

PostReturns_Requeues ==
    /\ spc = "sending" /\ spc' = "pause"
    /\ called' = Append(called, hand)
    /\ sendq' \in {sendq, PushBack(sendq, hand, QueueCap)}
    /\ UNCHANGED <<outer, started, hand, sent, lost, nextId>>

PostReturns_SilentWhenOffline ==
    /\ spc = "sending" /\ spc' = "pause"
    /\ called' = IF status = "ONLINE" THEN Append(called, hand) ELSE called
    /\ UNCHANGED <<outer, sendq, started, hand, sent, lost, nextId>>

\* The POST was answered or failed: donecb is told, nothing is sent again.
PostReturns ==
    /\ spc = "sending" /\ spc' = "pause"
    /\ called' = Append(called, hand)
    /\ UNCHANGED <<outer, sendq, started, hand, sent, lost, nextId>>

PauseOver_MissesQueued ==
    /\ spc = "pause" /\ spc' = "pop"
    /\ UNCHANGED <<outer, sendq, started, hand, sent, called, lost, nextId>>

PauseOver ==
    /\ spc = "pause"
    /\ \/ sendq = <<>> /\ spc' = "pop" /\ UNCHANGED <<sendq, hand>>
       \/ /\ sendq # <<>> /\ spc' = "got"
          /\ hand' = Head(sendq) /\ sendq' = Tail(sendq)
    /\ UNCHANGED <<outer, started, sent, called, lost, nextId>>

\* stop() for the sender: m_group_message_queue.cancele() ends a coroutine
\* that waits in async_pop, and no other.
Cancelled ==
    /\ spc' = IF spc = "pop" THEN "done" ELSE spc
    /\ UNCHANGED <<sendq, started, hand, sent, called, lost, nextId>>

\* A new process starts with an empty queue.
Fresh == /\ sendq' = <<>> /\ spc' = "pop" /\ started' = FALSE /\ hand' = 0
         /\ sent' = <<>> /\ called' = <<>> /\ lost' = {} /\ nextId' = 1

Stop == /\ ~stopped /\ stopped' = TRUE
        /\ status' = "QUITTING" /\ UNCHANGED <<psessionid, crashes>>
        /\ Cancelled

Restart == /\ crashes < MaxCrashes /\ P!Restarted
           /\ stopped' = FALSE
           /\ Fresh

\* What the main loop may do meanwhile.
MainLoop == /\ P!Lost \/ P!Cleared \/ P!Authenticated \/ P!Established \/ P!Quit
            /\ UNCHANGED <<stopped, local>>

Loop == MessageArrives \/ LoginSeen \/ PostReturns \/ PauseOver

Next == SendGroupMessage \/ Loop \/ Stop \/ Restart \/ MainLoop

Spec == Init /\ [][Next]_vars

\* Every POST ends with an answer or an error, and every timer fires.
FairSpec == Spec /\ WF_vars(Loop)

-----------------------------------------------------------------------------
Pending == IF spc \in {"got", "waitLogin"} THEN <<hand>> \o sendq ELSE sendq
Increasing(s) == \A i, j \in DOMAIN s : i < j => s[i] < s[j]

\* The variables have their types; the queue stays within its capacity.
TypeOK ==
    /\ P!TypeOK /\ stopped \in BOOLEAN /\ crashes <= MaxCrashes
    /\ sendq \in Seq(Messages) /\ Len(sendq) <= QueueCap
    /\ spc \in {"pop", "got", "waitLogin", "sending", "pause", "done"}
    /\ started \in BOOLEAN /\ hand \in 0..MaxMsgs
    /\ sent \in Seq(Messages) /\ called \in Seq(Messages)
    /\ lost \in SUBSET Messages
    /\ nextId \in 1..(MaxMsgs + 1)

\* Messages leave in the order of the calls and each at most once, across
\* lost sessions, overwritten messages and a sender that was waiting for a
\* login with a message in its hand.
InOrderOnce == Increasing(sent \o Pending)

\* Until the sender returns, every message was sent, is still to be sent, or
\* was overwritten in the full queue: nothing else makes one disappear.
NoSilentLoss ==
    spc # "done" =>
        1..(nextId - 1) = Range(sent) \cup Range(Pending) \cup lost

\* "Keep the last 20 messages not sent" (webqq_impl.cpp:96): a message is
\* only given up for as many newer ones as the queue holds.
NewestKept == \A m \in lost : m + QueueCap < nextId

\* donecb is called exactly for the messages posted, once each and in order,
\* and for a message only after its POST ended.
CallbackIffSent ==
    sent = IF spc = "sending" THEN Append(called, hand) ELSE called

\* When the account is online for good, every accepted message is sent or
\* makes room for newer ones, also the one that was in hand while the session
\* was lost.
Delivered ==
    <>[](status = "ONLINE" /\ psessionid) =>
        \A m \in Messages :
            [](m < nextId => <>(m \in Range(sent) \cup lost \/ m >= nextId
                                \/ spc = "done"))

-----------------------------------------------------------------------------
(* What is said of the program and is not so                               *)

\* group_message_sender.hpp:101, "wait until the status is logged in", and
\* the test for a psessionid below it: no message is posted without one.
\* But the inner loop, resumed with the next message, asks for the status
\* only, and the status is ONLINE before the psessionid of a login arrives.
SendHasSession == [][sent' # sent /\ sent' # <<>> => psessionid]_vars
=============================================================================
