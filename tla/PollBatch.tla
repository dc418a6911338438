------------------------------ MODULE PollBatch ------------------------------
(***************************************************************************)
(* The messages of one answer to a poll: poll_message_op walks over them,  *)
(* and process_group_message_op handles each group message, with a refresh *)
(* of the members when its sender is unknown and a request for each image. *)
(* The error_code the walk ends with tells the main loop what to do.       *)
(*                                                                         *)
(* A value of ppc is the yield at which the coroutines are suspended:      *)
(*   poll     async_poll_message, unanswered                               *)
(*   item     the idle_post that starts process_group_message_op           *)
(*   refresh  update_group_member: the command is in the queue of the      *)
(*            group refresh loop                                           *)
(*   members  the group refresh loop took it and requests the members      *)
(*   cface    async_cface_url_final for an image                           *)
(*   report   the result of the poll is on its way to the main loop        *)
(*   crashed  the process died of a null pointer, or of an exception of    *)
(*            the property tree that nothing catches                       *)
(***************************************************************************)
EXTENDS Integers, Sequences, FiniteSetsExt, SequencesExt

CONSTANTS
    Gids,      \* group ids
    Uins,      \* senders
    MaxItems,  \* bound: entries of an answer
    MaxImages  \* bound: images of a message

ASSUME MaxItemsAssumption == MaxItems \in Nat
ASSUME MaxImagesAssumption == MaxImages \in Nat

VARIABLES
    ppc,       \* where the coroutines are suspended
    batch,     \* m_jstree: the entries of the answer
    i,         \* m_iterator: the entry being processed
    left,      \* images of the message still to be requested
    ec,        \* the error_code the walk was last resumed with
    groups,    \* the gids in the table of groups
    members,   \* the uins in the table of members
    delivered, \* history: the messages of the answer given to siggroupmessage
    unknown,   \* history: a message of the answer was of an unknown group
    stopped    \* stop() was called

walk == <<ppc, batch, i, left, ec>>
vars == <<walk, groups, members, delivered, unknown, stopped>>

\* In one that is not whole something is missing behind its images: the content
\* itself, a field of a font or of an image, or the number of a face.
GroupMessage == [kind : {"group_message"}, gid : Gids, uin : Uins,
                 images : 0..MaxImages, whole : BOOLEAN]

\* The first test of the code takes every other poll_type (sys_g_msg,
\* buddylist_change, kick_message): it is printed and has no other effect.
Other == [kind |-> "other"]

\* An entry without poll_type, or in an answer that cannot be printed; and the
\* missing result of an answer without one.
Broken == [kind |-> "broken"]

\* A group message without from_uin or send_uin.
Unsigned == [kind |-> "unsigned"]

Items == GroupMessage \cup {Other, Broken, Unsigned}

\* What the code throws an exception at that nothing catches.
Flawed(m) == \/ m.kind \in {"broken", "unsigned"}
             \/ m.kind = "group_message" /\ ~m.whole

Batches == BoundedSeq(Items, MaxItems)

Results == {"ok", "need_refresh", "cface_ec"}

IsGroupMessage(m) == m.kind = "group_message"

-----------------------------------------------------------------------------
Init == /\ ppc = "poll" /\ batch = <<>> /\ i = 0 /\ left = 0 /\ ec = "ok"
        /\ groups \in SUBSET Gids /\ members \in SUBSET Uins
        /\ delivered = <<>> /\ unknown = FALSE /\ stopped = FALSE

\* The walk over b, resumed with e at entry k: the next group message, signed or
\* not, or the report; an exception at a broken entry.
WalkFrom(b, k, e) ==
    LET rest == {j \in (k + 1)..Len(b) : b[j].kind # "other"} IN
    /\ ec' = e
    /\ \/ /\ rest # {} /\ i' = Min(rest)
          /\ ppc' = IF b[i'].kind = "broken" THEN "crashed" ELSE "item"
       \/ rest = {} /\ i' = k /\ ppc' = "report"

\* An answer with retcode 0.
PollAnswers ==
    /\ ppc = "poll"
    /\ batch' \in Batches
    /\ WalkFrom(batch', 0, "ok")
    /\ UNCHANGED <<left, groups, members, delivered, unknown, stopped>>

Done_ResumesSame(e) ==
    /\ WalkFrom(batch, i - (IF e = "cface_ec" THEN 1 ELSE 0), e)
    /\ delivered' = IF ppc' = "crashed" THEN delivered
                    ELSE Append(delivered, batch[i])
    /\ UNCHANGED batch

\* m_handler(e) resumes the walk, and then the message is delivered: unless the
\* walk threw an exception at the next entry.
Done(e) == /\ WalkFrom(batch, i, e)
           /\ delivered' = IF ppc' = "crashed" THEN delivered
                           ELSE Append(delivered, batch[i])
           /\ UNCHANGED batch

Content_OffByOne(n, gs, e) ==
    \/ n < 0 /\ batch[i].whole /\ Done(e) /\ UNCHANGED left
    \/ /\ n >= 0 /\ batch[i].gid \in gs
       /\ ppc' = "cface" /\ left' = n - 1
       /\ UNCHANGED <<batch, i, ec, delivered>>
    \/ /\ IF n < 0 THEN ~batch[i].whole ELSE batch[i].gid \notin gs
       /\ ppc' = "crashed"
       /\ UNCHANGED <<batch, i, left, ec, delivered>>

\* The rest of the content, with n images to come, while the table of groups
\* is gs: an image of a message whose group is unknown is a null pointer, and
\* what is missing behind the images an exception.
Content(n, gs, e) ==
    \/ n = 0 /\ batch[i].whole /\ Done(e) /\ left' = 0
    \/ /\ n > 0 /\ batch[i].gid \in gs
       /\ ppc' = "cface" /\ left' = n - 1
       /\ UNCHANGED <<batch, i, ec, delivered>>
    \/ /\ IF n > 0 THEN batch[i].gid \notin gs ELSE ~batch[i].whole
       /\ ppc' = "crashed"
       /\ UNCHANGED <<batch, i, left, ec, delivered>>

ItemStarts_NoHandler ==
    /\ ppc = "item" /\ IsGroupMessage(batch[i])
    /\ \/ batch[i].gid \notin groups /\ unknown' = TRUE
          /\ UNCHANGED <<walk, delivered>>
       \/ /\ batch[i].gid \in groups /\ batch[i].uin \notin members
          /\ ppc' = "refresh"
          /\ UNCHANGED <<batch, i, left, ec, delivered, unknown>>
       \/ /\ batch[i].gid \in groups /\ batch[i].uin \in members
          /\ Content(batch[i].images, groups, "ok")
          /\ UNCHANGED unknown
    /\ UNCHANGED <<groups, members, stopped>>

\* process_group_message_op starts and wants the ids of the group and of the
\* sender: an exception.
UnsignedStarts ==
    /\ ppc = "item" /\ batch[i].kind = "unsigned" /\ ppc' = "crashed"
    /\ UNCHANGED <<batch, i, left, ec, groups, members, delivered, unknown,
                   stopped>>

\* It looks up the group, then the sender, among the members of all groups.
ItemStarts ==
    /\ ppc = "item" /\ IsGroupMessage(batch[i])
    /\ \/ /\ batch[i].gid \notin groups
          /\ Content(batch[i].images, groups, "need_refresh")
          /\ unknown' = TRUE
       \/ /\ batch[i].gid \in groups /\ batch[i].uin \notin members
          /\ ppc' = "refresh"
          /\ UNCHANGED <<batch, i, left, ec, delivered, unknown>>
       \/ /\ batch[i].gid \in groups /\ batch[i].uin \in members
          /\ Content(batch[i].images, groups, "ok")
          /\ UNCHANGED unknown
    /\ UNCHANGED <<groups, members, stopped>>

\* The group refresh loop takes the command and looks the group up again: if it
\* is gone by now, a null pointer.
RefreshTaken ==
    /\ ppc = "refresh"
    /\ ppc' = IF batch[i].gid \in groups THEN "members" ELSE "crashed"
    /\ UNCHANGED <<batch, i, left, ec, groups, members, delivered, unknown,
                   stopped>>

\* The members came, or not: update_group_member never reports an error.
RefreshReturns ==
    /\ ppc = "members"
    /\ members' \in {members, members \cup {batch[i].uin}}
    /\ Content(batch[i].images, groups, "ok")
    /\ UNCHANGED <<groups, unknown, stopped>>

CfaceReturns_NeedsRefresh ==
    /\ ppc = "cface"
    /\ \E e \in {"ok", "need_refresh"} : Content(left, groups, e)
    /\ UNCHANGED <<groups, members, unknown, stopped>>

\* The address of an image was found or not: its error_code replaces the one
\* the message had.  The redirect that is hoped for is an error_code too,
\* since the stream follows none.
CfaceReturns ==
    /\ ppc = "cface"
    /\ \E e \in {"ok", "cface_ec"} : Content(left, groups, e)
    /\ UNCHANGED <<groups, members, unknown, stopped>>

\* The main loop polls again, with a new poll_message_op; after need_refresh
\* it logs in first, and the group ids are new.
Reported ==
    /\ ppc = "report" /\ ppc' = "poll"
    /\ batch' = <<>> /\ i' = 0 /\ ec' = "ok"
    /\ delivered' = <<>> /\ unknown' = FALSE
    /\ IF ec = "need_refresh" THEN groups' \in SUBSET Gids ELSE UNCHANGED groups
    /\ UNCHANGED <<left, members, stopped>>

\* A full refresh of the group refresh loop, which does one thing at a time; or
\* a login after stop() and another start.
GroupsChange == /\ ppc # "crashed" /\ (ppc = "members" => stopped)
                /\ groups' \in SUBSET Gids
                /\ UNCHANGED <<walk, members, delivered, unknown, stopped>>

Stop == /\ ppc # "crashed" /\ ~stopped /\ stopped' = TRUE
        /\ UNCHANGED <<walk, groups, members, delivered, unknown>>

Loop == \/ PollAnswers \/ UnsignedStarts \/ ItemStarts \/ RefreshReturns
        \/ CfaceReturns \/ Reported

Next == Loop \/ RefreshTaken \/ GroupsChange \/ Stop

Spec == Init /\ [][Next]_vars

\* Every request ends; the group refresh loop takes the command as long as the
\* object is not stopped (property Served of module GroupRefresh).
FairSpec == Spec /\ WF_vars(Loop) /\ WF_vars(RefreshTaken /\ ~stopped)

-----------------------------------------------------------------------------
\* The variables have their types.
TypeOK ==
    /\ ppc \in {"poll", "item", "refresh", "members", "cface", "report", "crashed"}
    /\ batch \in Seq(Items) /\ Len(batch) <= MaxItems
    /\ i \in 0..Len(batch) /\ left \in 0..MaxImages /\ ec \in Results
    /\ groups \in SUBSET Gids /\ members \in SUBSET Uins
    /\ delivered \in Seq(GroupMessage)
    /\ unknown \in BOOLEAN /\ stopped \in BOOLEAN

\* The group messages among the first k entries of the answer, and that they
\* were delivered: all of them, each once, and one after the other (f says
\* which entry a delivery was of).
GroupEntries(k) == {j \in 1..k : IsGroupMessage(batch[j])}

DeliveredUpTo(k) ==
    \E f \in [DOMAIN delivered -> GroupEntries(k)] :
        /\ \A j \in GroupEntries(k) : \E n \in DOMAIN delivered : f[n] = j
        /\ \A m, n \in DOMAIN delivered : m < n => f[m] < f[n]
        /\ \A n \in DOMAIN delivered : delivered[n] = batch[f[n]]

\* siggroupmessage is called for every group message of the answer, once and
\* in the order of the answer, and for all of them before the next poll,
\* although messages of unknown senders and with images wait for requests.
\* (A process that died delivers nothing more: see Polled.)
DeliveredInOrder ==
    /\ ppc \in {"item", "refresh", "members", "cface"} => DeliveredUpTo(i - 1)
    /\ ppc = "report" => DeliveredUpTo(Len(batch))

\* The main loop gives up the session only if a message came from a group that
\* the program does not know: not for an unknown sender or a lost image.
ReloginJustified == ppc = "report" /\ ec = "need_refresh" => unknown

\* What the walk may die of: a flawed entry, which throws outside of any try; or
\* a message whose group is not known, or not any more, when the refresh of its
\* members is taken from the queue or an image of it is met.
Excused == ppc = "crashed" /\ (Flawed(batch[i]) \/ batch[i].gid \notin groups)

\* The main loop gets the result of every answer and polls again, however many
\* messages wait for the group refresh loop or for images meanwhile: unless the
\* object was stopped, or the process died of what Excused names.
Polled == []<>(ppc = "poll" \/ stopped \/ Excused)

-----------------------------------------------------------------------------
(* What is said of the program and is not so                               *)

\* process_group_msg.hpp:76: "the group is unknown, it is necessary to log in
\* again".  But the result of a later message, or of an image of the same one,
\* replaces need_refresh.
UnknownGroupRelogins == ppc = "report" /\ unknown => ec = "need_refresh"
=============================================================================
