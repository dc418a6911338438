------------------------------- MODULE MemberDb -------------------------------
(***************************************************************************)
(* The members of the groups: the table group_buddies (buddy_mgr), the     *)
(* request that fills it (update_group_member_op) and the chains of        *)
(* requests that ask for the members' QQ numbers one by one                *)
(* (update_group_member_qq_op).                                            *)
(*                                                                         *)
(* The group refresh loop asks for the members of one group at a time, but *)
(* the chain that such an answer starts goes on in the background: several *)
(* chains run at once, over groups that may share members.  A uid is UNIQUE *)
(* ON CONFLICT replace, so that a member of two groups has one row, of the *)
(* group that was listed last.                                             *)
(*                                                                         *)
(* A chain is "free", "posted" (its uids were read, it has not begun) or   *)
(* "asking" for the number of cur.  Of a number it matters whether it is   *)
(* known.                                                                  *)
(***************************************************************************)
EXTENDS Naturals

CONSTANTS
    Gids,   \* group ids
    Uids,   \* members
    None,   \* no group, no member
    Chains  \* bound: the chains that may run at once

ASSUME NoneAssumption == None \notin Gids \cup Uids

VARIABLES
    rows,    \* group_buddies: of each uid the group of its row and its number
    asked,   \* the group whose members are being asked for, or None
    chain,   \* the chains of number requests
    excused  \* history: members whose number nobody is to ask for now, because
             \* a request failed, a list broke off, or a process died

vars == <<rows, asked, chain, excused>>

NoRow == [gid |-> None, num |-> FALSE]
Row   == {NoRow} \cup [gid : Gids, num : BOOLEAN]

Free  == [at |-> "free", cur |-> None, left |-> {}]
Chain == {Free}
         \cup [at : {"posted"}, cur : {None}, left : SUBSET Uids]
         \cup {ch \in [at : {"asking"}, cur : Uids, left : SUBSET Uids] :
                  ch.cur \in ch.left}

Init == /\ rows = [u \in Uids |-> NoRow] /\ asked = None
        /\ chain = [c \in Chains |-> Free] /\ excused = {}

-----------------------------------------------------------------------------
(* buddy_mgr                                                               *)

\* The members S of a group are inserted: a row of that uid is replaced, also
\* one with a number, and also one of another group.
group_new_buddy(r, gid, S, n) ==
    [u \in Uids |-> IF u \in S THEN [gid |-> gid, num |-> n] ELSE r[u]]

\* A row, if there is one, gets the number, or the empty one.
map_buddy_qqnum(r, uid, n) ==
    [r EXCEPT ![uid].num = n /\ r[uid].gid # None]

buddy_has_qqnum(r, uid) == r[uid].num

get_group_all_buddies_uin(r, gid) == {u \in Uids : r[u].gid = gid}

-----------------------------------------------------------------------------
(* update_group_member_op                                                  *)

\* The group refresh loop asks for the members of a group.
AskMembers ==
    /\ asked = None /\ asked' \in Gids
    /\ \E c \in Chains : chain[c] = Free
    /\ UNCHANGED <<rows, chain, excused>>

\* update_group_member_qq: a chain over all rows of the group gid in r.
StartChain_OnlyListed(r, gid) ==
    \E c \in Chains, S \in SUBSET get_group_all_buddies_uin(r, gid) :
        /\ chain[c] = Free
        /\ chain' = [chain EXCEPT ![c] =
                        [at |-> "posted", cur |-> None, left |-> S]]

StartChain(r, gid) ==
    \E c \in Chains :
        /\ chain[c] = Free
        /\ chain' = [chain EXCEPT ![c] =
                        [at |-> "posted", cur |-> None,
                         left |-> get_group_all_buddies_uin(r, gid)]]

\* The list came.  (set_group_owner, cards and flags write what nothing here
\* reads; the update of the flag has its parameters swapped and finds no row.)
MembersReturn ==
    /\ asked # None /\ asked' = None
    /\ \E S \in SUBSET Uids : rows' = group_new_buddy(rows, asked, S, FALSE)
    /\ StartChain(rows', asked)
    /\ excused' = excused \ get_group_all_buddies_uin(rows', asked)

\* A retcode: nothing is inserted, and the chain is started all the same.
MembersRefused ==
    /\ asked # None /\ asked' = None
    /\ StartChain(rows, asked)
    /\ excused' = excused \ get_group_all_buddies_uin(rows, asked)
    /\ UNCHANGED rows

\* The answer is no JSON, or a field is missing after some members.
MembersBroken ==
    /\ asked # None /\ asked' = None
    /\ \E S \in SUBSET Uids :
          /\ rows' = group_new_buddy(rows, asked, S, FALSE)
          /\ excused' = excused \cup S
    /\ UNCHANGED chain

-----------------------------------------------------------------------------
(* update_group_member_qq_op                                               *)

\* for( ; i < m_uins.size() ; i++ ) over the members rest, in some order: those
\* that have a number when the walk comes to them are passed over, and the
\* next one without is asked for.
WalkOn(c, rest, r) ==
    LET lacking == {u \in rest : ~buddy_has_qqnum(r, u)} IN
    \/ lacking = {} /\ chain' = [chain EXCEPT ![c] = Free]
    \/ \E u \in lacking, passed \in SUBSET (rest \ lacking) :
          chain' = [chain EXCEPT ![c] = [at |-> "asking", cur |-> u,
                                         left |-> rest \ passed]]

ChainBegins(c) ==
    /\ chain[c].at = "posted"
    /\ WalkOn(c, chain[c].left, rows)
    /\ UNCHANGED <<rows, asked, excused>>

\* The number came, also for a row that was replaced meanwhile.
NumberReturns(c) ==
    /\ chain[c].at = "asking"
    /\ LET u == chain[c].cur IN
          /\ rows' = map_buddy_qqnum(rows, u, TRUE)
          /\ excused' = excused \ {u}
          /\ WalkOn(c, chain[c].left \ {u}, rows')
    /\ UNCHANGED asked

NumberFails_TriesAgain(c) ==
    /\ chain[c].at = "asking"
    /\ WalkOn(c, chain[c].left, rows)
    /\ UNCHANGED <<rows, asked, excused>>

\* The request failed or was refused: the empty number is written, also over
\* one that another chain has found meanwhile.
NumberFails(c) ==
    /\ chain[c].at = "asking"
    /\ LET u == chain[c].cur IN
          /\ rows' = map_buddy_qqnum(rows, u, FALSE)
          /\ excused' = excused \cup {u}
          /\ WalkOn(c, chain[c].left \ {u}, rows')
    /\ UNCHANGED asked

NumberStops_KeepsList(c) ==
    /\ chain[c].at = "asking"
    /\ chain' = [chain EXCEPT ![c].at = "free"]
    /\ excused' = excused \cup chain[c].left
    /\ UNCHANGED <<rows, asked>>

\* The number is -1: the chain stops.
NumberStops(c) ==
    /\ chain[c].at = "asking"
    /\ chain' = [chain EXCEPT ![c] = Free]
    /\ excused' = excused \cup chain[c].left
    /\ UNCHANGED <<rows, asked>>

-----------------------------------------------------------------------------
\* qqGroup::add_new_buddy, by the application: with or without a number.
AddBuddy ==
    \E g \in Gids, u \in Uids, n \in BOOLEAN :
        /\ rows' = group_new_buddy(rows, g, {u}, n)
        /\ excused' = IF n THEN excused \ {u} ELSE excused \cup {u}
        /\ UNCHANGED <<asked, chain>>

\* The process dies: its chains are gone, the rows stay, or go with a database
\* that was kept in memory.
Restart ==
    /\ rows' \in {rows, [u \in Uids |-> NoRow]}
    /\ asked' = None /\ chain' = [c \in Chains |-> Free]
    /\ excused' = Uids

ChainStep(c) == \/ ChainBegins(c) \/ NumberReturns(c) \/ NumberFails(c)
                \/ NumberStops(c)

Next == \/ AskMembers \/ MembersReturn \/ MembersRefused \/ MembersBroken
        \/ \E c \in Chains : ChainStep(c)
        \/ AddBuddy \/ Restart

Spec == Init /\ [][Next]_vars

\* Every request ends with an answer or an error.
FairSpec == Spec /\ \A c \in Chains : WF_vars(ChainStep(c))

-----------------------------------------------------------------------------
\* The variables have their types: what a chain asks for is on its list, one
\* that ended has none, and a number is known of a member with a row only.
TypeOK ==
    /\ rows \in [Uids -> Row] /\ asked \in Gids \cup {None}
    /\ chain \in [Chains -> Chain] /\ excused \in SUBSET Uids

\* While chains overlap over members they share, rows are replaced and
\* answers come late, no member is forgotten: one without a number is still
\* to be asked for by some chain, or a failure explains it.
NumbersOwed ==
    \A u \in Uids : \/ rows[u].gid = None \/ rows[u].num \/ u \in excused
                    \/ \E c \in Chains : u \in chain[c].left

\* Every chain ends, whatever other chains, lists and the application do to the
\* rows under it: no member is asked for twice by one chain.
ChainsEnd == \A c \in Chains : []<>(chain[c].at = "free")
=============================================================================
