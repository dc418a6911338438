------------------------------- MODULE GroupDb -------------------------------
(***************************************************************************)
(* The groups: the table of groups (buddy_mgr), the map m_groups, and the  *)
(* requests that fill them: update_group_list_op and, for each group whose *)
(* QQ number is not known, update_group_qqnumber_op.  Two ask for lists,   *)
(* each for one at a time but both at once: the login of the main loop,    *)
(* which then walks over m_groups for the members, and the group refresh   *)
(* loop.  Both walks keep an iterator into the one map m_groups.           *)
(*                                                                         *)
(* A group has a code for life and a gid that the service draws anew, so   *)
(* that a gid never means two groups: it is the code and the round of the  *)
(* draw.  The number of a group is written as its code.                    *)
(*                                                                         *)
(* A value of lpc is where the list of an asker, or the login, waits:      *)
(*   idle     there is none          list    the request for the list      *)
(*   listed   a handler is posted, the walk for the numbers has not begun  *)
(*   number   the request for the number of a group                        *)
(*   pause, failed      the 600ms timer after a number that came, or not   *)
(*   told     the login's handler is posted, with no error                 *)
(*   members  the group refresh loop is to update the members of a group   *)
(*   rest     the 130ms timer after them                                   *)
(***************************************************************************)
EXTENDS Integers

CONSTANTS
    Codes,  \* group codes
    Rounds, \* bound: how often the service draws a gid for a group
    Fixed,  \* bound: the codes of groups for which it draws only one
    NoNum   \* the empty qqnum

ASSUME NoNumAssumption == NoNum \notin Codes
ASSUME RoundsAssumption == Rounds \in Nat

VARIABLES
    table,    \* the rows of the table of groups
    mem,      \* m_groups
    lpc,      \* where each asker waits
    todo,     \* the gids that its iter has not reached
    cur,      \* {the gid at its iter} as long as that will be read, or {}
    dangling, \* m_groups was cleared or replaced under its iter
    up,       \* the process lives
    answer    \* history: the gids of the last list that came since m_groups
              \* was cleared

vars == <<table, mem, lpc, todo, cur, dangling, up, answer>>
walks == <<lpc, todo, cur, dangling>>

Lists == {"login", "refresh"}

Gids == {g \in Codes \X (1..Rounds) : g[1] \in Fixed => g[2] = 1}
CodeOf(g) == g[1]

\* A group as it should be: a known number is its own.
Groups == {r \in [gid : Gids, code : Codes, num : Codes \cup {NoNum}] :
              r.code = CodeOf(r.gid) /\ r.num \in {r.code, NoNum}}

NewGroup(g, n) == [gid |-> g, code |-> CodeOf(g), num |-> n]

GidsOf(S) == {r.gid : r \in S}
CodesOf(a) == {CodeOf(g) : g \in a}

\* What the service may answer: one gid for each of some groups.
Answers == {a \in SUBSET Gids :
               \A g, h \in a : CodeOf(g) = CodeOf(h) => g = h}

-----------------------------------------------------------------------------
(* buddy_mgr                                                               *)

\* select qqnum ... where group_code = code: "" if there is no row.
QqnumOf(tbl, code) ==
    LET rows == {r \in tbl : r.code = code} IN
    IF rows = {} THEN NoNum ELSE (CHOOSE r \in rows : TRUE).num

group_has_qqnum(tbl, code) == QqnumOf(tbl, code) # NoNum

update_group_list_DeletesByGid(tbl, a) ==
    {r \in tbl : r.gid \notin a}
        \cup {NewGroup(g, QqnumOf(tbl, CodeOf(g))) : g \in a}

update_group_list_DeletesFirst(tbl, a) ==
    LET kept == {r \in tbl : r.gid \notin a /\ r.code \notin CodesOf(a)} IN
    kept \cup {NewGroup(g, QqnumOf(kept, CodeOf(g))) : g \in a}

\* For each group of the answer a, in one transaction: the old number is read,
\* the rows of the gid and of the code are deleted, and one row is inserted.
\* No two groups of an answer meet in a row, so their order does not matter.
update_group_list(tbl, a) ==
    {r \in tbl : r.gid \notin a /\ r.code \notin CodesOf(a)}
        \cup {NewGroup(g, QqnumOf(tbl, CodeOf(g))) : g \in a}

map_group_qqnum_NoWhere(tbl, code, n) == {[r EXCEPT !.num = n] : r \in tbl}

map_group_qqnum(tbl, code, n) ==
    {IF r.code = code THEN [r EXCEPT !.num = n] ELSE r : r \in tbl}

-----------------------------------------------------------------------------
(* update_group_list_op: the list                                          *)

Init == /\ table = {} /\ mem = {} /\ up = TRUE /\ answer = {}
        /\ lpc = [w \in Lists |-> "idle"] /\ dangling = [w \in Lists |-> FALSE]
        /\ todo = [w \in Lists |-> {}] /\ cur = [w \in Lists |-> {}]

Goto(w, l) == lpc' = [lpc EXCEPT ![w] = l]

\* An iterator stands in m_groups, or in the freed nodes of what it was.
Walking(w) == lpc[w] \in {"number", "pause", "failed", "members", "rest"}

\* The main loop logs in, or the group refresh loop refreshes.
Start(w) == /\ up /\ lpc[w] = "idle" /\ Goto(w, "list")
            /\ UNCHANGED <<table, mem, todo, cur, dangling, up, answer>>

Listed(a) == table' = update_group_list(table, a) /\ answer' = a

\* The new groups join m_groups, each before or behind the iterators in it.
Inserted(a) ==
    LET new == a \ GidsOf(mem) IN
    /\ mem' = mem \cup {NewGroup(g, NoNum) : g \in new}
    /\ \E s \in SUBSET new :
          todo' = [w \in Lists |-> IF Walking(w) /\ ~dangling[w]
                                   THEN todo[w] \cup s ELSE todo[w]]
    /\ UNCHANGED dangling

Replaced_DropsKnown(a) ==
    \/ /\ a \cap GidsOf(mem) # {}
       /\ mem' = {NewGroup(g, NoNum) : g \in a \ GidsOf(mem)}
       /\ dangling' = [w \in Lists |-> dangling[w] \/ Walking(w)]
       /\ UNCHANGED todo
    \/ a \cap GidsOf(mem) = {} /\ Inserted(a)

\* If a gid was in m_groups already, the new list alone takes its place, under
\* every iterator in it; if all of them are new, they join the old ones.
Replaced(a) ==
    \/ /\ a \cap GidsOf(mem) # {}
       /\ mem' = {NewGroup(g, NoNum) : g \in a}
       /\ dangling' = [w \in Lists |-> dangling[w] \/ Walking(w)]
       /\ UNCHANGED todo
    \/ a \cap GidsOf(mem) = {} /\ Inserted(a)

\* A whole list.
ListReturns(w) ==
    /\ up /\ lpc[w] = "list" /\ Goto(w, "listed")
    /\ \E a \in Answers : Listed(a) /\ Replaced(a)
    /\ UNCHANGED <<cur, up>>

\* A retcode: nothing was listed, and there will be a walk all the same.
ListRefused(w) ==
    /\ up /\ lpc[w] = "list" /\ Goto(w, "listed")
    /\ UNCHANGED <<table, mem, todo, cur, dangling, up, answer>>

\* Some groups came with the gid of an error; the others were taken, and the
\* new list may be without the former ones.  The asker is told, with no walk.
ListHasErrors(w) ==
    /\ up /\ lpc[w] = "list" /\ Goto(w, "idle")
    /\ \E a \in Answers : Listed(a) /\ Replaced(a)
    /\ UNCHANGED <<cur, up>>

\* The answer is no JSON, or ends after some groups: the same, but m_groups is
\* not replaced.
ListBroken(w) ==
    /\ up /\ lpc[w] = "list" /\ Goto(w, "idle")
    /\ \E a \in Answers : Listed(a) /\ Inserted(a)
    /\ UNCHANGED <<cur, up>>

-----------------------------------------------------------------------------
(* update_group_list_op: the numbers                                       *)

\* iter moves on to the next group of left without a number in the table.  At
\* the end the login that is told of no error goes on to the members.
WalkOn(w, left, ok) ==
    LET lacking == {g \in left : ~group_has_qqnum(table, CodeOf(g))} IN
    \/ /\ lacking = {}
       /\ Goto(w, IF w = "login" /\ ok THEN "told" ELSE "idle")
       /\ cur' = [cur EXCEPT ![w] = {}] /\ todo' = [todo EXCEPT ![w] = {}]
       /\ dangling' = [dangling EXCEPT ![w] = FALSE]
    \/ /\ Goto(w, "number") /\ UNCHANGED dangling
       /\ \E g \in lacking : /\ cur' = [cur EXCEPT ![w] = {g}]
                             /\ todo' = [todo EXCEPT ![w] = lacking \ {g}]

\* The walk begins with m_groups as it is by now.
WalkStarts(w) == /\ up /\ lpc[w] = "listed" /\ WalkOn(w, GidsOf(mem), TRUE)
                 /\ UNCHANGED <<table, mem, up, answer>>

\* The number of the group at iter: into its object, which is in m_groups unless
\* that was cleared or replaced, and into the row.
NumberReturns(w) ==
    /\ up /\ lpc[w] = "number" /\ Goto(w, "pause")
    /\ \E g \in cur[w] :
          /\ table' = map_group_qqnum(table, CodeOf(g), CodeOf(g))
          /\ mem' = {IF m.gid = g /\ ~dangling[w] THEN [m EXCEPT !.num = m.code]
                     ELSE m : m \in mem}
    /\ cur' = [cur EXCEPT ![w] = {}]
    /\ UNCHANGED <<todo, dangling, up, answer>>

NumberFails_TriesAgain(w) == /\ up /\ lpc[w] = "number" /\ Goto(w, "failed")
                             /\ todo' = [todo EXCEPT ![w] = @ \cup cur[w]]
                             /\ cur' = [cur EXCEPT ![w] = {}]
                             /\ UNCHANGED <<table, mem, dangling, up, answer>>

NumberFails(w) == /\ up /\ lpc[w] = "number" /\ Goto(w, "failed")
                  /\ cur' = [cur EXCEPT ![w] = {}]
                  /\ UNCHANGED <<table, mem, todo, dangling, up, answer>>

\* Over freed nodes too, as long as they still hold their groups.
PauseOver(w) == /\ up /\ lpc[w] \in {"pause", "failed"}
                /\ WalkOn(w, todo[w], lpc[w] = "pause")
                /\ UNCHANGED <<table, mem, up, answer>>

-----------------------------------------------------------------------------
(* The members, after the list of a login                                  *)

MembersOn(left) ==
    \/ /\ left = {} /\ Goto("login", "idle")
       /\ cur' = [cur EXCEPT !["login"] = {}]
       /\ todo' = [todo EXCEPT !["login"] = {}]
       /\ dangling' = [dangling EXCEPT !["login"] = FALSE]
    \/ /\ Goto("login", "members") /\ UNCHANGED dangling
       /\ \E g \in left : /\ cur' = [cur EXCEPT !["login"] = {g}]
                          /\ todo' = [todo EXCEPT !["login"] = left \ {g}]

MembersStart == /\ up /\ lpc["login"] = "told" /\ MembersOn(GidsOf(mem))
                /\ UNCHANGED <<table, mem, up, answer>>

\* The group refresh loop takes the command when it has no list under way, and
\* answers it; a gid that is in m_groups, but not in the table any more, is a
\* null pointer.
MembersReturn == /\ up /\ lpc["login"] = "members" /\ lpc["refresh"] = "idle"
                 /\ IF cur["login"] \subseteq GidsOf(table)
                    THEN Goto("login", "rest") /\ UNCHANGED up
                    ELSE up' = FALSE /\ UNCHANGED lpc
                 /\ cur' = [cur EXCEPT !["login"] = {}]
                 /\ UNCHANGED <<table, mem, todo, dangling, answer>>

RestOver == /\ up /\ lpc["login"] = "rest" /\ MembersOn(todo["login"])
            /\ UNCHANGED <<table, mem, up, answer>>

-----------------------------------------------------------------------------
\* check_login of the next login clears m_groups, also under the iterator of a
\* list that the group refresh loop asked for.
Cleared == /\ up /\ lpc["login"] = "idle" /\ mem # {} /\ mem' = {}
           /\ answer' = {}
           /\ dangling' = [w \in Lists |-> dangling[w] \/ Walking(w)]
           /\ UNCHANGED <<table, lpc, todo, cur, up>>

\* The iterator is used, and what it points to is gone: the process dies.
Dangles(w) == /\ up /\ dangling[w] /\ Walking(w) /\ lpc[w] # "members"
              /\ up' = FALSE
              /\ UNCHANGED <<table, mem, walks, answer>>

\* The process dies, or died, and another one starts with the same database.
Restart == /\ up' = TRUE /\ mem' = {} /\ answer' = {}
           /\ lpc' = [w \in Lists |-> "idle"]
           /\ dangling' = [w \in Lists |-> FALSE]
           /\ todo' = [w \in Lists |-> {}] /\ cur' = [w \in Lists |-> {}]
           /\ UNCHANGED table

Answered(w) == \/ ListReturns(w) \/ ListRefused(w) \/ ListHasErrors(w)
               \/ ListBroken(w) \/ WalkStarts(w) \/ NumberReturns(w)
               \/ NumberFails(w) \/ PauseOver(w)

Next == \/ \E w \in Lists : Start(w) \/ Answered(w) \/ Dangles(w)
        \/ MembersStart \/ MembersReturn \/ RestOver \/ Cleared \/ Restart

Spec == Init /\ [][Next]_vars

\* Every request ends with an answer or an error, and every timer fires.
FairSpec == Spec /\ \A w \in Lists : WF_vars(Answered(w))

-----------------------------------------------------------------------------
\* The variables have their types: in particular a group has its own number
\* or none, in the table and in m_groups.
TypeOK ==
    /\ table \in SUBSET Groups /\ mem \in SUBSET Groups
    /\ lpc \in [Lists -> {"idle", "list", "listed", "number", "pause", "failed",
                         "told", "members", "rest"}]
    /\ lpc["refresh"] \notin {"told", "members", "rest"}
    /\ todo \in [Lists -> SUBSET Gids] /\ cur \in [Lists -> SUBSET Gids]
    /\ dangling \in [Lists -> BOOLEAN] /\ up \in BOOLEAN
    /\ answer \in Answers

\* The table has no UNIQUE, and get_group_by_gid and group_has_qqnum take the
\* first row they find: no group has two rows, not even when its gid changed,
\* and no gid has two.
OneRow == \A r, s \in table : r.gid = s.gid \/ r.code = s.code => r = s

\* A number is asked for only once in the life of the database: a group that
\* had one keeps it when its gid changes, when the list is replaced, also by
\* one of the other asker under a walk, when lists fail half-way, and over
\* restarts.
NumberKept ==
    [][\A r \in table : r.num # NoNum =>
          \E s \in table' : s.code = r.code /\ s.num = r.num]_vars

\* Of the last list that came, for whichever asker, whole, with errors or
\* broken off, every group can be found by its gid in the table and in m_groups,
\* until check_login clears it: while the numbers of this list or of an earlier
\* one are fetched, and until the list is asked for again.
AnswerListed == answer \subseteq GidsOf(table) /\ answer \subseteq GidsOf(mem)

\* The list and the numbers of each asker come to an end, although a number that
\* failed leaves its group without one, and although the other asker adds
\* groups under the walk or replaces the map: or the process dies.
WalkEnds ==
    \A w \in Lists :
        []<>(lpc[w] \in {"idle", "told", "members", "rest"} \/ ~up)
=============================================================================
