---------------------------- MODULE GroupDbProofs ----------------------------
(***************************************************************************)
(* The rows of the table of groups, for every set of groups and however    *)
(* often the service draws new gids.                                       *)
(***************************************************************************)
EXTENDS GroupDb, TLAPS

Unique(tbl) == \A r, s \in tbl : r.gid = s.gid \/ r.code = s.code => r = s

\* The numbers of tbl that t2 still has.
Kept(tbl, t2) ==
    \A r \in tbl : r.num # NoNum =>
        \E s \in t2 : s.code = r.code /\ s.num = r.num

\* A group that is made of a gid and of its own number is as it should be.
LEMMA NewGroupType ==
    ASSUME NEW g \in Gids, NEW n \in {CodeOf(g), NoNum}
    PROVE  /\ NewGroup(g, n) \in Groups
           /\ NewGroup(g, n).gid = g
           /\ NewGroup(g, n).code = CodeOf(g)
           /\ NewGroup(g, n).num = n
<1>1. CodeOf(g) \in Codes
  BY DEF Gids, CodeOf
<1> QED
  BY <1>1 DEF Groups, NewGroup

\* The number that is found for a code is the one of its only row.
LEMMA QqnumFound ==
    ASSUME NEW tbl \in SUBSET Groups, Unique(tbl), NEW r \in tbl
    PROVE  QqnumOf(tbl, r.code) = r.num
<1> DEFINE rows == {x \in tbl : x.code = r.code}
<1>1. r \in rows /\ rows # {}
  OBVIOUS
<1>2. \A x \in rows : x = r
  BY DEF Unique
<1>3. (CHOOSE x \in rows : TRUE) = r
  BY <1>1, <1>2
<1> QED
  BY <1>1, <1>3 DEF QqnumOf

\* Whatever is found for a code is its number or nothing.
LEMMA QqnumType ==
    ASSUME NEW tbl \in SUBSET Groups, NEW c
    PROVE  QqnumOf(tbl, c) \in {c, NoNum}
<1> DEFINE rows == {x \in tbl : x.code = c}
<1>1. CASE rows = {}
  BY <1>1 DEF QqnumOf
<1>2. CASE rows # {}
  <2>1. (CHOOSE x \in rows : TRUE) \in rows
    BY <1>2
  <2>2. \A x \in rows : x.num \in {c, NoNum}
    BY DEF Groups
  <2> QED
    BY <1>2, <2>1, <2>2 DEF QqnumOf
<1> QED
  BY <1>1, <1>2

\* A list keeps one row for each group and the numbers of all of them: those
\* of the answer are carried over, the others are not touched.
LEMMA ListKeeps ==
    ASSUME NEW tbl \in SUBSET Groups, Unique(tbl), NEW a \in Answers
    PROVE  /\ update_group_list(tbl, a) \in SUBSET Groups
           /\ Unique(update_group_list(tbl, a))
           /\ Kept(tbl, update_group_list(tbl, a))
<1> DEFINE old == {r \in tbl : r.gid \notin a /\ r.code \notin CodesOf(a)}
           new == {NewGroup(g, QqnumOf(tbl, CodeOf(g))) : g \in a}
<1>1. update_group_list(tbl, a) = old \cup new
  BY DEF update_group_list
<1>2. \A g \in a : g \in Gids /\ QqnumOf(tbl, CodeOf(g)) \in {CodeOf(g), NoNum}
  BY QqnumType DEF Answers
<1>3. \A g \in a : LET x == NewGroup(g, QqnumOf(tbl, CodeOf(g))) IN
                   /\ x \in Groups /\ x.gid = g /\ x.code = CodeOf(g)
                   /\ x.num = QqnumOf(tbl, CodeOf(g))
  BY <1>2, NewGroupType
<1>4. old \cup new \in SUBSET Groups
  BY <1>3
<1>5. Unique(old \cup new)
  <2> SUFFICES ASSUME NEW r \in old \cup new, NEW s \in old \cup new,
                      r.gid = s.gid \/ r.code = s.code
               PROVE  r = s
    BY DEF Unique
  <2>1. CASE r \in old /\ s \in old
    BY <2>1 DEF Unique
  <2>2. \A x \in old, y \in new : x.gid # y.gid /\ x.code # y.code
    <3> SUFFICES ASSUME NEW x \in old, NEW y \in new
                 PROVE  x.gid # y.gid /\ x.code # y.code
      OBVIOUS
    <3>1. PICK g \in a : y = NewGroup(g, QqnumOf(tbl, CodeOf(g)))
      OBVIOUS
    <3>2. y.gid = g /\ y.code = CodeOf(g)
      BY <1>3, <3>1
    <3>3. CodeOf(g) \in CodesOf(a)
      BY DEF CodesOf
    <3> QED
      BY <3>2, <3>3
  <2>3. CASE r \in new /\ s \in new
    <3>1. PICK g \in a : r = NewGroup(g, QqnumOf(tbl, CodeOf(g)))
      BY <2>3
    <3>2. PICK h \in a : s = NewGroup(h, QqnumOf(tbl, CodeOf(h)))
      BY <2>3
    <3>3. r.gid = g /\ r.code = CodeOf(g) /\ s.gid = h /\ s.code = CodeOf(h)
      BY <1>3, <3>1, <3>2
    <3>4. g = h
      BY <3>3 DEF Answers
    <3> QED
      BY <3>1, <3>2, <3>4
  <2> QED
    BY <2>1, <2>2, <2>3
<1>6. Kept(tbl, old \cup new)
  <2> SUFFICES ASSUME NEW r \in tbl
               PROVE  \E s \in old \cup new : s.code = r.code /\ s.num = r.num
    BY DEF Kept
  <2>1. CASE r \in old
    BY <2>1
  <2>2. CASE r.gid \in a \/ r.code \in CodesOf(a)
    <3>1. r.code = CodeOf(r.gid)
      BY DEF Groups
    <3>2. PICK g \in a : CodeOf(g) = r.code
      BY <2>2, <3>1 DEF CodesOf
    <3>3. QqnumOf(tbl, CodeOf(g)) = r.num
      BY <3>2, QqnumFound
    <3> QED
      BY <1>3, <3>2, <3>3
  <2> QED
    BY <2>1, <2>2
<1> QED
  BY <1>1, <1>4, <1>5, <1>6

\* A number that arrives goes to the row of its group, and no other changes.
LEMMA MapKeeps ==
    ASSUME NEW tbl \in SUBSET Groups, Unique(tbl), NEW c \in Codes
    PROVE  /\ map_group_qqnum(tbl, c, c) \in SUBSET Groups
           /\ Unique(map_group_qqnum(tbl, c, c))
           /\ Kept(tbl, map_group_qqnum(tbl, c, c))
<1> DEFINE f(r) == IF r.code = c THEN [r EXCEPT !.num = c] ELSE r
<1>1. map_group_qqnum(tbl, c, c) = {f(r) : r \in tbl}
  BY DEF map_group_qqnum
<1>2. \A r \in tbl : f(r) \in Groups /\ f(r).gid = r.gid /\ f(r).code = r.code
  BY DEF Groups
<1>3. \A r \in tbl : r.num # NoNum => f(r).num = r.num
  BY DEF Groups
<1> HIDE DEF f
<1>4. {f(r) : r \in tbl} \in SUBSET Groups
  BY <1>2
<1>5. Unique({f(r) : r \in tbl})
  BY <1>2 DEF Unique
<1>6. Kept(tbl, {f(r) : r \in tbl})
  BY <1>2, <1>3 DEF Kept
<1> QED
  BY <1>1, <1>4, <1>5, <1>6

-----------------------------------------------------------------------------
\* The types and the unique rows are closed under every step, and a step keeps
\* the numbers.
IInv == TypeOK /\ OneRow

NumbersStay == Kept(table, table')

LEMMA Same ==
    ASSUME IInv, table' = table
    PROVE  table' \in SUBSET Groups /\ OneRow' /\ NumbersStay
  BY DEF IInv, TypeOK, OneRow, NumbersStay, Kept

\* The table after a list.
LEMMA AfterList ==
    ASSUME IInv, NEW a \in Answers, Listed(a)
    PROVE  table' \in SUBSET Groups /\ OneRow' /\ NumbersStay
<1>1. table \in SUBSET Groups /\ Unique(table)
  BY DEF IInv, TypeOK, OneRow, Unique
<1>2. table' = update_group_list(table, a)
  BY DEF Listed
<1>3. table' \in SUBSET Groups /\ Unique(table') /\ Kept(table, table')
  BY <1>1, <1>2, ListKeeps
<1> QED
  BY <1>3 DEF OneRow, Unique, NumbersStay

\* The table after a number.
LEMMA AfterNumber ==
    ASSUME IInv, NEW c \in Codes, table' = map_group_qqnum(table, c, c)
    PROVE  table' \in SUBSET Groups /\ OneRow' /\ NumbersStay
<1>1. table \in SUBSET Groups /\ Unique(table)
  BY DEF IInv, TypeOK, OneRow, Unique
<1>2. table' \in SUBSET Groups /\ Unique(table') /\ Kept(table, table')
  BY <1>1, MapKeeps
<1> QED
  BY <1>2 DEF OneRow, Unique, NumbersStay

\* The walks of both askers: where they wait, and the gids they have.
WalksTyped ==
    /\ lpc \in [Lists -> {"idle", "list", "listed", "number", "pause", "failed",
                         "told", "members", "rest"}]
    /\ lpc["refresh"] \notin {"told", "members", "rest"}
    /\ todo \in [Lists -> SUBSET Gids] /\ cur \in [Lists -> SUBSET Gids]
    /\ dangling \in [Lists -> BOOLEAN]

\* The invariant, in the parts that the steps change.
LEMMA Typed ==
    IInv <=> /\ table \in SUBSET Groups /\ OneRow /\ mem \in SUBSET Groups
             /\ WalksTyped /\ up \in BOOLEAN /\ answer \in Answers
  BY DEF IInv, TypeOK, WalksTyped

\* An asker goes on to where it may wait.
LEMMA GotoTypes ==
    ASSUME WalksTyped, NEW w \in Lists,
           NEW l \in {"idle", "list", "listed", "number", "pause", "failed",
                      "told", "members", "rest"},
           l \in {"told", "members", "rest"} => w = "login",
           Goto(w, l), UNCHANGED dangling,
           todo' \in [Lists -> SUBSET Gids], cur' \in [Lists -> SUBSET Gids]
    PROVE  WalksTyped'
  BY DEF WalksTyped, Goto, Lists

\* New groups in m_groups have no number yet.
LEMMA InsertTypes ==
    ASSUME IInv, NEW a \in Answers, Inserted(a)
    PROVE  /\ mem' \in SUBSET Groups /\ dangling' \in [Lists -> BOOLEAN]
           /\ todo' \in [Lists -> SUBSET Gids]
<1>1. a \subseteq Gids
  BY DEF Answers
<1>2. \A g \in a : NewGroup(g, NoNum) \in Groups
  BY <1>1, NewGroupType
<1>3. todo \in [Lists -> SUBSET Gids] /\ dangling \in [Lists -> BOOLEAN]
  BY Typed DEF WalksTyped
<1>4. mem' \in SUBSET Groups
  BY <1>2, Typed DEF Inserted
<1>5. PICK s \in SUBSET (a \ GidsOf(mem)) :
         todo' = [w \in Lists |-> IF Walking(w) /\ ~dangling[w]
                                  THEN todo[w] \cup s ELSE todo[w]]
  BY DEF Inserted
<1>6. s \in SUBSET Gids
  BY <1>1, <1>5
<1>7. todo' \in [Lists -> SUBSET Gids]
  BY <1>3, <1>5, <1>6
<1> QED
  BY <1>3, <1>4, <1>7 DEF Inserted

LEMMA ReplaceTypes ==
    ASSUME IInv, NEW a \in Answers, Replaced(a)
    PROVE  /\ mem' \in SUBSET Groups /\ dangling' \in [Lists -> BOOLEAN]
           /\ todo' \in [Lists -> SUBSET Gids]
<1>1. CASE Inserted(a)
  BY <1>1, InsertTypes
<1>2. CASE /\ mem' = {NewGroup(g, NoNum) : g \in a}
           /\ dangling' = [w \in Lists |-> dangling[w] \/ Walking(w)]
           /\ UNCHANGED todo
  <2>1. \A g \in a : NewGroup(g, NoNum) \in Groups
    BY NewGroupType DEF Answers
  <2>2. todo \in [Lists -> SUBSET Gids]
    BY Typed DEF WalksTyped
  <2>3. dangling \in [Lists -> BOOLEAN]
    BY Typed DEF WalksTyped
  <2>4. \A w \in Lists : (dangling[w] \/ Walking(w)) \in BOOLEAN
    BY DEF Walking
  <2>5. dangling' \in [Lists -> BOOLEAN]
    BY <1>2, <2>4
  <2> QED
    BY <1>2, <2>1, <2>2, <2>5
<1> QED
  BY <1>1, <1>2 DEF Replaced

\* The answer to an asker: the list is taken, and the asker goes on.
LEMMA AnswerTypes ==
    ASSUME IInv, NEW a \in Answers, Listed(a), Inserted(a) \/ Replaced(a),
           NEW w \in Lists, Goto(w, "listed") \/ Goto(w, "idle"),
           UNCHANGED <<cur, up>>
    PROVE  IInv' /\ NumbersStay
<1>1. table' \in SUBSET Groups /\ OneRow' /\ NumbersStay
  BY AfterList
<1>2. /\ mem' \in SUBSET Groups /\ dangling' \in [Lists -> BOOLEAN]
      /\ todo' \in [Lists -> SUBSET Gids]
  BY InsertTypes, ReplaceTypes
<1>3. /\ lpc' \in [Lists -> {"idle", "list", "listed", "number", "pause",
                             "failed", "told", "members", "rest"}]
      /\ lpc'["refresh"] \notin {"told", "members", "rest"}
  BY Typed DEF WalksTyped, Goto, Lists
<1>4. cur' \in [Lists -> SUBSET Gids] /\ up' \in BOOLEAN /\ answer' \in Answers
  BY Typed DEF WalksTyped, Listed
<1>5. WalksTyped'
  BY <1>2, <1>3, <1>4 DEF WalksTyped
<1> QED
  BY <1>1, <1>2, <1>4, <1>5, Typed DEF IInv, TypeOK, WalksTyped

\* A set of gids in the place of the one of an asker.
LEMMA OneSet ==
    ASSUME NEW f \in [Lists -> SUBSET Gids], NEW w \in Lists,
           NEW x \in SUBSET Gids
    PROVE  [f EXCEPT ![w] = x] \in [Lists -> SUBSET Gids]
  OBVIOUS

\* The walk goes on within the groups it was given, or ends.
LEMMA WalkTypes ==
    ASSUME WalksTyped, NEW w \in Lists, NEW left \in SUBSET Gids,
           NEW ok \in BOOLEAN, WalkOn(w, left, ok)
    PROVE  WalksTyped'
<1> DEFINE lacking == {g \in left : ~group_has_qqnum(table, CodeOf(g))}
<1>0. /\ todo \in [Lists -> SUBSET Gids] /\ cur \in [Lists -> SUBSET Gids]
      /\ dangling \in [Lists -> BOOLEAN] /\ lacking \in SUBSET Gids
  BY DEF WalksTyped
<1>1. CASE /\ Goto(w, IF w = "login" /\ ok THEN "told" ELSE "idle")
           /\ cur' = [cur EXCEPT ![w] = {}] /\ todo' = [todo EXCEPT ![w] = {}]
           /\ dangling' = [dangling EXCEPT ![w] = FALSE]
  <2>1. cur' \in [Lists -> SUBSET Gids] /\ todo' \in [Lists -> SUBSET Gids]
    BY <1>0, <1>1, OneSet
  <2>2. dangling' \in [Lists -> BOOLEAN]
    BY <1>0, <1>1
  <2> QED
    BY <1>1, <2>1, <2>2 DEF WalksTyped, Goto, Lists
<1>2. CASE /\ Goto(w, "number") /\ UNCHANGED dangling
           /\ \E g \in lacking : /\ cur' = [cur EXCEPT ![w] = {g}]
                                 /\ todo' = [todo EXCEPT ![w] = lacking \ {g}]
  <2>1. PICK g \in lacking : /\ cur' = [cur EXCEPT ![w] = {g}]
                             /\ todo' = [todo EXCEPT ![w] = lacking \ {g}]
    BY <1>2
  <2>2. {g} \in SUBSET Gids /\ lacking \ {g} \in SUBSET Gids
    BY <1>0
  <2> HIDE DEF lacking
  <2>3. cur' \in [Lists -> SUBSET Gids] /\ todo' \in [Lists -> SUBSET Gids]
    BY <1>0, <2>1, <2>2, OneSet
  <2> QED
    BY <1>2, <2>3, GotoTypes
<1> QED
  BY <1>1, <1>2 DEF WalkOn

\* So does the walk over the members.
LEMMA MembersTypes ==
    ASSUME WalksTyped, NEW left \in SUBSET Gids, MembersOn(left)
    PROVE  WalksTyped'
<1>0. /\ todo \in [Lists -> SUBSET Gids] /\ cur \in [Lists -> SUBSET Gids]
      /\ dangling \in [Lists -> BOOLEAN] /\ "login" \in Lists
  BY DEF WalksTyped, Lists
<1>1. CASE /\ Goto("login", "idle")
           /\ cur' = [cur EXCEPT !["login"] = {}]
           /\ todo' = [todo EXCEPT !["login"] = {}]
           /\ dangling' = [dangling EXCEPT !["login"] = FALSE]
  <2>1. cur' \in [Lists -> SUBSET Gids] /\ todo' \in [Lists -> SUBSET Gids]
    BY <1>0, <1>1, OneSet
  <2>2. dangling' \in [Lists -> BOOLEAN]
    BY <1>0, <1>1
  <2> QED
    BY <1>1, <2>1, <2>2 DEF WalksTyped, Goto, Lists
<1>2. CASE /\ Goto("login", "members") /\ UNCHANGED dangling
           /\ \E g \in left : /\ cur' = [cur EXCEPT !["login"] = {g}]
                              /\ todo' = [todo EXCEPT !["login"] = left \ {g}]
  <2>1. PICK g \in left : /\ cur' = [cur EXCEPT !["login"] = {g}]
                          /\ todo' = [todo EXCEPT !["login"] = left \ {g}]
    BY <1>2
  <2>2. {g} \in SUBSET Gids /\ left \ {g} \in SUBSET Gids
    OBVIOUS
  <2>3. cur' \in [Lists -> SUBSET Gids] /\ todo' \in [Lists -> SUBSET Gids]
    BY <1>0, <2>1, <2>2, OneSet
  <2> QED
    BY <1>0, <1>2, <2>3, GotoTypes
<1> QED
  BY <1>1, <1>2 DEF MembersOn

\* A step of a walk that leaves table and m_groups alone.
LEMMA WalkStep ==
    ASSUME IInv, UNCHANGED <<table, mem, answer>>, up' \in BOOLEAN, WalksTyped'
    PROVE  IInv' /\ NumbersStay
<1>1. table' \in SUBSET Groups /\ OneRow' /\ NumbersStay
  BY Same
<1> QED
  BY <1>1, Typed DEF IInv, TypeOK, WalksTyped

\* The table is empty at first.
LEMMA InitIInv == Init => IInv
<1> SUFFICES ASSUME Init PROVE IInv
  OBVIOUS
<1>1. {} \in Answers
  BY DEF Answers
<1> QED
  BY <1>1 DEF Init, IInv, TypeOK, OneRow, Lists

\* Every step of the groups keeps the types, the unique rows and the numbers.
LEMMA StepIInv == IInv /\ [Next]_vars => IInv' /\ NumbersStay
<1> SUFFICES ASSUME IInv, [Next]_vars PROVE IInv' /\ NumbersStay
  OBVIOUS
<1>0. {} \in Answers
  BY DEF Answers
<1>t. /\ table \in SUBSET Groups /\ mem \in SUBSET Groups /\ WalksTyped
      /\ todo \in [Lists -> SUBSET Gids] /\ cur \in [Lists -> SUBSET Gids]
      /\ up \in BOOLEAN /\ answer \in Answers
  BY Typed DEF WalksTyped
<1>m. GidsOf(mem) \in SUBSET Gids
  BY <1>t DEF GidsOf, Groups
<1>1. ASSUME NEW w \in Lists, Start(w) PROVE IInv' /\ NumbersStay
  <2>1. WalksTyped'
    BY <1>1, <1>t, GotoTypes DEF Start
  <2> QED
    BY <1>1, <1>t, <2>1, WalkStep DEF Start
<1>2. ASSUME NEW w \in Lists, ListReturns(w) PROVE IInv' /\ NumbersStay
  BY <1>2, AnswerTypes DEF ListReturns
<1>3. ASSUME NEW w \in Lists, ListRefused(w) PROVE IInv' /\ NumbersStay
  <2>1. WalksTyped'
    BY <1>3, <1>t, GotoTypes DEF ListRefused
  <2> QED
    BY <1>3, <1>t, <2>1, WalkStep DEF ListRefused
<1>4. ASSUME NEW w \in Lists, ListHasErrors(w) \/ ListBroken(w)
      PROVE  IInv' /\ NumbersStay
  BY <1>4, AnswerTypes DEF ListHasErrors, ListBroken
<1>5. ASSUME NEW w \in Lists, WalkStarts(w) \/ PauseOver(w)
      PROVE  IInv' /\ NumbersStay
  <2>1. /\ UNCHANGED <<table, mem, up, answer>>
        /\ \E left \in SUBSET Gids, ok \in BOOLEAN : WalkOn(w, left, ok)
    BY <1>5, <1>t, <1>m DEF WalkStarts, PauseOver
  <2>2. WalksTyped'
    BY <1>t, <2>1, WalkTypes
  <2> QED
    BY <1>t, <2>1, <2>2, WalkStep
<1>6. ASSUME NEW w \in Lists, NumberReturns(w) PROVE IInv' /\ NumbersStay
  <2>1. PICK g \in cur[w] :
           /\ table' = map_group_qqnum(table, CodeOf(g), CodeOf(g))
           /\ mem' = {IF m.gid = g /\ ~dangling[w]
                      THEN [m EXCEPT !.num = m.code] ELSE m : m \in mem}
    BY <1>6 DEF NumberReturns
  <2>2. CodeOf(g) \in Codes
    BY <1>t DEF Gids, CodeOf
  <2>3. table' \in SUBSET Groups /\ OneRow' /\ NumbersStay
    BY <2>1, <2>2, AfterNumber
  <2>4. \A m \in mem : [m EXCEPT !.num = m.code] \in Groups
    BY <1>t DEF Groups
  <2>5. mem' \in SUBSET Groups
    BY <1>t, <2>1, <2>4
  <2>6. cur' \in [Lists -> SUBSET Gids]
    BY <1>6, <1>t, OneSet DEF NumberReturns
  <2>7. WalksTyped'
    BY <1>6, <1>t, <2>6, GotoTypes DEF NumberReturns
  <2> QED
    BY <1>6, <1>t, <2>3, <2>5, <2>7, Typed
    DEF NumberReturns, IInv, TypeOK, WalksTyped
<1>7. ASSUME NEW w \in Lists, NumberFails(w) PROVE IInv' /\ NumbersStay
  <2>1. cur' \in [Lists -> SUBSET Gids]
    BY <1>7, <1>t, OneSet DEF NumberFails
  <2>2. WalksTyped'
    BY <1>7, <1>t, <2>1, GotoTypes DEF NumberFails
  <2> QED
    BY <1>7, <1>t, <2>2, WalkStep DEF NumberFails
<1>8. ASSUME NEW w \in Lists, Dangles(w) PROVE IInv' /\ NumbersStay
  BY <1>8, <1>t, WalkStep DEF Dangles, walks, WalksTyped
<1>9. CASE MembersStart \/ RestOver
  <2>1. /\ UNCHANGED <<table, mem, up, answer>>
        /\ \E left \in SUBSET Gids : MembersOn(left)
    BY <1>9, <1>t, <1>m DEF MembersStart, RestOver, Lists
  <2>2. WalksTyped'
    BY <1>t, <2>1, MembersTypes
  <2> QED
    BY <1>t, <2>1, <2>2, WalkStep
<1>10. CASE MembersReturn
  <2>0. "login" \in Lists
    BY DEF Lists
  <2>1. /\ cur' = [cur EXCEPT !["login"] = {}]
        /\ UNCHANGED <<table, mem, todo, dangling, answer>>
        /\ up' \in BOOLEAN
        /\ Goto("login", "rest") \/ UNCHANGED lpc
    BY <1>10, <1>t DEF MembersReturn
  <2>2. cur' \in [Lists -> SUBSET Gids]
    BY <1>t, <2>0, <2>1, OneSet
  <2>3. CASE Goto("login", "rest")
    <3>1. WalksTyped'
      BY <1>t, <2>0, <2>1, <2>2, <2>3, GotoTypes
    <3> QED
      BY <2>1, <3>1, WalkStep
  <2>4. CASE UNCHANGED lpc
    <3>1. WalksTyped'
      BY <1>t, <2>1, <2>2, <2>4 DEF WalksTyped
    <3> QED
      BY <2>1, <3>1, WalkStep
  <2> QED
    BY <2>1, <2>3, <2>4
<1>11. CASE Cleared
  <2>1. \A w \in Lists : (dangling[w] \/ Walking(w)) \in BOOLEAN
    BY DEF Walking
  <2>2. dangling' \in [Lists -> BOOLEAN]
    BY <1>11, <2>1 DEF Cleared
  <2>3. WalksTyped'
    BY <1>11, <1>t, <2>2 DEF Cleared, WalksTyped
  <2> QED
    BY <1>0, <1>11, <1>t, <2>3, Same DEF Cleared, IInv, TypeOK, WalksTyped
<1>12. CASE Restart
  BY <1>0, <1>12, Same DEF Restart, IInv, TypeOK, Lists
<1>13. CASE UNCHANGED vars
  BY <1>13, Same DEF vars, IInv, TypeOK
<1> QED
  BY <1>1, <1>2, <1>3, <1>4, <1>5, <1>6, <1>7, <1>8, <1>9, <1>10, <1>11, <1>12,
     <1>13 DEF Next, Answered

\* The inductive invariant holds in every reachable state.
THEOREM GroupsInvariant == Spec => []IInv
<1>1. IInv /\ [Next]_vars => IInv'
  BY StepIInv
<1> QED
  BY InitIInv, <1>1, PTL DEF Spec

\* The variables have their types: a group has its own number or none.
THEOREM GroupsTypes == Spec => []TypeOK
<1>1. IInv => TypeOK
  BY DEF IInv
<1> QED
  BY <1>1, GroupsInvariant, PTL

\* No group and no gid ever has two rows, for every number of groups and every
\* history of lists, broken ones and dangling iterators included.
THEOREM RowsUnique == Spec => []OneRow
<1>1. IInv => OneRow
  BY DEF IInv
<1> QED
  BY <1>1, GroupsInvariant, PTL

\* A number that the table has is never lost again.
THEOREM NumbersKept == Spec => NumberKept
<1>1. IInv /\ [Next]_vars =>
        [\A r \in table : r.num # NoNum =>
            \E s \in table' : s.code = r.code /\ s.num = r.num]_vars
  BY StepIInv DEF NumbersStay, Kept
<1> QED
  BY <1>1, GroupsInvariant, PTL DEF Spec, NumberKept
-----------------------------------------------------------------------------
(* The groups of an answer                                                 *)

\* Every group of an answer is in the table afterwards.
LEMMA ListCovers ==
    ASSUME NEW a, Listed(a)
    PROVE  a \subseteq GidsOf(table') /\ answer' = a
<1>1. ASSUME NEW g \in a PROVE \E r \in table' : r.gid = g
  <2>1. NewGroup(g, QqnumOf(table, CodeOf(g))) \in table'
    BY DEF Listed, update_group_list
  <2>2. \A n : NewGroup(g, n).gid = g
    BY DEF NewGroup
  <2> QED
    BY <2>1, <2>2
<1> QED
  BY <1>1 DEF GidsOf, Listed

\* It is in m_groups too, when the new groups join the old ones.
LEMMA InsertCovers ==
    ASSUME NEW a, Inserted(a)
    PROVE  a \subseteq GidsOf(mem')
<1> SUFFICES ASSUME NEW g \in a PROVE \E m \in mem' : m.gid = g
  BY DEF GidsOf
<1>1. CASE g \in GidsOf(mem)
  BY <1>1 DEF GidsOf, Inserted
<1>2. CASE g \notin GidsOf(mem)
  <2>1. NewGroup(g, NoNum) \in mem'
    BY <1>2 DEF Inserted
  <2>2. NewGroup(g, NoNum).gid = g
    BY DEF NewGroup
  <2> QED
    BY <2>1, <2>2
<1> QED
  BY <1>1, <1>2

\* And when the new list may take the place of the old one.
LEMMA ReplaceCovers ==
    ASSUME NEW a, Replaced(a)
    PROVE  a \subseteq GidsOf(mem')
<1>1. CASE Inserted(a)
  BY <1>1, InsertCovers
<1>2. CASE mem' = {NewGroup(g, NoNum) : g \in a}
  <2>1. ASSUME NEW g \in a PROVE \E m \in mem' : m.gid = g
    <3>1. NewGroup(g, NoNum) \in mem' /\ NewGroup(g, NoNum).gid = g
      BY <1>2 DEF NewGroup
    <3> QED
      BY <3>1
  <2> QED
    BY <2>1 DEF GidsOf
<1> QED
  BY <1>1, <1>2 DEF Replaced

\* Groups of which each has one with its gid in another set.
LEMMA SameGids ==
    ASSUME NEW S, NEW T, \A r \in S : \E s \in T : s.gid = r.gid
    PROVE  GidsOf(S) \subseteq GidsOf(T)
  BY DEF GidsOf

\* A number that arrives changes no gid, neither in the table nor in m_groups,
\* whether its group is still there or not.
LEMMA NumberCovers ==
    ASSUME IInv, NEW w \in Lists, NumberReturns(w)
    PROVE  GidsOf(mem) \subseteq GidsOf(mem') /\ GidsOf(table) \subseteq GidsOf(table')
<1>0. table \in SUBSET Groups /\ mem \in SUBSET Groups
  BY DEF IInv, TypeOK
<1>1. PICK g \in cur[w] :
         /\ table' = map_group_qqnum(table, CodeOf(g), CodeOf(g))
         /\ mem' = {IF m.gid = g /\ ~dangling[w]
                    THEN [m EXCEPT !.num = m.code] ELSE m : m \in mem}
  BY DEF NumberReturns
<1>2. ASSUME NEW r \in mem PROVE \E s \in mem' : s.gid = r.gid
  <2> DEFINE s == IF r.gid = g /\ ~dangling[w]
                  THEN [r EXCEPT !.num = r.code] ELSE r
  <2>1. s \in mem'
    BY <1>1
  <2>2. s.gid = r.gid
    BY <1>0 DEF Groups
  <2> QED
    BY <2>1, <2>2
<1>3. ASSUME NEW r \in table PROVE \E s \in table' : s.gid = r.gid
  <2> DEFINE s == IF r.code = CodeOf(g) THEN [r EXCEPT !.num = CodeOf(g)] ELSE r
  <2>1. s \in table'
    BY <1>1 DEF map_group_qqnum
  <2>2. s.gid = r.gid
    BY <1>0 DEF Groups
  <2> QED
    BY <2>1, <2>2
<1> QED
  BY <1>2, <1>3, SameGids

\* No step takes a group of the last list out of the table or of m_groups: only
\* the next list of either asker may, which is the last one then, and what
\* empties m_groups.
LEMMA StepListed == IInv /\ AnswerListed /\ [Next]_vars => AnswerListed'
<1> SUFFICES ASSUME IInv, AnswerListed, [Next]_vars PROVE AnswerListed'
  OBVIOUS
<1>1. ASSUME NEW a, Listed(a), Inserted(a) \/ Replaced(a) PROVE AnswerListed'
  <2>1. a \subseteq GidsOf(mem') /\ a \subseteq GidsOf(table') /\ answer' = a
    BY <1>1, ListCovers, InsertCovers, ReplaceCovers
  <2> QED
    BY <2>1 DEF AnswerListed, GidsOf
<1>2. ASSUME NEW w \in Lists, ListReturns(w) \/ ListHasErrors(w) \/ ListBroken(w)
      PROVE  AnswerListed'
  BY <1>1, <1>2 DEF ListReturns, ListHasErrors, ListBroken
<1>3. ASSUME UNCHANGED <<table, mem, answer>> PROVE AnswerListed'
  BY <1>3 DEF AnswerListed, GidsOf
<1>4. ASSUME NEW w \in Lists,
             \/ Start(w) \/ ListRefused(w) \/ WalkStarts(w) \/ NumberFails(w)
             \/ PauseOver(w) \/ Dangles(w)
      PROVE  AnswerListed'
  BY <1>3, <1>4 DEF Start, ListRefused, WalkStarts, NumberFails, PauseOver, Dangles
<1>5. CASE MembersStart \/ MembersReturn \/ RestOver
  BY <1>3, <1>5 DEF MembersStart, MembersReturn, RestOver
<1>6. ASSUME NEW w \in Lists, NumberReturns(w) PROVE AnswerListed'
  <2>1. /\ GidsOf(mem) \subseteq GidsOf(mem')
        /\ GidsOf(table) \subseteq GidsOf(table')
    BY <1>6, NumberCovers
  <2>2. answer \subseteq GidsOf(mem') /\ answer \subseteq GidsOf(table')
    BY <2>1 DEF AnswerListed
  <2>3. answer' = answer
    BY <1>6 DEF NumberReturns
  <2> QED
    BY <2>2, <2>3 DEF AnswerListed, GidsOf
<1>7. CASE Cleared \/ Restart
  BY <1>7 DEF Cleared, Restart, AnswerListed
<1>8. CASE UNCHANGED vars
  BY <1>3, <1>8 DEF vars
<1> QED
  BY <1>2, <1>4, <1>5, <1>6, <1>7, <1>8 DEF Next, Answered

\* Every group of the last list can be found in the table and in m_groups, for
\* every history of lists, whole, refused or faulty, of both askers at once, of
\* numbers that arrive under replaced maps, and of new gids
\* (webqq_group_list.hpp:97-190, webqq_login.hpp:239, webqq_loop.cpp:297).
THEOREM AnswersListed == Spec => []AnswerListed
<1>1. Init => AnswerListed
  BY DEF Init, AnswerListed
<1> QED
  BY <1>1, StepListed, GroupsInvariant, PTL DEF Spec
===============================================================================
