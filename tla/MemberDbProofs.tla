---------------------------- MODULE MemberDbProofs ----------------------------
(***************************************************************************)
(* No member is forgotten, for every number of groups, of members and of   *)
(* chains that run at once.                                                *)
(***************************************************************************)
EXTENDS MemberDb, TLAPS

\* Rows stay rows when members are inserted, and the others keep theirs.
LEMMA InsertType ==
    ASSUME NEW r \in [Uids -> Row], NEW g \in Gids, NEW S \in SUBSET Uids,
           NEW n \in BOOLEAN
    PROVE  /\ group_new_buddy(r, g, S, n) \in [Uids -> Row]
           /\ \A u \in S : group_new_buddy(r, g, S, n)[u] = [gid |-> g, num |-> n]
           /\ \A u \in Uids \ S : group_new_buddy(r, g, S, n)[u] = r[u]
  BY DEF group_new_buddy, Row

\* A number is written to one row, and to none if there is no row.
LEMMA MapType ==
    ASSUME NEW r \in [Uids -> Row], NEW u \in Uids, NEW n \in BOOLEAN
    PROVE  /\ map_buddy_qqnum(r, u, n) \in [Uids -> Row]
           /\ map_buddy_qqnum(r, u, n)[u].gid = r[u].gid
           /\ map_buddy_qqnum(r, u, n)[u].num = (n /\ r[u].gid # None)
           /\ \A w \in Uids \ {u} : map_buddy_qqnum(r, u, n)[w] = r[w]
<1> DEFINE m == map_buddy_qqnum(r, u, n)
<1>1. r[u] \in Row
  OBVIOUS
<1>2. CASE r[u] = NoRow
  <2>1. r[u].gid = None /\ r[u].num = FALSE
    BY <1>2 DEF NoRow
  <2>2. m = [r EXCEPT ![u].num = FALSE]
    BY <2>1 DEF map_buddy_qqnum
  <2>3. m = r
    BY <1>2, <2>2 DEF NoRow
  <2> QED
    BY <2>1, <2>3
<1>3. CASE r[u] \in [gid : Gids, num : BOOLEAN]
  <2>1. r[u].gid \in Gids /\ r[u].gid # None
    BY <1>3, NoneAssumption
  <2>2. m = [r EXCEPT ![u] = [r[u] EXCEPT !.num = n]]
    BY <2>1 DEF map_buddy_qqnum
  <2>3. [r[u] EXCEPT !.num = n] = [gid |-> r[u].gid, num |-> n]
    BY <1>3
  <2>4. [gid |-> r[u].gid, num |-> n] \in Row
    BY <2>1 DEF Row
  <2> QED
    BY <2>1, <2>2, <2>3, <2>4
<1> QED
  BY <1>1, <1>2, <1>3 DEF Row

\* What a chain is.
LEMMA ChainType ==
    ASSUME NEW ch \in Chain
    PROVE  /\ ch.left \in SUBSET Uids
           /\ ch.at = "free" => ch = Free
           /\ ch.at = "asking" => ch.cur \in Uids /\ ch.cur \in ch.left
  BY DEF Chain, Free

\* A walk changes its own chain only, and whoever it leaves behind has a number.
LEMMA WalkLeavesNone ==
    ASSUME TypeOK, NEW c \in Chains, NEW rest \in SUBSET Uids,
           NEW r \in [Uids -> Row], WalkOn(c, rest, r)
    PROVE  /\ chain' \in [Chains -> Chain]
           /\ \A d \in Chains \ {c} : chain'[d] = chain[d]
           /\ \A u \in rest : r[u].num \/ u \in chain'[c].left
<1> DEFINE lacking == {u \in rest : ~buddy_has_qqnum(r, u)}
<1>1. CASE lacking = {} /\ chain' = [chain EXCEPT ![c] = Free]
  <2>1. \A u \in rest : r[u].num
    BY <1>1 DEF buddy_has_qqnum
  <2> QED
    BY <1>1, <2>1 DEF TypeOK, Chain
<1>2. ASSUME NEW u \in lacking, NEW passed \in SUBSET (rest \ lacking),
             chain' = [chain EXCEPT ![c] = [at |-> "asking", cur |-> u,
                                            left |-> rest \ passed]]
      PROVE  /\ chain' \in [Chains -> Chain]
             /\ \A d \in Chains \ {c} : chain'[d] = chain[d]
             /\ \A w \in rest : r[w].num \/ w \in chain'[c].left
  <2>1. u \in Uids /\ u \in rest \ passed /\ rest \ passed \in SUBSET Uids
    OBVIOUS
  <2>2. [at |-> "asking", cur |-> u, left |-> rest \ passed] \in Chain
    BY <2>1 DEF Chain
  <2>3. chain'[c].left = rest \ passed
    BY <1>2 DEF TypeOK
  <2>4. \A w \in passed : r[w].num
    BY DEF buddy_has_qqnum
  <2> QED
    BY <1>2, <2>2, <2>3, <2>4 DEF TypeOK
<1> QED
  BY <1>1, <1>2 DEF WalkOn

\* A new chain owes the number of every member of its group, and no other chain
\* changes.
LEMMA StartOwesAll ==
    ASSUME TypeOK, NEW r \in [Uids -> Row], NEW g \in Gids, StartChain(r, g)
    PROVE  /\ chain' \in [Chains -> Chain]
           /\ \A d \in Chains : chain[d].left \subseteq chain'[d].left
           /\ \E c \in Chains : chain'[c].left = get_group_all_buddies_uin(r, g)
<1> DEFINE members == get_group_all_buddies_uin(r, g)
           new == [at |-> "posted", cur |-> None, left |-> members]
<1>1. PICK c \in Chains : chain[c] = Free /\ chain' = [chain EXCEPT ![c] = new]
  BY DEF StartChain
<1>2. members \in SUBSET Uids
  BY DEF get_group_all_buddies_uin
<1>3. new \in Chain
  BY <1>2 DEF Chain
<1>4. chain'[c] = new /\ chain[c].left = {}
  BY <1>1 DEF TypeOK, Free
<1>5. \A d \in Chains \ {c} : chain'[d] = chain[d]
  BY <1>1 DEF TypeOK
<1> QED
  BY <1>1, <1>3, <1>4, <1>5 DEF TypeOK

-----------------------------------------------------------------------------
\* One member is accounted for.
Owed(u) == \/ rows[u].gid = None \/ rows[u].num \/ u \in excused
           \/ \E c \in Chains : u \in chain[c].left

MInv == TypeOK /\ NumbersOwed

LEMMA MInit == Init => MInv
  BY DEF Init, MInv, TypeOK, NumbersOwed, Row, Chain, NoRow, Free

\* A list, with the chain that it starts.
LEMMA ListStep ==
    ASSUME MInv, MembersReturn \/ MembersRefused PROVE MInv'
<1> USE DEF MInv
<1>1. asked \in Gids /\ asked' = None
  BY DEF MembersReturn, MembersRefused, TypeOK
<1>2. PICK S \in SUBSET Uids :
         \/ rows' = group_new_buddy(rows, asked, S, FALSE)
         \/ rows' = rows /\ S = {}
  BY DEF MembersReturn, MembersRefused
<1>3. /\ rows' \in [Uids -> Row] /\ \A u \in Uids \ S : rows'[u] = rows[u]
      /\ \A u \in S : rows'[u].gid = asked
  <2>1. CASE rows' = group_new_buddy(rows, asked, S, FALSE)
    <3>1. rows \in [Uids -> Row]
      BY DEF TypeOK
    <3> QED
      BY <1>1, <2>1, <3>1 DEF group_new_buddy, Row
  <2>2. CASE rows' = rows /\ S = {}
    BY <2>2 DEF TypeOK
  <2> QED
    BY <1>2, <2>1, <2>2
<1>5. StartChain(rows', asked)
      /\ excused' = excused \ get_group_all_buddies_uin(rows', asked)
  BY DEF MembersReturn, MembersRefused
<1>6. /\ chain' \in [Chains -> Chain]
      /\ \A d \in Chains : chain[d].left \subseteq chain'[d].left
      /\ \E c \in Chains : chain'[c].left = get_group_all_buddies_uin(rows', asked)
  BY <1>1, <1>3, <1>5, StartOwesAll
<1>7. TypeOK'
  BY <1>1, <1>3, <1>5, <1>6 DEF TypeOK
<1>8. ASSUME NEW u \in Uids PROVE Owed(u)'
  <2>1. CASE rows'[u].gid = asked
    <3>1. u \in get_group_all_buddies_uin(rows', asked)
      BY <2>1 DEF get_group_all_buddies_uin
    <3> QED
      BY <1>6, <3>1 DEF Owed
  <2>2. CASE rows'[u].gid # asked
    <3>1. rows'[u] = rows[u]
      BY <1>3, <2>2
    <3>2. u \notin get_group_all_buddies_uin(rows', asked)
      BY <2>2 DEF get_group_all_buddies_uin
    <3> QED
      BY <1>5, <1>6, <3>1, <3>2 DEF NumbersOwed, Owed
  <2> QED
    BY <2>1, <2>2
<1> QED
  BY <1>7, <1>8 DEF NumbersOwed, Owed

\* An answer to a number request, or none: u is excused or has its number, and
\* the walk goes on with the others.
LEMMA NumberStep ==
    ASSUME MInv, NEW c \in Chains, NumberReturns(c) \/ NumberFails(c)
    PROVE  MInv'
<1> USE DEF MInv
<1>1. chain[c] \in Chain /\ chain[c].at = "asking" /\ asked' = asked
  BY DEF NumberReturns, NumberFails, TypeOK
<1>2. PICK u \in Uids : u = chain[c].cur /\ chain[c].left \ {u} \in SUBSET Uids
  BY <1>1, ChainType
<1>3. PICK n \in BOOLEAN :
         /\ rows' = map_buddy_qqnum(rows, u, n)
         /\ excused' = IF n THEN excused \ {u} ELSE excused \cup {u}
         /\ WalkOn(c, chain[c].left \ {u}, rows')
  BY <1>2 DEF NumberReturns, NumberFails
<1>4. /\ rows' \in [Uids -> Row]
      /\ rows'[u].gid = rows[u].gid
      /\ rows'[u].num = (n /\ rows[u].gid # None)
      /\ \A w \in Uids \ {u} : rows'[w] = rows[w]
  BY <1>2, <1>3, MapType DEF TypeOK
<1>5. /\ chain' \in [Chains -> Chain]
      /\ \A d \in Chains \ {c} : chain'[d] = chain[d]
      /\ \A w \in chain[c].left \ {u} : rows'[w].num \/ w \in chain'[c].left
  BY <1>2, <1>3, <1>4, WalkLeavesNone
<1>6. excused' \in SUBSET Uids
  BY <1>2, <1>3 DEF TypeOK
<1>7. TypeOK'
  BY <1>1, <1>4, <1>5, <1>6 DEF TypeOK
<1>8. Owed(u)'
  BY <1>3, <1>4 DEF Owed
<1>9. ASSUME NEW w \in Uids \ {u} PROVE Owed(w)'
  <2>1. rows'[w] = rows[w] /\ (w \in excused => w \in excused')
    BY <1>3, <1>4
  <2>2. Owed(w)
    BY DEF NumbersOwed, Owed
  <2>3. CASE \E d \in Chains : w \in chain[d].left
    BY <1>5, <2>3 DEF Owed
  <2> QED
    BY <2>1, <2>2, <2>3 DEF Owed
<1> QED
  <2>1. \A w \in Uids : Owed(w)'
    BY <1>8, <1>9
  <2> QED
    BY <1>7, <2>1 DEF NumbersOwed, Owed

\* Steps that change no row: a chain begins or stops.
LEMMA ChainStepOnly ==
    ASSUME MInv, NEW c \in Chains, ChainBegins(c) \/ NumberStops(c)
    PROVE  MInv'
<1> USE DEF MInv
<1>1. chain[c] \in Chain /\ chain[c].left \in SUBSET Uids
  BY ChainType DEF TypeOK
<1>2. rows' = rows /\ asked' = asked
  BY DEF ChainBegins, NumberStops
<1>3. CASE ChainBegins(c)
  <2>1. excused' = excused /\ WalkOn(c, chain[c].left, rows)
    BY <1>3 DEF ChainBegins
  <2>2. /\ chain' \in [Chains -> Chain]
        /\ \A d \in Chains \ {c} : chain'[d] = chain[d]
        /\ \A w \in chain[c].left : rows[w].num \/ w \in chain'[c].left
    BY <1>1, <2>1, WalkLeavesNone DEF TypeOK
  <2>3. ASSUME NEW w \in Uids PROVE Owed(w)'
    BY <1>2, <2>1, <2>2 DEF NumbersOwed, Owed
  <2> QED
    BY <1>2, <2>1, <2>2, <2>3 DEF TypeOK, NumbersOwed, Owed
<1>4. CASE NumberStops(c)
  <2>1. chain' = [chain EXCEPT ![c] = Free] /\ excused' = excused \cup chain[c].left
    BY <1>4 DEF NumberStops
  <2>2. chain' \in [Chains -> Chain] /\ \A d \in Chains \ {c} : chain'[d] = chain[d]
    BY <2>1 DEF TypeOK, Chain
  <2>3. ASSUME NEW w \in Uids PROVE Owed(w)'
    BY <1>2, <2>1, <2>2 DEF NumbersOwed, Owed
  <2> QED
    BY <1>1, <1>2, <2>1, <2>2, <2>3 DEF TypeOK, NumbersOwed, Owed
<1> QED
  BY <1>3, <1>4

LEMMA MStep == MInv /\ [Next]_vars => MInv'
<1> SUFFICES ASSUME MInv, [Next]_vars PROVE MInv'
  OBVIOUS
<1> USE DEF MInv
<1>1. CASE AskMembers
  BY <1>1 DEF AskMembers, TypeOK, NumbersOwed
<1>2. CASE MembersReturn \/ MembersRefused
  BY <1>2, ListStep
<1>3. CASE MembersBroken
  <2>1. asked \in Gids /\ asked' = None /\ chain' = chain
    BY <1>3 DEF MembersBroken, TypeOK
  <2>2. PICK S \in SUBSET Uids : /\ rows' = group_new_buddy(rows, asked, S, FALSE)
                                 /\ excused' = excused \cup S
    BY <1>3 DEF MembersBroken
  <2>3. rows' \in [Uids -> Row] /\ \A u \in Uids \ S : rows'[u] = rows[u]
    BY <2>1, <2>2 DEF TypeOK, group_new_buddy, Row
  <2> QED
    BY <2>1, <2>2, <2>3 DEF TypeOK, NumbersOwed
<1>4. ASSUME NEW c \in Chains, ChainStep(c) PROVE MInv'
  BY <1>4, NumberStep, ChainStepOnly DEF ChainStep
<1>5. CASE AddBuddy
  <2>1. PICK g \in Gids, u \in Uids, n \in BOOLEAN :
           /\ rows' = group_new_buddy(rows, g, {u}, n)
           /\ excused' = IF n THEN excused \ {u} ELSE excused \cup {u}
    BY <1>5 DEF AddBuddy
  <2>2. /\ rows' \in [Uids -> Row]
        /\ rows'[u] = [gid |-> g, num |-> n]
        /\ \A w \in Uids \ {u} : rows'[w] = rows[w]
    BY <2>1, InsertType DEF TypeOK
  <2>3. asked' = asked /\ chain' = chain
    BY <1>5 DEF AddBuddy
  <2>4. TypeOK'
    BY <2>1, <2>2, <2>3 DEF TypeOK
  <2>5. Owed(u)'
    BY <2>1, <2>2 DEF Owed
  <2>6. ASSUME NEW w \in Uids \ {u} PROVE Owed(w)'
    BY <2>1, <2>2, <2>3 DEF NumbersOwed, Owed
  <2> QED
    BY <2>4, <2>5, <2>6 DEF NumbersOwed, Owed
<1>6. CASE Restart
  <2>1. rows' \in [Uids -> Row] /\ chain' \in [Chains -> Chain]
    BY <1>6 DEF Restart, TypeOK, Row, Chain
  <2> QED
    BY <1>6, <2>1 DEF Restart, TypeOK, NumbersOwed
<1>7. CASE UNCHANGED vars
  BY <1>7 DEF vars, TypeOK, NumbersOwed
<1> QED
  BY <1>1, <1>2, <1>3, <1>4, <1>5, <1>6, <1>7 DEF Next

\* Types, and members who are accounted for, in every reachable state.
THEOREM MembersInvariant == Spec => []MInv
<1> QED
  BY MInit, MStep, PTL DEF Spec

\* The variables of MemberDb have their types (buddy_mgr, and the walk over
\* m_uins of update_group_member_qq_op).
THEOREM MembersTypes == Spec => []TypeOK
<1>1. MInv => TypeOK
  BY DEF MInv
<1> QED
  BY <1>1, MembersInvariant, PTL

\* No member is forgotten by the chains of number requests, however they
\* overlap (webqq_impl.cpp:229-268).
THEOREM NoMemberForgotten == Spec => []NumbersOwed
<1>1. MInv => NumbersOwed
  BY DEF MInv
<1> QED
  BY <1>1, MembersInvariant, PTL
=============================================================================
