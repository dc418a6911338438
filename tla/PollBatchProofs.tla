--------------------------- MODULE PollBatchProofs ---------------------------
(***************************************************************************)
(* Every group message is delivered, once and in order, and a relogin has  *)
(* its reason, for every answer to a poll: of any length, with any number  *)
(* of groups, senders and images.                                          *)
(***************************************************************************)
EXTENDS PollBatch, SequenceTheorems, WellFoundedInduction, TLAPS

\* The reason is known from the message on, not only when the main loop gets
\* the result: need_refresh is carried over the requests of later messages.
JustifiedInv == ec = "need_refresh" => unknown

\* The result of a message that goes on: kept while its images are requested,
\* or the one it ends with.
LEMMA ContentResult ==
    ASSUME NEW n, NEW gs, NEW e, Content(n, gs, e)
    PROVE  ec' = ec \/ ec' = e
  BY DEF Content, Done, WalkFrom

\* Every step that sets need_refresh has met an unknown group.
LEMMA StepJustified == JustifiedInv /\ [Next]_vars => JustifiedInv'
<1> SUFFICES ASSUME JustifiedInv, [Next]_vars PROVE JustifiedInv'
  OBVIOUS
<1> USE DEF JustifiedInv
<1>1. CASE PollAnswers
  BY <1>1 DEF PollAnswers, WalkFrom
<1>2. CASE ItemStarts
  <2>1. CASE unknown' = TRUE
    BY <2>1
  <2>2. CASE UNCHANGED <<ec, unknown>>
    BY <2>2
  <2>3. CASE UNCHANGED unknown /\ Content(batch[i].images, groups, "ok")
    BY <2>3, ContentResult
  <2> QED
    BY <1>2, <2>1, <2>2, <2>3 DEF ItemStarts
<1>3. CASE RefreshReturns
  <2>1. ec' = ec \/ ec' = "ok"
    BY <1>3, ContentResult DEF RefreshReturns
  <2> QED
    BY <1>3, <2>1 DEF RefreshReturns
<1>4. CASE CfaceReturns
  <2>1. PICK e \in {"ok", "cface_ec"} : Content(left, groups, e)
    BY <1>4 DEF CfaceReturns
  <2>2. ec' = ec \/ ec' = e
    BY <2>1, ContentResult
  <2> QED
    BY <1>4, <2>2 DEF CfaceReturns
<1>5. CASE Reported
  BY <1>5 DEF Reported
<1>6. CASE GroupsChange
  BY <1>6 DEF GroupsChange, walk
<1>7. CASE Stop
  BY <1>7 DEF Stop, walk
<1>8. CASE UNCHANGED vars
  BY <1>8 DEF vars, walk
<1>9. CASE UnsignedStarts \/ RefreshTaken
  BY <1>9 DEF UnsignedStarts, RefreshTaken
<1> QED
  BY <1>1, <1>2, <1>3, <1>4, <1>5, <1>6, <1>7, <1>8, <1>9 DEF Next, Loop

\* The main loop gives up a session only for a message of an unknown group.
THEOREM ReloginHasReason == Spec => []ReloginJustified
<1>1. Init => JustifiedInv
  BY DEF Init, JustifiedInv
<1>2. JustifiedInv => ReloginJustified
  BY DEF JustifiedInv, ReloginJustified
<1> QED
  BY <1>1, <1>2, StepJustified, PTL DEF Spec
-----------------------------------------------------------------------------
(* The walk over an answer                                                 *)

\* A set of natural numbers has a least one, and Min is it.
LEMMA LeastEntry ==
    ASSUME NEW S \in SUBSET Nat, S # {}
    PROVE  Min(S) \in S /\ \A y \in S : Min(S) <= y
<1>1. \E R : IsWellFoundedOn(R, Nat) /\ R = {p \in Nat \X Nat : p[1] < p[2]}
  BY NatLessThanWellFounded, Zenon DEF OpToRel
<1>2. PICK R : IsWellFoundedOn(R, Nat) /\ R = {p \in Nat \X Nat : p[1] < p[2]}
  BY <1>1
<1>3. PICK x \in S : \A y \in S : ~(<<y, x>> \in R)
  BY <1>2, WFMin
<1>4. \A y \in S : ~(y < x)
  <2>1. \A y \in S : y < x => <<y, x>> \in R
    BY <1>2
  <2> QED
    BY <1>3, <2>1
<1>5. \A y \in S : x <= y
  BY <1>4
<1> QED
  BY <1>5 DEF Min

\* The walk from entry k comes to an entry with no group message in between, or
\* ends when no entry after k is one, or dies at an entry.
LEMMA WalkOver ==
    ASSUME NEW b \in Seq(Items), NEW k \in 0..Len(b), NEW e, WalkFrom(b, k, e)
    PROVE  /\ ec' = e /\ ppc' \in {"item", "report", "crashed"}
           /\ i' \in 0..Len(b)
           /\ ppc' = "item" =>
                 /\ i' \in (k + 1)..Len(b)
                 /\ \A j \in (k + 1)..(i' - 1) : ~IsGroupMessage(b[j])
           /\ ppc' = "report" =>
                 \A j \in (k + 1)..Len(b) : ~IsGroupMessage(b[j])
<1> DEFINE rest == {j \in (k + 1)..Len(b) : b[j].kind # "other"}
<1>0. Len(b) \in Nat /\ k \in Nat /\ k <= Len(b)
  BY LenProperties
<1>1. ec' = e
  BY DEF WalkFrom
<1>2. CASE rest # {} /\ i' = Min(rest) /\ ppc' \in {"item", "crashed"}
  <2>1. rest \in SUBSET Nat
    BY <1>0
  <2>2. i' \in rest /\ \A y \in rest : i' <= y
    BY <1>2, <2>1, LeastEntry
  <2>3. i' \in (k + 1)..Len(b)
    BY <2>2
  <2>4. \A j \in (k + 1)..(i' - 1) : ~IsGroupMessage(b[j])
    <3> SUFFICES ASSUME NEW j \in (k + 1)..(i' - 1), IsGroupMessage(b[j])
                 PROVE  FALSE
      OBVIOUS
    <3>1. j \in (k + 1)..Len(b) /\ ~(i' <= j)
      <4> DEFINE h == i'
      <4>1. h \in (k + 1)..Len(b) /\ j \in (k + 1)..(h - 1)
        BY <2>3
      <4> HIDE DEF rest, h
      <4>2. j \in (k + 1)..Len(b) /\ ~(h <= j)
        BY <1>0, <4>1
      <4> QED
        BY <4>2 DEF h
    <3>2. j \in rest
      BY <3>1 DEF IsGroupMessage
    <3> QED
      BY <2>2, <3>1, <3>2
  <2>5. i' \in 0..Len(b)
    BY <1>0, <2>3
  <2> QED
    BY <1>1, <1>2, <2>3, <2>4, <2>5
<1>3. CASE rest = {} /\ i' = k /\ ppc' = "report"
  <2>1. \A j \in (k + 1)..Len(b) : ~IsGroupMessage(b[j])
    BY <1>3 DEF IsGroupMessage
  <2> QED
    BY <1>1, <1>3, <2>1
<1> QED
  BY <1>2, <1>3 DEF WalkFrom

-----------------------------------------------------------------------------
(* Type correctness and the deliveries                                     *)

Busy == {"item", "refresh", "members", "cface"}

\* The entry being processed is one of the answer, and a group message if it
\* waits for a request; and between two polls nothing is delivered.
EntryInv ==
    /\ ppc \in Busy => i \in 1..Len(batch)
    /\ ppc \in Busy \ {"item"} => IsGroupMessage(batch[i])
    /\ ppc = "poll" => delivered = <<>>

IInv == TypeOK /\ EntryInv /\ DeliveredInOrder

\* A group message has a group, a sender and images.
LEMMA EntryType ==
    ASSUME IInv, ppc \in Busy, IsGroupMessage(batch[i])
    PROVE  batch[i] \in GroupMessage /\ batch[i].images \in 0..MaxImages
<1>1. batch[i] \in Items /\ batch[i].kind = "group_message"
  BY ElementOfSeq DEF IInv, TypeOK, EntryInv, IsGroupMessage
<1>2. batch[i] \in GroupMessage
  BY <1>1 DEF Items, Other, Broken, Unsigned
<1> QED
  BY <1>2 DEF GroupMessage

\* Deliveries up to an entry are deliveries up to a later one, if no group
\* message lies between.
LEMMA SameEntries ==
    ASSUME NEW b, NEW k \in Nat, NEW n \in Nat, k <= n,
           \A j \in (k + 1)..n : ~IsGroupMessage(b[j])
    PROVE  {j \in 1..n : IsGroupMessage(b[j])} = {j \in 1..k : IsGroupMessage(b[j])}
<1>1. \A j \in 1..n : IsGroupMessage(b[j]) => j \in 1..k
  OBVIOUS
<1>2. \A j \in 1..k : j \in 1..n
  OBVIOUS
<1> QED
  BY <1>1, <1>2

\* Ordered(d, E, b): d are the entries E of b, each once and in their order.
Ordered(d, E, b) ==
    \E f \in [DOMAIN d -> E] :
        /\ \A j \in E : \E n \in DOMAIN d : f[n] = j
        /\ \A m, n \in DOMAIN d : m < n => f[m] < f[n]
        /\ \A n \in DOMAIN d : d[n] = b[f[n]]

\* The delivery of an entry after all that were delivered.
LEMMA DeliverNext ==
    ASSUME NEW b \in Seq(Items), NEW k \in 1..Len(b), IsGroupMessage(b[k]),
           NEW d \in Seq(GroupMessage), b[k] \in GroupMessage,
           Ordered(d, {j \in 1..(k - 1) : IsGroupMessage(b[j])}, b)
    PROVE  Ordered(Append(d, b[k]), {j \in 1..k : IsGroupMessage(b[j])}, b)
<1> DEFINE E == {j \in 1..(k - 1) : IsGroupMessage(b[j])}
           D == {j \in 1..k : IsGroupMessage(b[j])}
           c == Append(d, b[k])
           z == Len(d) + 1
<1>1. PICK f \in [DOMAIN d -> E] :
         /\ \A j \in E : \E n \in DOMAIN d : f[n] = j
         /\ \A m, n \in DOMAIN d : m < n => f[m] < f[n]
         /\ \A n \in DOMAIN d : d[n] = b[f[n]]
  BY DEF Ordered
<1>2. /\ DOMAIN d = 1..Len(d) /\ Len(d) \in Nat
      /\ DOMAIN c = 1..(Len(d) + 1)
      /\ \A n \in 1..Len(d) : c[n] = d[n]
      /\ c[z] = b[k]
  BY AppendProperties, LenProperties
<1>3. D = E \cup {k} /\ \A j \in E : j < k
  <2>1. k \in Nat /\ 1 <= k
    BY LenProperties
  <2>2. \A j \in 1..k : j = k \/ j \in 1..(k - 1)
    BY <2>1
  <2>3. \A j \in 1..(k - 1) : j \in 1..k /\ j < k
    BY <2>1
  <2>4. k \in 1..k
    BY <2>1
  <2> QED
    BY <2>2, <2>3, <2>4
<1>4. \A n \in DOMAIN c : n = z \/ (n \in DOMAIN d /\ n < z)
  BY <1>2
<1>5. z \in DOMAIN c /\ z \notin DOMAIN d /\ \A n \in DOMAIN d : n \in DOMAIN c /\ ~(z < n)
  BY <1>2
<1>6. \A n \in DOMAIN d : c[n] = d[n]
  BY <1>2
<1>7. c[z] = b[k]
  BY <1>2
<1>8. ~(z < z)
  BY <1>2
<1> HIDE DEF c, z, D, E
<1> DEFINE g == [n \in DOMAIN c |-> IF n = z THEN k ELSE f[n]]
<1>9. g \in [DOMAIN c -> D]
  BY <1>1, <1>3, <1>4
<1>10. g[z] = k /\ \A n \in DOMAIN d : g[n] = f[n]
  BY <1>5
<1>11. \A j \in D : \E n \in DOMAIN c : g[n] = j
  <2> SUFFICES ASSUME NEW j \in D PROVE \E n \in DOMAIN c : g[n] = j
    OBVIOUS
  <2> HIDE DEF g
  <2>1. CASE j = k
    BY <1>5, <1>10, <2>1
  <2>2. CASE j \in E
    <3>1. PICK n \in DOMAIN d : f[n] = j
      BY <1>1, <2>2
    <3> QED
      BY <1>5, <1>10, <3>1
  <2> QED
    BY <1>3, <2>1, <2>2
<1> HIDE DEF g
<1>12. \A m, n \in DOMAIN c : m < n => g[m] < g[n]
  <2> SUFFICES ASSUME NEW m \in DOMAIN c, NEW n \in DOMAIN c, m < n
               PROVE  g[m] < g[n]
    OBVIOUS
  <2>1. m \in DOMAIN d
    BY <1>4, <1>5, <1>8
  <2>2. CASE n = z
    <3>1. f[m] \in E
      BY <1>1, <2>1
    <3> QED
      BY <1>3, <1>10, <2>1, <2>2, <3>1
  <2>3. CASE n \in DOMAIN d
    BY <1>1, <1>10, <2>1, <2>3
  <2> QED
    BY <1>4, <2>2, <2>3
<1>13. \A n \in DOMAIN c : c[n] = b[g[n]]
  BY <1>1, <1>4, <1>6, <1>7, <1>10
<1>14. Ordered(c, D, b)
  BY <1>9, <1>11, <1>12, <1>13 DEF Ordered
<1> QED
  BY <1>14 DEF c, D

\* Before the first entry there is nothing to deliver.
LEMMA DeliverNone == \A b : Ordered(<<>>, {}, b)
<1> SUFFICES ASSUME NEW b PROVE Ordered(<<>>, {}, b)
  OBVIOUS
<1>1. DOMAIN <<>> = {}
  OBVIOUS
<1>2. [x \in {} |-> x] \in [DOMAIN <<>> -> {}]
  BY <1>1
<1> QED
  BY <1>1, <1>2 DEF Ordered

LEMMA UpToOrdered ==
    \A k : DeliveredUpTo(k) <=> Ordered(delivered, GroupEntries(k), batch)
  BY DEF DeliveredUpTo, Ordered
-----------------------------------------------------------------------------
(* Every step keeps the invariant                                          *)

\* The walk over b goes on after entry k with the group messages up to k
\* delivered, or dies.
LEMMA WalkKeeps ==
    ASSUME NEW b \in Seq(Items), NEW k \in 0..Len(b), NEW e, WalkFrom(b, k, e),
           batch' = b,
           ppc' # "crashed" =>
              Ordered(delivered', {j \in 1..k : IsGroupMessage(b[j])}, b)
    PROVE  EntryInv' /\ DeliveredInOrder' /\ i' \in 0..Len(b)
<1>1. /\ ppc' \in {"item", "report", "crashed"} /\ i' \in 0..Len(b)
      /\ ppc' = "item" =>
            /\ i' \in (k + 1)..Len(b)
            /\ \A j \in (k + 1)..(i' - 1) : ~IsGroupMessage(b[j])
      /\ ppc' = "report" => \A j \in (k + 1)..Len(b) : ~IsGroupMessage(b[j])
  BY WalkOver
<1>0. Len(b) \in Nat /\ k \in Nat /\ k <= Len(b)
  BY LenProperties
<1>2. EntryInv'
  <2>1. ppc' = "item" => i' \in 1..Len(b)
    BY <1>0, <1>1
  <2> QED
    BY <1>1, <2>1 DEF EntryInv, Busy, IsGroupMessage
<1>3. CASE ppc' = "item"
  <2>0. i' \in (k + 1)..Len(b)
    BY <1>1, <1>3
  <2>1. i' - 1 \in Nat /\ k <= i' - 1
    <3> DEFINE h == i'
    <3>1. h \in (k + 1)..Len(b)
      BY <2>0
    <3> HIDE DEF h
    <3>2. h - 1 \in Nat /\ k <= h - 1
      BY <1>0, <3>1
    <3> QED
      BY <3>2 DEF h
  <2>2. {j \in 1..(i' - 1) : IsGroupMessage(b[j])}
           = {j \in 1..k : IsGroupMessage(b[j])}
    BY <1>0, <1>1, <1>3, <2>1, SameEntries
  <2>3. Ordered(delivered', {j \in 1..(i' - 1) : IsGroupMessage(b[j])}, b)
    BY <1>3, <2>2
  <2>4. DeliveredInOrder'
    BY <1>3, <2>3
    DEF DeliveredInOrder, DeliveredUpTo, GroupEntries, Ordered, IsGroupMessage
  <2> QED
    BY <1>1, <1>2, <2>4
<1>4. CASE ppc' = "report"
  <2>2. {j \in 1..Len(b) : IsGroupMessage(b[j])}
           = {j \in 1..k : IsGroupMessage(b[j])}
    BY <1>0, <1>1, <1>4, SameEntries
  <2>3. Ordered(delivered', {j \in 1..Len(b) : IsGroupMessage(b[j])}, b)
    BY <1>4, <2>2
  <2> QED
    BY <1>1, <1>2, <1>4, <2>3
    DEF DeliveredInOrder, DeliveredUpTo, GroupEntries, Ordered, IsGroupMessage
<1>5. CASE ppc' = "crashed"
  BY <1>1, <1>2, <1>5 DEF DeliveredInOrder
<1> QED
  BY <1>1, <1>2, <1>3, <1>4, <1>5

\* Where neither the answer, the entry nor the deliveries change, and the walk
\* stays at its entry or dies, the invariant stays.
LEMMA StaySame ==
    ASSUME IInv, UNCHANGED <<batch, i, delivered>>,
           \/ ppc' = ppc \/ ppc' = "crashed"
           \/ ppc \in Busy /\ ppc' \in Busy /\ IsGroupMessage(batch[i])
    PROVE  EntryInv' /\ DeliveredInOrder'
<1>1. EntryInv'
  BY DEF IInv, EntryInv, Busy, IsGroupMessage
<1> QED
  BY <1>1 DEF IInv, DeliveredInOrder, DeliveredUpTo, GroupEntries, IsGroupMessage,
              Busy

\* The content of the message at the entry: it is delivered and the walk goes
\* on, or an image is requested, or the process dies.
LEMMA ContentKeeps ==
    ASSUME IInv, ppc \in Busy, IsGroupMessage(batch[i]),
           NEW n \in 0..MaxImages, NEW gs, NEW e \in Results, Content(n, gs, e)
    PROVE  /\ EntryInv' /\ DeliveredInOrder'
           /\ batch' = batch /\ i' \in 0..Len(batch) /\ left' \in 0..MaxImages
           /\ ec' \in Results /\ delivered' \in Seq(GroupMessage)
           /\ ppc' \in {"item", "report", "cface", "crashed"}
<1>t. /\ TypeOK /\ EntryInv /\ DeliveredInOrder
      /\ batch \in Seq(Items) /\ delivered \in Seq(GroupMessage)
      /\ i \in 1..Len(batch) /\ IsGroupMessage(batch[i])
      /\ batch[i] \in GroupMessage
  BY EntryType DEF IInv, TypeOK, EntryInv
<1>1. CASE Done(e) /\ left' = 0
  <2>1. /\ WalkFrom(batch, i, e) /\ batch' = batch
        /\ delivered' = IF ppc' = "crashed" THEN delivered
                        ELSE Append(delivered, batch[i])
    BY <1>1 DEF Done
  <2>2. Ordered(delivered, {j \in 1..(i - 1) : IsGroupMessage(batch[j])}, batch)
    BY <1>t, UpToOrdered DEF DeliveredInOrder, GroupEntries, Busy
  <2>3. ppc' # "crashed" =>
           Ordered(delivered', {j \in 1..i : IsGroupMessage(batch[j])}, batch)
    BY <1>t, <2>1, <2>2, DeliverNext
  <2>4. i \in 0..Len(batch)
    BY <1>t
  <2>5. EntryInv' /\ DeliveredInOrder' /\ i' \in 0..Len(batch)
    BY <1>t, <2>1, <2>3, <2>4, WalkKeeps
  <2>6. ec' = e /\ ppc' \in {"item", "report", "crashed"}
    BY <1>t, <2>1, <2>4, WalkOver
  <2>7. left' \in 0..MaxImages
    BY <1>1, MaxImagesAssumption
  <2> QED
    BY <1>t, <2>1, <2>5, <2>6, <2>7
<1>2. CASE /\ n > 0 /\ ppc' = "cface" /\ left' = n - 1
           /\ UNCHANGED <<batch, i, ec, delivered>>
  <2>1. left' \in 0..MaxImages
    BY <1>2, MaxImagesAssumption
  <2>2. EntryInv' /\ DeliveredInOrder'
    BY <1>2, StaySame DEF Busy
  <2> QED
    BY <1>2, <1>t, <2>1, <2>2 DEF TypeOK
<1>3. CASE ppc' = "crashed" /\ UNCHANGED <<batch, i, left, ec, delivered>>
  <2>1. EntryInv' /\ DeliveredInOrder'
    BY <1>3, StaySame
  <2> QED
    BY <1>3, <1>t, <2>1 DEF TypeOK
<1> QED
  BY <1>1, <1>2, <1>3 DEF Content

\* Every step keeps the types, the entry and the deliveries.
LEMMA StepIInv == IInv /\ [Next]_vars => IInv'
<1> SUFFICES ASSUME IInv, [Next]_vars PROVE IInv'
  OBVIOUS
<1>t. TypeOK /\ EntryInv /\ DeliveredInOrder
  BY DEF IInv
<1>1. CASE PollAnswers
  <2>1. /\ ppc = "poll" /\ batch' \in Batches /\ WalkFrom(batch', 0, "ok")
        /\ UNCHANGED <<left, groups, members, delivered, unknown, stopped>>
    BY <1>1 DEF PollAnswers
  <2>2. batch' \in Seq(Items) /\ Len(batch') \in Nat /\ Len(batch') <= MaxItems
    <3>1. PICK m \in 0..MaxItems : batch' \in [1..m -> Items]
      BY <2>1 DEF Batches, BoundedSeq, SeqOf
    <3>2. m \in Nat /\ m <= MaxItems
      BY <3>1, MaxItemsAssumption
    <3> QED
      BY <3>1, <3>2
  <2>3. delivered' = <<>> /\ delivered' \in Seq(GroupMessage)
    BY <1>t, <2>1 DEF EntryInv
  <2>4. {j \in 1..0 : IsGroupMessage(batch'[j])} = {}
    OBVIOUS
  <2>5. Ordered(delivered', {j \in 1..0 : IsGroupMessage(batch'[j])}, batch')
    BY <2>3, <2>4, DeliverNone
  <2>6. 0 \in 0..Len(batch')
    BY <2>2
  <2>7. EntryInv' /\ DeliveredInOrder' /\ i' \in 0..Len(batch')
    BY <2>1, <2>2, <2>5, <2>6, WalkKeeps
  <2>8. ec' = "ok" /\ ppc' \in {"item", "report", "crashed"}
    BY <2>1, <2>2, <2>6, WalkOver
  <2> QED
    BY <1>t, <2>1, <2>2, <2>3, <2>7, <2>8 DEF IInv, TypeOK, Results
<1>2. CASE ItemStarts
  <2>0. /\ ppc \in Busy /\ IsGroupMessage(batch[i])
        /\ UNCHANGED <<groups, members, stopped>>
    BY <1>2 DEF ItemStarts, Busy
  <2>1. batch[i].images \in 0..MaxImages
    BY <2>0, EntryType
  <2>2. unknown' \in BOOLEAN
    BY <1>2, <1>t DEF ItemStarts, TypeOK
  <2>3. CASE \E e \in {"need_refresh", "ok"} : Content(batch[i].images, groups, e)
    <3>1. PICK e \in Results : Content(batch[i].images, groups, e)
      BY <2>3 DEF Results
    <3>2. /\ EntryInv' /\ DeliveredInOrder'
          /\ batch' = batch /\ i' \in 0..Len(batch) /\ left' \in 0..MaxImages
          /\ ec' \in Results /\ delivered' \in Seq(GroupMessage)
          /\ ppc' \in {"item", "report", "cface", "crashed"}
      BY <2>0, <2>1, <3>1, ContentKeeps
    <3> QED
      BY <1>t, <2>0, <2>2, <3>2 DEF IInv, TypeOK
  <2>4. CASE ppc' = "refresh" /\ UNCHANGED <<batch, i, left, ec, delivered, unknown>>
    <3>1. EntryInv' /\ DeliveredInOrder'
      BY <2>0, <2>4, StaySame DEF Busy
    <3> QED
      BY <1>t, <2>0, <2>4, <3>1 DEF IInv, TypeOK
  <2> QED
    BY <1>2, <2>3, <2>4 DEF ItemStarts
<1>3. CASE RefreshReturns
  <2>0. /\ ppc \in Busy /\ IsGroupMessage(batch[i])
        /\ UNCHANGED <<groups, unknown, stopped>>
    BY <1>3, <1>t DEF RefreshReturns, Busy, EntryInv
  <2>1. batch[i].images \in 0..MaxImages /\ batch[i].uin \in Uins
    BY <2>0, EntryType DEF GroupMessage
  <2>2. Content(batch[i].images, groups, "ok") /\ "ok" \in Results
    BY <1>3 DEF RefreshReturns, Results
  <2>3. /\ EntryInv' /\ DeliveredInOrder'
        /\ batch' = batch /\ i' \in 0..Len(batch) /\ left' \in 0..MaxImages
        /\ ec' \in Results /\ delivered' \in Seq(GroupMessage)
        /\ ppc' \in {"item", "report", "cface", "crashed"}
    BY <2>0, <2>1, <2>2, ContentKeeps
  <2>4. members' \in SUBSET Uins
    BY <1>3, <1>t, <2>1 DEF RefreshReturns, TypeOK
  <2> QED
    BY <1>t, <2>0, <2>3, <2>4 DEF IInv, TypeOK
<1>4. CASE CfaceReturns
  <2>0. /\ ppc \in Busy /\ IsGroupMessage(batch[i])
        /\ UNCHANGED <<groups, members, unknown, stopped>>
    BY <1>4, <1>t DEF CfaceReturns, Busy, EntryInv
  <2>1. PICK e \in Results : Content(left, groups, e)
    BY <1>4 DEF CfaceReturns, Results
  <2>2. left \in 0..MaxImages
    BY <1>t DEF TypeOK
  <2>3. /\ EntryInv' /\ DeliveredInOrder'
        /\ batch' = batch /\ i' \in 0..Len(batch) /\ left' \in 0..MaxImages
        /\ ec' \in Results /\ delivered' \in Seq(GroupMessage)
        /\ ppc' \in {"item", "report", "cface", "crashed"}
    BY <2>0, <2>1, <2>2, ContentKeeps
  <2> QED
    BY <1>t, <2>0, <2>3 DEF IInv, TypeOK
<1>5. CASE Reported
  <2>1. /\ ppc' = "poll" /\ batch' = <<>> /\ i' = 0 /\ ec' = "ok"
        /\ delivered' = <<>> /\ unknown' = FALSE
        /\ UNCHANGED <<left, members, stopped>>
    BY <1>5 DEF Reported
  <2>2. groups' \in SUBSET Gids
    BY <1>5, <1>t DEF Reported, TypeOK
  <2>3. Len(batch') = 0 /\ batch' \in Seq(Items) /\ delivered' \in Seq(GroupMessage)
    BY <2>1
  <2>4. Len(batch') <= MaxItems /\ i' \in 0..Len(batch')
    BY <2>1, <2>3, MaxItemsAssumption
  <2>5. TypeOK'
    BY <1>t, <2>1, <2>2, <2>3, <2>4 DEF TypeOK, Results
  <2> QED
    BY <2>1, <2>5 DEF IInv, EntryInv, DeliveredInOrder, Busy
<1>6. CASE GroupsChange
  BY <1>6, <1>t, StaySame DEF GroupsChange, walk, IInv, TypeOK
<1>7. CASE Stop
  BY <1>7, <1>t, StaySame DEF Stop, walk, IInv, TypeOK
<1>8. CASE UNCHANGED vars
  BY <1>8, <1>t, StaySame DEF vars, walk, IInv, TypeOK
<1>9. CASE UnsignedStarts
  BY <1>9, <1>t, StaySame DEF UnsignedStarts, IInv, TypeOK
<1>10. CASE RefreshTaken
  <2>1. ppc \in Busy /\ IsGroupMessage(batch[i])
    BY <1>10, <1>t DEF RefreshTaken, Busy, EntryInv
  <2>2. ppc' \in {"members", "crashed"}
    BY <1>10 DEF RefreshTaken
  <2> QED
    BY <1>10, <1>t, <2>1, <2>2, StaySame DEF RefreshTaken, Busy, IInv, TypeOK
<1> QED
  BY <1>1, <1>2, <1>3, <1>4, <1>5, <1>6, <1>7, <1>8, <1>9, <1>10 DEF Next, Loop

\* The inductive invariant holds in every reachable state.
THEOREM BatchInvariant == Spec => []IInv
<1>1. Init => IInv
  <2> SUFFICES ASSUME Init PROVE IInv
    OBVIOUS
  <2>1. /\ Len(batch) = 0 /\ batch \in Seq(Items) /\ delivered \in Seq(GroupMessage)
    BY DEF Init
  <2>2. Len(batch) <= MaxItems /\ i \in 0..Len(batch) /\ left \in 0..MaxImages
    BY <2>1, MaxItemsAssumption, MaxImagesAssumption DEF Init
  <2>3. TypeOK
    BY <2>1, <2>2 DEF Init, TypeOK, Results
  <2> QED
    BY <2>3 DEF Init, IInv, EntryInv, DeliveredInOrder, Busy
<1> QED
  BY <1>1, StepIInv, PTL DEF Spec

\* The variables have their types.
THEOREM BatchTypes == Spec => []TypeOK
<1>1. IInv => TypeOK
  BY DEF IInv
<1> QED
  BY <1>1, BatchInvariant, PTL

\* Every group message of an answer is delivered, once and in order, whatever
\* is waited for in between.
THEOREM AllDelivered == Spec => []DeliveredInOrder
<1>1. IInv => DeliveredInOrder
  BY DEF IInv
<1> QED
  BY <1>1, BatchInvariant, PTL
===============================================================================
