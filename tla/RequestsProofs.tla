---------------------------- MODULE RequestsProofs ----------------------------
(***************************************************************************)
(* The callbacks of the calls of the application, for every number of      *)
(* calls, files of every length and whatever the cookies are; and the      *)
(* cookies that their requests carry, for answers of every number of lines *)
(* and whatever values the service gives.                                  *)
(***************************************************************************)
EXTENDS Requests, SequenceTheorems, WellFoundedInduction, TLAPS

\* How often a call is to be answered, so far.
Due(k) == (IF k.at = "ended" THEN 1 ELSE 0) + (IF k.opened THEN 0 ELSE 1)
          + (IF k.threw THEN 1 ELSE 0)

\* A call with the answers that are due.  Only one that is over has had a
\* callback that threw.
Good(k) ==
    /\ k \in Call
    /\ k.called + k.posted = Due(k)
    /\ k.threw => k.at = "ended"
    /\ k.op # "file" => k.opened

\* The fields of a call, and their types.
Fields == {"op", "at", "left", "opened", "threw", "posted", "called"}

Typed(m) ==
    /\ m.op \in {"none", "search", "join", "file"}
    /\ m.at \in {"idle", "ended", "asked", "image", "opening", "writing", "tail",
                 "reading", "sending"}
    /\ m.left \in 0 .. Blocks /\ m.opened \in BOOLEAN /\ m.threw \in BOOLEAN
    /\ m.posted \in 0 .. 1 /\ m.called \in 0 .. 3

\* One that waits at a request: only a failed open has been answered.
Waits(k) == Good(k) /\ k.posted = 0 /\ k.at \notin {"idle", "ended"}

CallInv == call \in [Calls -> {k \in Call : Good(k)}]

-----------------------------------------------------------------------------
(* What becomes of one call                                                *)

LEMMA IdleGood == Good(Idle)
  BY BlocksAssumption DEF Good, Due, Idle, Call

\* What a waiting call has been answered.
LEMMA WaitsCount ==
    ASSUME NEW k, Waits(k)
    PROVE  /\ k \in Call /\ ~k.threw /\ k.posted = 0
           /\ k.opened => k.called = 0
           /\ ~k.opened => k.called = 1
           /\ k.at \notin {"idle", "ended"}
           /\ k.op # "file" => k.opened
  BY DEF Waits, Good, Due, Call

\* A search or a join begins.
LEMMA AskGood ==
    ASSUME NEW op \in {"search", "join"}
    PROVE  Good([Idle EXCEPT !.op = op, !.at = "asked"])
<1> DEFINE m == [Idle EXCEPT !.op = op, !.at = "asked"]
<1>1. Typed(m)
  BY BlocksAssumption DEF Idle, Typed
<1>2. DOMAIN m = Fields
  BY BlocksAssumption DEF Idle, Fields
<1>3. m = [f \in DOMAIN m |-> m[f]]
  OBVIOUS
<1>4. /\ m.called + m.posted = Due(m)
      /\ m.threw => m.at = "ended"
      /\ m.op # "file" => m.opened
  BY BlocksAssumption DEF Idle, Due
<1>5. m \in Call
  BY <1>1, <1>2, <1>3 DEF Call, Typed, Fields
<1> QED
  BY <1>4, <1>5 DEF Good

\* An upload begins.
LEMMA FileGood ==
    ASSUME NEW opened \in BOOLEAN, NEW n \in 0 .. Blocks
    PROVE  Good([Idle EXCEPT !.op = "file", !.at = "opening",
                              !.opened = opened, !.left = n,
                              !.posted = IF opened THEN 0 ELSE 1])
<1> DEFINE m == [Idle EXCEPT !.op = "file", !.at = "opening",
                              !.opened = opened, !.left = n,
                              !.posted = IF opened THEN 0 ELSE 1]
<1>1. Typed(m)
  BY BlocksAssumption DEF Idle, Typed
<1>2. DOMAIN m = Fields
  BY BlocksAssumption DEF Idle, Fields
<1>3. m = [f \in DOMAIN m |-> m[f]]
  OBVIOUS
<1>4. /\ m.called + m.posted = Due(m)
      /\ m.threw => m.at = "ended"
      /\ m.op # "file" => m.opened
  BY BlocksAssumption DEF Idle, Due
<1>5. m \in Call
  BY <1>1, <1>2, <1>3 DEF Call, Typed, Fields
<1> QED
  BY <1>4, <1>5 DEF Good

\* A posted callback is one that is still due.
LEMMA PostedCount ==
    ASSUME NEW k, Good(k), k.posted > 0
    PROVE  /\ k \in Call /\ k.posted = 1 /\ k.called \in 0 .. 2
           /\ k.called + 1 = Due(k) /\ (k.threw => k.at = "ended")
           /\ k.op # "file" => k.opened
<1>1. k \in Call /\ k.posted = 1 /\ k.called \in 0 .. 3
  BY DEF Good, Call
<1>2. Due(k) \in 0 .. 3
  BY <1>1 DEF Good, Due, Call
<1> QED
  BY <1>1, <1>2 DEF Good

\* A posted callback runs.
LEMMA PostedGood ==
    ASSUME NEW k, Good(k), k.posted > 0
    PROVE  Good([k EXCEPT !.posted = @ - 1, !.called = @ + 1])
<1> DEFINE m == [k EXCEPT !.posted = @ - 1, !.called = @ + 1]
<1>1. Typed(m)
  BY PostedCount DEF Good, Call, Typed
<1>2. DOMAIN m = Fields
  BY PostedCount DEF Good, Call, Fields
<1>3. m = [f \in DOMAIN m |-> m[f]]
  OBVIOUS
<1>4. /\ m.called + m.posted = Due(m)
      /\ m.threw => m.at = "ended"
      /\ m.op # "file" => m.opened
  BY PostedCount DEF Good, Call, Due
<1>5. m \in Call
  BY <1>1, <1>2, <1>3 DEF Call, Typed, Fields
<1> QED
  BY <1>4, <1>5 DEF Good

\* The callback.
LEMMA CalledGood ==
    ASSUME NEW k, Waits(k)
    PROVE  Good([k EXCEPT !.at = "ended", !.called = @ + 1])
<1> DEFINE m == [k EXCEPT !.at = "ended", !.called = @ + 1]
<1>1. Typed(m)
  BY WaitsCount DEF Call, Typed
<1>2. DOMAIN m = Fields
  BY WaitsCount DEF Call, Fields
<1>3. m = [f \in DOMAIN m |-> m[f]]
  OBVIOUS
<1>4. /\ m.called + m.posted = Due(m)
      /\ m.threw => m.at = "ended"
      /\ m.op # "file" => m.opened
  BY WaitsCount DEF Call, Due
<1>5. m \in Call
  BY <1>1, <1>2, <1>3 DEF Call, Typed, Fields
<1> QED
  BY <1>4, <1>5 DEF Good

\* The callback is posted.
LEMMA FailedGood ==
    ASSUME NEW k, Waits(k)
    PROVE  Good([k EXCEPT !.at = "ended", !.posted = @ + 1])
<1> DEFINE m == [k EXCEPT !.at = "ended", !.posted = @ + 1]
<1>1. Typed(m)
  BY WaitsCount DEF Call, Typed
<1>2. DOMAIN m = Fields
  BY WaitsCount DEF Call, Fields
<1>3. m = [f \in DOMAIN m |-> m[f]]
  OBVIOUS
<1>4. /\ m.called + m.posted = Due(m)
      /\ m.threw => m.at = "ended"
      /\ m.op # "file" => m.opened
  BY WaitsCount DEF Call, Due
<1>5. m \in Call
  BY <1>1, <1>2, <1>3 DEF Call, Typed, Fields
<1> QED
  BY <1>4, <1>5 DEF Good

\* The callback of a join throws.
LEMMA ThrownGood ==
    ASSUME NEW k, Waits(k), k.opened
    PROVE  Good([k EXCEPT !.at = "ended", !.called = @ + 2, !.threw = TRUE])
<1> DEFINE m == [k EXCEPT !.at = "ended", !.called = @ + 2, !.threw = TRUE]
<1>1. Typed(m)
  BY WaitsCount DEF Call, Typed
<1>2. DOMAIN m = Fields
  BY WaitsCount DEF Call, Fields
<1>3. m = [f \in DOMAIN m |-> m[f]]
  OBVIOUS
<1>4. /\ m.called + m.posted = Due(m)
      /\ m.threw => m.at = "ended"
      /\ m.op # "file" => m.opened
  BY WaitsCount DEF Call, Due
<1>5. m \in Call
  BY <1>1, <1>2, <1>3 DEF Call, Typed, Fields
<1> QED
  BY <1>4, <1>5 DEF Good

\* The callback of an upload throws.
LEMMA ThrownPostedGood ==
    ASSUME NEW k, Waits(k)
    PROVE  Good([k EXCEPT !.at = "ended", !.called = @ + 1, !.posted = @ + 1,
                           !.threw = TRUE])
<1> DEFINE m == [k EXCEPT !.at = "ended", !.called = @ + 1, !.posted = @ + 1,
                           !.threw = TRUE]
<1>1. Typed(m)
  BY WaitsCount DEF Call, Typed
<1>2. DOMAIN m = Fields
  BY WaitsCount DEF Call, Fields
<1>3. m = [f \in DOMAIN m |-> m[f]]
  OBVIOUS
<1>4. /\ m.called + m.posted = Due(m)
      /\ m.threw => m.at = "ended"
      /\ m.op # "file" => m.opened
  BY WaitsCount DEF Call, Due
<1>5. m \in Call
  BY <1>1, <1>2, <1>3 DEF Call, Typed, Fields
<1> QED
  BY <1>4, <1>5 DEF Good

\* The next request.
LEMMA GoneGood ==
    ASSUME NEW k, Waits(k),
           NEW at \in {"asked", "image", "reading", "sending"}
    PROVE  Good([k EXCEPT !.at = at])
<1> DEFINE m == [k EXCEPT !.at = at]
<1>1. Typed(m)
  BY WaitsCount DEF Call, Typed
<1>2. DOMAIN m = Fields
  BY WaitsCount DEF Call, Fields
<1>3. m = [f \in DOMAIN m |-> m[f]]
  OBVIOUS
<1>4. /\ m.called + m.posted = Due(m)
      /\ m.threw => m.at = "ended"
      /\ m.op # "file" => m.opened
  BY WaitsCount DEF Call, Due
<1>5. m \in Call
  BY <1>1, <1>2, <1>3 DEF Call, Typed, Fields
<1> QED
  BY <1>4, <1>5 DEF Good

\* The next part of the file.
LEMMA WriteGood ==
    ASSUME NEW k, Waits(k)
    PROVE  Good([k EXCEPT !.at = IF k.left > 0 THEN "writing" ELSE "tail",
                           !.left = IF @ > 0 THEN @ - 1 ELSE 0])
<1> DEFINE m == [k EXCEPT !.at = IF k.left > 0 THEN "writing" ELSE "tail",
                           !.left = IF @ > 0 THEN @ - 1 ELSE 0]
<1>1. Typed(m)
  BY WaitsCount, BlocksAssumption DEF Call, Typed
<1>2. DOMAIN m = Fields
  BY WaitsCount, BlocksAssumption DEF Call, Fields
<1>3. m = [f \in DOMAIN m |-> m[f]]
  OBVIOUS
<1>4. /\ m.called + m.posted = Due(m)
      /\ m.threw => m.at = "ended"
      /\ m.op # "file" => m.opened
  BY WaitsCount, BlocksAssumption DEF Call, Due
<1>5. m \in Call
  BY <1>1, <1>2, <1>3 DEF Call, Typed, Fields
<1> QED
  BY <1>4, <1>5 DEF Good

-----------------------------------------------------------------------------
(* All calls                                                               *)

\* One call becomes another good one.
LEMMA OneCall ==
    ASSUME CallInv, NEW c \in Calls, NEW k, Good(k),
           call' = [call EXCEPT ![c] = k]
    PROVE  CallInv'
<1>1. k \in {j \in Call : Good(j)}
  BY DEF Good
<1> QED
  BY <1>1 DEF CallInv

\* The request of a waiting call ends.
LEMMA ReturnStep ==
    ASSUME CallInv, NEW c \in Calls, Waits(call[c]),
           \/ CallBack(c) \/ PostFailure(c) \/ WriteNext(c)
           \/ \E at \in {"image", "reading", "sending"} : Goto(c, at)
    PROVE  CallInv'
<1>1. CASE CallBack(c)
  <2>1. call' = [call EXCEPT ![c] = [call[c] EXCEPT !.at = "ended", !.called = @ + 1]]
    BY <1>1 DEF CallBack
  <2> QED
    BY <2>1, CalledGood, OneCall
<1>2. CASE PostFailure(c)
  <2>1. call' = [call EXCEPT ![c] = [call[c] EXCEPT !.at = "ended", !.posted = @ + 1]]
    BY <1>2 DEF PostFailure
  <2> QED
    BY <2>1, FailedGood, OneCall
<1>3. CASE WriteNext(c)
  <2>1. call' = [call EXCEPT ![c] =
                    [call[c] EXCEPT
                        !.at = IF call[c].left > 0 THEN "writing" ELSE "tail",
                        !.left = IF @ > 0 THEN @ - 1 ELSE 0]]
    BY <1>3 DEF WriteNext
  <2> QED
    BY <2>1, WriteGood, OneCall
<1>4. CASE \E at \in {"image", "reading", "sending"} : Goto(c, at)
  <2>1. PICK at \in {"asked", "image", "reading", "sending"} : Goto(c, at)
    BY <1>4
  <2>2. Good([call[c] EXCEPT !.at = at])
    BY GoneGood
  <2> QED
    BY <2>1, <2>2, OneCall DEF Goto
<1> QED
  BY <1>1, <1>2, <1>3, <1>4

LEMMA CallStep == CallInv /\ [Next]_vars => CallInv'
<1> SUFFICES ASSUME CallInv, [Next]_vars PROVE CallInv'
  OBVIOUS
<1>1. ASSUME NEW c \in Calls, NEW at, Returns(c, at),
             at \in {"asked", "image", "opening", "writing", "tail", "reading",
                     "sending"}
      PROVE  Waits(call[c])
  BY <1>1 DEF Returns, Waits, CallInv
<1>2. ASSUME NEW c \in Calls, Ask(c) PROVE CallInv'
  <2>1. PICK op \in {"search", "join"} :
           call' = [call EXCEPT ![c] = [Idle EXCEPT !.op = op, !.at = "asked"]]
    BY <1>2 DEF Ask
  <2> QED
    BY <2>1, AskGood, OneCall
<1>3. ASSUME NEW c \in Calls, SendOfflineFile(c) PROVE CallInv'
  <2>1. PICK opened \in BOOLEAN, n \in 0 .. Blocks :
           call' = [call EXCEPT ![c] =
                       [Idle EXCEPT !.op = "file", !.at = "opening",
                                    !.opened = opened, !.left = n,
                                    !.posted = IF opened THEN 0 ELSE 1]]
    BY <1>3 DEF SendOfflineFile
  <2> QED
    BY <2>1, FileGood, OneCall
<1>4. ASSUME NEW c \in Calls, PostedRuns(c) PROVE CallInv'
  <2>1. Good(call[c]) /\ call[c].posted > 0
    BY <1>4 DEF PostedRuns, CallInv
  <2>2. call' = [call EXCEPT ![c] =
                    [call[c] EXCEPT !.posted = @ - 1, !.called = @ + 1]]
    BY <1>4 DEF PostedRuns
  <2> QED
    BY <2>1, <2>2, PostedGood, OneCall
<1>5. ASSUME NEW c \in Calls,
             cb_search_group(c) \/ cb_join_group(c)
      PROVE  CallInv'
  BY <1>1, <1>5, ReturnStep DEF cb_search_group, cb_join_group
<1>6. ASSUME NEW c \in Calls, SearchGarbled(c) PROVE CallInv'
  BY <1>6 DEF SearchGarbled, CallInv
<1>7. ASSUME NEW c \in Calls, JoinThrows(c) PROVE CallInv'
  <2>1. Waits(call[c]) /\ call[c].opened
    <3>1. Waits(call[c]) /\ call[c].op = "join"
      BY <1>1, <1>7 DEF JoinThrows
    <3> QED
      BY <3>1, WaitsCount
  <2>2. call' = [call EXCEPT ![c] =
                    [call[c] EXCEPT !.at = "ended", !.called = @ + 2,
                                    !.threw = TRUE]]
    BY <1>7 DEF JoinThrows
  <2> QED
    BY <2>1, <2>2, ThrownGood, OneCall
<1>8. ASSUME NEW c \in Calls, ImageReturns(c) \/ ImageFails(c) PROVE CallInv'
  BY <1>1, <1>8, ReturnStep DEF ImageReturns, ImageFails
<1>9. ASSUME NEW c \in Calls,
             UploadOpens(c) \/ BlockWritten(c) \/ TailWritten(c)
             \/ UploadReturns(c) \/ SendReturns(c)
      PROVE  CallInv'
  BY <1>1, <1>9, ReturnStep
     DEF UploadOpens, BlockWritten, TailWritten, UploadReturns, SendReturns
<1>10. ASSUME NEW c \in Calls, UploadThrows(c) PROVE CallInv'
  <2>1. Waits(call[c])
    BY <1>1, <1>10 DEF UploadThrows
  <2>2. call' = [call EXCEPT ![c] =
                    [call[c] EXCEPT !.at = "ended", !.called = @ + 1,
                                    !.posted = @ + 1, !.threw = TRUE]]
    BY <1>10 DEF UploadThrows
  <2> QED
    BY <2>1, <2>2, ThrownPostedGood, OneCall
<1>11. CASE LoginImage \/ LoginAccepted \/ DropSession
  BY <1>11 DEF LoginImage, LoginAccepted, DropSession, CallInv
<1>12. CASE Restart
  BY <1>12, IdleGood DEF Restart, CallInv, Good
<1>13. CASE UNCHANGED vars
  BY <1>13 DEF vars, CallInv
<1> QED
  BY <1>2, <1>3, <1>4, <1>5, <1>6, <1>7, <1>8, <1>9, <1>10, <1>11, <1>12,
     <1>13 DEF Next, Step

LEMMA CallInit == Init => CallInv
  BY IdleGood DEF Init, CallInv, Good

\* A call is answered once, and once more for a failed open and for a callback
\* that threw where the code takes that for a failure, of a join or of an
\* upload: three times at most, and exactly as often as these faults say
\* (webqq_impl.cpp:338-438, webqq_send_offfile.hpp:47-168 and 222-227).
THEOREM AnsweredOnce == Spec => []CallbackOnce
<1>1. CallInv => CallbackOnce
  BY DEF CallInv, CallbackOnce, Good, Due
<1> QED
  BY <1>1, CallInit, CallStep, PTL DEF Spec

-----------------------------------------------------------------------------
(* The lines of an answer, one after the other                             *)

\* What holds of 0, and of k + 1 if of k, holds of all numbers up to n.
LEMMA UpTo ==
    ASSUME NEW n \in Nat, NEW S, 0 \in S,
           \A k \in 0 .. n : k \in S /\ k < n => k + 1 \in S
    PROVE  n \in S
<1> DEFINE T == {k \in 0 .. n : k \notin S}
<1> SUFFICES ASSUME T # {} PROVE FALSE
  OBVIOUS
<1>1. PICK R : IsWellFoundedOn(R, Nat) /\ R = {p \in Nat \X Nat : p[1] < p[2]}
  BY NatLessThanWellFounded, Zenon DEF OpToRel
<1>2. T \in SUBSET Nat
  OBVIOUS
<1>3. PICK x \in T : \A y \in T : ~(<<y, x>> \in R)
  BY <1>1, <1>2, WFMin
<1>4. x \in 0 .. n /\ x # 0 /\ x \notin S
  OBVIOUS
<1>5. x - 1 \in 0 .. n /\ x - 1 < n /\ (x - 1) + 1 = x
  BY <1>4
<1>6. x - 1 \notin S
  BY <1>4, <1>5
<1>7. x - 1 \in T /\ <<x - 1, x>> \in R
  BY <1>1, <1>4, <1>5, <1>6
<1> QED
  BY <1>3, <1>7

\* SaveLines takes one line after the other.
LEMMA LineByLine ==
    ASSUME NEW t, NEW lines, NEW host, Len(lines) \in Nat
    PROVE  LET f == SaveLines(t, lines, host)
           IN  /\ f[0] = [table |-> t, inserted |-> {}]
               /\ \A k \in 1 .. Len(lines) :
                     f[k] = SaveLine(f[k - 1], Completed(lines[k], host))
<1> DEFINE N == Len(lines)
           a == [table |-> t, inserted |-> {}]
           s(acc, k) == SaveLine(acc, Completed(lines[k], host))
           After(f, n) == f = [k \in 0 .. n |-> IF k = 0 THEN a
                                                ELSE s(f[k - 1], k)]
           S == {n \in 0 .. N : \E f : After(f, n)}
<1> N \in Nat
  OBVIOUS
<1> HIDE DEF a, s, N
<1>1. 0 \in S
  <2>1. After([k \in 0 .. 0 |-> a], 0)
    OBVIOUS
  <2> HIDE DEF After
  <2> QED
    BY <2>1
<1>2. ASSUME NEW n \in 0 .. N, n \in S, n < N PROVE n + 1 \in S
  <2>1. PICK f : After(f, n)
    BY <1>2
  <2>2. \A k \in 0 .. n : f[k] = IF k = 0 THEN a ELSE s(f[k - 1], k)
    BY <2>1
  <2> DEFINE g == [k \in 0 .. (n + 1) |-> IF k <= n THEN f[k]
                                          ELSE s(f[n], n + 1)]
  <2>3. ASSUME NEW k \in 0 .. (n + 1)
        PROVE  g[k] = IF k = 0 THEN a ELSE s(g[k - 1], k)
    <3>1. CASE k <= n
      BY <2>2, <3>1
    <3>2. CASE k = n + 1
      BY <3>2
    <3> QED
      BY <3>1, <3>2
  <2>4. After(g, n + 1)
    BY <2>3
  <2>5. n + 1 \in 0 .. N
    BY <1>2
  <2> HIDE DEF After, g
  <2> QED
    BY <2>4, <2>5
<1>3. N \in S
  BY <1>1, <1>2, UpTo
<1> DEFINE f == SaveLines(t, lines, host)
<1>4. f = CHOOSE h : After(h, N)
  BY DEF SaveLines, a, s, N
<1>5. After(f, N)
  BY <1>3, <1>4
<1>6. \A k \in 0 .. N : f[k] = IF k = 0 THEN a ELSE s(f[k - 1], k)
  BY <1>5
<1>7. f[0] = a /\ \A k \in 1 .. N : f[k] = s(f[k - 1], k)
  BY <1>6
<1> QED
  BY <1>7 DEF a, s, N

-----------------------------------------------------------------------------
(* What an answer means                                                    *)

\* The one row that a cookie of the service may have.
DomainOf(n) == CASE n \in {"verifysession", "skey"} -> qq
                 [] n = "ptui_loginuin" ->
                        Domain(TRUE, <<"ptlogin2", "qq", "com">>)
                 [] n = "pt_login_sig" -> Domain(FALSE, Login)

Row(n, k) == Cookie(n, DomainOf(n), <<>>, k,
                    IF n = "ptui_loginuin" THEN "dated" ELSE "session")

RowKey(n) == <<DomainOf(n), <<>>, n>>

\* The table that has these values, and no others.
Values   == [Names -> Tokens \cup {NoValue}]
Table(l) == {Row(n, l[n]) : n \in {m \in Names : l[m] # NoValue}}

\* The lines that give a cookie a value, of the first k ones.
Given(lines, n, k) == {i \in 1 .. k : lines[i].name = n
                                      /\ lines[i].value # NoValue}

\* What the service means by the first k lines, see Save: the last value of a
\* cookie counts, and a removal only where no value is given.
Meant(l, lines, k) ==
    [n \in Names |-> IF Given(lines, n, k) # {}
                     THEN lines[Max(Given(lines, n, k))].value
                     ELSE IF \E i \in 1 .. k : lines[i].name = n THEN NoValue
                     ELSE l[n]]

\* Lines of these cookies, as the cookie store completes them.
Understood(lines, host) ==
    /\ Len(lines) \in Nat /\ DOMAIN lines = 1 .. Len(lines)
    /\ \A i \in 1 .. Len(lines) :
          /\ lines[i].name \in Names /\ lines[i].value \in Tokens \cup {NoValue}
          /\ Completed(lines[i], host) = Row(lines[i].name, lines[i].value)

\* A row has the key of its name, and names have different keys.
LEMMA RowKeys ==
    /\ \A n, k : /\ Key(Row(n, k)) = RowKey(n) /\ Row(n, k).value = k
                 /\ Row(n, k).name = n
    /\ \A n, m : RowKey(n) = RowKey(m) => n = m
  BY DEF Key, Row, RowKey, Cookie

\* Saving a row changes the value of its name.
LEMMA RowSaved ==
    ASSUME NEW l \in Values, NEW n \in Names, NEW k \in Tokens
    PROVE  /\ save_one(Table(l), Row(n, k)) = Table([l EXCEPT ![n] = k])
           /\ [l EXCEPT ![n] = k] \in Values
<1>1. k # NoValue
  BY TokensAssumption
<1>2. ASSUME NEW r
      PROVE  r \in save_one(Table(l), Row(n, k))
                <=> r \in Table([l EXCEPT ![n] = k])
  BY <1>1, RowKeys DEF save_one, delete_cookie, Table, Values
<1> QED
  BY <1>2 DEF Values

\* Deleting it takes the value away.
LEMMA RowDeleted ==
    ASSUME NEW l \in Values, NEW n \in Names
    PROVE  /\ delete_cookie(Table(l), RowKey(n)) = Table([l EXCEPT ![n] = NoValue])
           /\ [l EXCEPT ![n] = NoValue] \in Values
<1>1. ASSUME NEW r
      PROVE  r \in delete_cookie(Table(l), RowKey(n))
                <=> r \in Table([l EXCEPT ![n] = NoValue])
  BY RowKeys DEF delete_cookie, Table, Values
<1> QED
  BY <1>1 DEF Values

\* What an answer means is a value for every name.
LEMMA MeantFunction ==
    \A l, lines, k :
        Meant(l, lines, k) = [n \in Names |-> Meant(l, lines, k)[n]]
  BY DEF Meant

\* One more line that gives a value: it is the last one of its cookie.
LEMMA MeantValue ==
    ASSUME NEW l, NEW lines, NEW k \in Nat, NEW j, j = k + 1,
           NEW n \in Names,
           lines[j].name = n, lines[j].value # NoValue
    PROVE  Meant(l, lines, j) =
              [Meant(l, lines, k) EXCEPT ![n] = lines[j].value]
<1>1. \A i : i \in 1 .. j <=> i \in 1 .. k \/ i = j
  OBVIOUS
<1>2. j \in Given(lines, n, j) /\ \A i \in Given(lines, n, j) : j >= i
  BY <1>1 DEF Given
<1>3. Max(Given(lines, n, j)) = j
  <2> DEFINE G == Given(lines, n, j)
  <2>1. \A x \in G : (\A y \in G : x >= y) => x = j
    BY <1>2 DEF Given
  <2> HIDE DEF G
  <2> QED
    BY <1>2, <2>1 DEF Max, G
<1>4. \A m \in Names \ {n} :
         /\ Given(lines, m, j) = Given(lines, m, k)
         /\ (\E i \in 1 .. j : lines[i].name = m)
               <=> \E i \in 1 .. k : lines[i].name = m
  BY <1>1 DEF Given
<1>5. \A m \in Names : Meant(l, lines, j)[m] =
         IF m = n THEN lines[j].value ELSE Meant(l, lines, k)[m]
  BY <1>2, <1>3, <1>4 DEF Meant
<1> QED
  BY <1>5, MeantFunction

\* One more line that removes: it counts unless there was a value before it.
LEMMA MeantRemoval ==
    ASSUME NEW l, NEW lines, NEW k \in Nat, NEW j, j = k + 1,
           NEW n \in Names,
           lines[j].name = n, lines[j].value = NoValue
    PROVE  /\ Given(lines, n, k) # {} => Meant(l, lines, j) = Meant(l, lines, k)
           /\ Given(lines, n, k) = {} =>
                 Meant(l, lines, j) = [Meant(l, lines, k) EXCEPT ![n] = NoValue]
<1>1. \A i : i \in 1 .. j <=> i \in 1 .. k \/ i = j
  OBVIOUS
<1>2. \A m \in Names :
         /\ Given(lines, m, j) = Given(lines, m, k)
         /\ (\E i \in 1 .. j : lines[i].name = m)
               <=> m = n \/ \E i \in 1 .. k : lines[i].name = m
  BY <1>1 DEF Given
<1>3. \A m \in Names : Meant(l, lines, j)[m] =
         IF m = n /\ Given(lines, n, k) = {} THEN NoValue
         ELSE Meant(l, lines, k)[m]
  BY <1>2 DEF Meant
<1> QED
  BY <1>3, MeantFunction

\* The cookie store does with the table what the service means by an answer:
\* for every number of lines, in every order, of every cookie.
THEOREM SavedAsMeant ==
    ASSUME NEW l \in Values, NEW lines, NEW host, Understood(lines, host)
    PROVE  /\ save_cookie(Table(l), lines, host) =
                 Table(Meant(l, lines, Len(lines)))
           /\ Meant(l, lines, Len(lines)) \in Values
<1> DEFINE N == Len(lines)
           f == SaveLines(Table(l), lines, host)
           M(k) == Meant(l, lines, k)
           I(k) == {RowKey(lines[i].name) :
                       i \in {j \in 1 .. k : lines[j].value # NoValue}}
           Done(k) == /\ M(k) \in Values
                      /\ f[k].table = Table(M(k)) /\ f[k].inserted = I(k)
<1>0. N \in Nat
  BY DEF Understood
<1>1. /\ f[0] = [table |-> Table(l), inserted |-> {}]
      /\ \A k \in 1 .. N : f[k] = SaveLine(f[k - 1], Completed(lines[k], host))
  BY <1>0, LineByLine
<1> HIDE DEF f, N
<1>2. Done(0)
  <2>1. \A n \in Names : M(0)[n] = l[n]
    BY DEF Meant, Given
  <2>2. M(0) = l
    BY <2>1 DEF Values, Meant
  <2>3. I(0) = {}
    OBVIOUS
  <2> QED
    BY <1>1, <2>2, <2>3
<1>3. ASSUME NEW k \in 0 .. N, Done(k), k < N PROVE Done(k + 1)
  <2> DEFINE n == lines[k + 1].name
             x == lines[k + 1].value
  <2>0. k \in Nat /\ k + 1 \in 1 .. N /\ (k + 1) - 1 = k
    BY <1>0, <1>3
  <2>1. /\ n \in Names /\ x \in Tokens \cup {NoValue}
        /\ Completed(lines[k + 1], host) = Row(n, x)
    BY <2>0 DEF Understood, N
  <2>2. f[k + 1] = SaveLine(f[k], Row(n, x))
    BY <1>1, <2>0, <2>1
  <2>3. \A i : i \in 1 .. (k + 1) <=> i \in 1 .. k \/ i = k + 1
    BY <2>0
  <2>4. RowKey(n) \in I(k) <=> Given(lines, n, k) # {}
    BY RowKeys DEF Given
  <2>5. Key(Row(n, x)) = RowKey(n) /\ Row(n, x).value = x
    BY RowKeys
  <2>6. CASE x # NoValue
    <3>1. M(k + 1) = [M(k) EXCEPT ![n] = x]
      BY <2>0, <2>1, <2>6, MeantValue
    <3>2. I(k + 1) = I(k) \cup {RowKey(n)}
      BY <2>3, <2>6
    <3>3. /\ f[k + 1].table = save_one(f[k].table, Row(n, x))
          /\ f[k + 1].inserted = f[k].inserted \cup {RowKey(n)}
      BY <2>2, <2>5, <2>6 DEF SaveLine
    <3> HIDE DEF M, I, n, x
    <3> QED
      BY <1>3, <2>1, <2>6, <3>1, <3>2, <3>3, RowSaved
  <2>7. CASE x = NoValue
    <3>1. /\ Given(lines, n, k) # {} => M(k + 1) = M(k)
          /\ Given(lines, n, k) = {} => M(k + 1) = [M(k) EXCEPT ![n] = NoValue]
      BY <2>0, <2>1, <2>7, MeantRemoval
    <3>2. I(k + 1) = I(k)
      BY <2>3, <2>7
    <3>3. IF RowKey(n) \in f[k].inserted THEN f[k + 1] = f[k]
          ELSE /\ f[k + 1].table = delete_cookie(f[k].table, RowKey(n))
               /\ f[k + 1].inserted = f[k].inserted
      BY <1>3, <2>2, <2>5, <2>7 DEF SaveLine
    <3> HIDE DEF M, I, n, x
    <3> QED
      BY <1>3, <2>1, <2>4, <3>1, <3>2, <3>3, RowDeleted
  <2> QED
    BY <2>6, <2>7
<1>4. Done(N)
  <2> DEFINE S == {k \in 0 .. N : Done(k)}
  <2> HIDE DEF Done
  <2>1. 0 \in S
    BY <1>0, <1>2
  <2>2. \A k \in 0 .. N : k \in S /\ k < N => k + 1 \in S
    BY <1>0, <1>3
  <2> HIDE DEF S
  <2>3. N \in S
    BY <1>0, <2>1, <2>2, UpTo
  <2> QED
    BY <2>3 DEF S
<1> QED
  BY <1>4 DEF save_cookie, f, N

-----------------------------------------------------------------------------
(* The table and the values in every state                                 *)

\* The table has exactly the values that the service gave and did not take
\* back, each in the row of its name.
CookieInv == latest \in Values /\ cookies = Table(latest)

\* The lines with an image are understood wherever they come from.
LEMMA ImageUnderstood ==
    ASSUME NEW k \in Tokens, NEW lines \in ImageLines(k), NEW host
    PROVE  Understood(lines, host)
<1>1. \A x : Completed(verifysession(x), host) = Row("verifysession", x)
  BY DEF Completed, verifysession, Cookie, Row, DomainOf, qq, Domain
<1>2. \A x : /\ verifysession(x).name = "verifysession"
             /\ verifysession(x).value = x
  BY DEF verifysession, Cookie
<1> HIDE DEF NoValue
<1>3. /\ Len(lines) \in 1 .. 2 /\ DOMAIN lines = 1 .. Len(lines)
      /\ \A i \in 1 .. Len(lines) :
            lines[i] \in {verifysession(k), verifysession(NoValue)}
  BY DEF ImageLines
<1> QED
  BY <1>1, <1>2, <1>3 DEF Understood, Names

\* Those of an accepted password when they come from the host of the login.
LEMMA LoginUnderstood ==
    ASSUME NEW k \in Tokens, NEW lines \in LoginLines(k)
    PROVE  Understood(lines, Login)
<1> USE DEF Cookie
<1>1. ASSUME NEW x
      PROVE  /\ Completed(verifysession(x), Login) = Row("verifysession", x)
             /\ Completed(skey(x), Login) = Row("skey", x)
    BY DEF Completed, verifysession, skey, Row, DomainOf, qq, Domain
<1>2. ASSUME NEW x
      PROVE  Completed(ptui_loginuin(x), Login) = Row("ptui_loginuin", x)
    BY DEF Completed, ptui_loginuin, Row, DomainOf, Domain
<1>3. ASSUME NEW x
      PROVE  Completed(pt_login_sig(x), Login) = Row("pt_login_sig", x)
  <2> DEFINE c == pt_login_sig(x)
             d == Domain(FALSE, Login)
  <2>1. c.domain.labels = <<>>
    BY DEF pt_login_sig, Domain
  <2>2. Completed(c, Login) = [c EXCEPT !.domain = d]
    BY <2>1 DEF Completed, Domain
  <2> HIDE DEF d
  <2>3. [c EXCEPT !.domain = d] = Cookie("pt_login_sig", d, <<>>, x, "session")
    BY DEF pt_login_sig
  <2> QED
    BY <2>2, <2>3 DEF Row, DomainOf, d
<1>4. \A x : /\ verifysession(x).name = "verifysession"
             /\ skey(x).name = "skey"
             /\ ptui_loginuin(x).name = "ptui_loginuin"
             /\ pt_login_sig(x).name = "pt_login_sig"
             /\ verifysession(x).value = x /\ skey(x).value = x
             /\ ptui_loginuin(x).value = x /\ pt_login_sig(x).value = x
  BY DEF verifysession, skey, ptui_loginuin, pt_login_sig
<1>5. /\ Len(lines) \in 1 .. 4 /\ DOMAIN lines = 1 .. Len(lines)
      /\ \A i \in 1 .. Len(lines) : \E x \in {k, NoValue} :
            lines[i] \in {verifysession(x), skey(x), ptui_loginuin(x),
                          pt_login_sig(x)}
  <2>1. CASE lines = <<verifysession(NoValue), ptui_loginuin(k), skey(k),
                       pt_login_sig(k)>>
    BY <2>1
  <2>2. CASE lines = <<pt_login_sig(NoValue), skey(NoValue), skey(k)>>
    BY <2>2
  <2> QED
    BY <2>1, <2>2 DEF LoginLines
<1> QED
  BY <1>1, <1>2, <1>3, <1>4, <1>5 DEF Understood, Names

\* An answer that is understood keeps table and values together.
LEMMA SaveKeeps ==
    ASSUME CookieInv, NEW lines, NEW host, Understood(lines, host),
           Save(lines, host)
    PROVE  CookieInv'
<1>1. DOMAIN lines = 1 .. Len(lines)
  BY DEF Understood
<1>2. latest' = Meant(latest, lines, Len(lines))
  BY <1>1 DEF Save, Meant, Given
<1>3. cookies' = save_cookie(Table(latest), lines, host)
  BY DEF Save, CookieInv
<1>4. cookies' = Table(latest') /\ latest' \in Values
  BY <1>2, <1>3, SavedAsMeant DEF CookieInv
<1> QED
  BY <1>4 DEF CookieInv, Table

\* The session is given up: only the dated cookie stays.
LEMMA DropKeeps ==
    ASSUME CookieInv, DropSession
    PROVE  CookieInv'
<1> DEFINE l == [None EXCEPT !["ptui_loginuin"] = latest["ptui_loginuin"]]
<1>1. /\ l \in Values
      /\ \A n \in Names :
            l[n] = IF n = "ptui_loginuin" THEN latest[n] ELSE NoValue
  BY DEF CookieInv, Values, None, Names
<1>2. \A n, k : Row(n, k).expiration = "session" <=> n # "ptui_loginuin"
  BY DEF Row, Cookie
<1> HIDE DEF l
<1>3. ASSUME NEW r
      PROVE  r \in drop_session(Table(latest)) <=> r \in Table(l)
  <2>1. r \in Table(l) <=> \E n \in Names : l[n] # NoValue /\ r = Row(n, l[n])
    BY DEF Table
  <2>2. r \in drop_session(Table(latest))
           <=> \E n \in Names : /\ latest[n] # NoValue /\ r = Row(n, latest[n])
                                /\ n = "ptui_loginuin"
    BY <1>2 DEF drop_session, Table
  <2> QED
    BY <1>1, <2>1, <2>2
<1>4. cookies' = Table(l) /\ latest' = l
  BY <1>3 DEF DropSession, CookieInv, l
<1> QED
  BY <1>1, <1>4 DEF CookieInv, Table

\* A fresh table has no values.
LEMMA NoneTable == None \in Values /\ Table(None) = {}
  BY DEF None, Values, Table

\* Every step keeps table and values together.
LEMMA CookieStep == CookieInv /\ [Next]_vars => CookieInv'
<1> SUFFICES ASSUME CookieInv, [Next]_vars PROVE CookieInv'
  OBVIOUS
<1>1. ASSUME UNCHANGED <<cookies, latest>> PROVE CookieInv'
  BY <1>1 DEF CookieInv, Table
<1>2. ASSUME NEW k \in Tokens, NEW lines \in ImageLines(k), Save(lines, Captcha)
      PROVE  CookieInv'
  BY <1>2, ImageUnderstood, SaveKeeps
<1>3. ASSUME NEW c \in Calls, ImageReturns(c) PROVE CookieInv'
  BY <1>2, <1>3 DEF ImageReturns
<1>4. ASSUME NEW c \in Calls,
             \/ Ask(c) \/ SendOfflineFile(c) \/ PostedRuns(c)
             \/ cb_search_group(c) \/ SearchGarbled(c) \/ cb_join_group(c)
             \/ JoinThrows(c) \/ ImageFails(c) \/ UploadOpens(c)
             \/ BlockWritten(c) \/ TailWritten(c) \/ UploadReturns(c)
             \/ UploadThrows(c) \/ SendReturns(c)
      PROVE  CookieInv'
  BY <1>1, <1>4 DEF Ask, SendOfflineFile, PostedRuns, cb_search_group,
     SearchGarbled, cb_join_group, JoinThrows, ImageFails, UploadOpens,
     BlockWritten, TailWritten, UploadReturns, UploadThrows,
     SendReturns
<1>5. CASE LoginImage
  BY <1>2, <1>5 DEF LoginImage
<1>6. CASE LoginAccepted
  BY <1>6, LoginUnderstood, SaveKeeps DEF LoginAccepted
<1>7. CASE DropSession
  BY <1>7, DropKeeps
<1>8. CASE Restart
  <2>1. CASE UNCHANGED <<cookies, latest>>
    BY <1>1, <2>1
  <2>2. CASE cookies' = {} /\ latest' = None
    BY <2>2, NoneTable DEF CookieInv, Table
  <2> QED
    BY <1>8, <2>1, <2>2 DEF Restart
<1>9. CASE UNCHANGED vars
  BY <1>1, <1>9 DEF vars
<1> QED
  BY <1>3, <1>4, <1>5, <1>6, <1>7, <1>8, <1>9 DEF Next, Step

\* The table always has exactly the values that count.
THEOREM CookiesKept == Spec => []CookieInv
<1>1. Init => CookieInv
  BY NoneTable DEF Init, CookieInv
<1> QED
  BY <1>1, CookieStep, PTL DEF Spec

\* The process lives or does not.
Lives == up \in BOOLEAN

\* The variables have their types, and a cookie has one row: for every number
\* of calls and answers.
THEOREM RequestTypes == Spec => []TypeOK
<1>1. CookieInv => /\ \A c \in cookies : c.name \in Names /\ c.value \in Tokens
                   /\ \A c, d \in cookies : Key(c) = Key(d) => c = d
                   /\ latest \in [Names -> Tokens \cup {NoValue}]
  BY RowKeys DEF CookieInv, Table, Values
<1>2. CallInv => call \in [Calls -> Call]
  BY DEF CallInv
<1>3. Spec => []Lives
  <2>1. Init => Lives
    BY DEF Init, Lives
  <2>2. Lives /\ [Next]_vars => Lives'
    BY DEF Next, Step, Ask, SendOfflineFile, PostedRuns, cb_search_group,
       SearchGarbled, cb_join_group, JoinThrows, ImageReturns, ImageFails,
       UploadOpens, BlockWritten, TailWritten, UploadReturns, UploadThrows,
       SendReturns, LoginImage, LoginAccepted, DropSession, Restart, vars, Lives
  <2> QED
    BY <2>1, <2>2, PTL DEF Spec
<1>4. CookieInv /\ CallInv /\ Lives => TypeOK
  BY <1>1, <1>2 DEF TypeOK, Lives
<1> QED
  BY <1>3, <1>4, CookiesKept, CallInit, CallStep, PTL DEF Spec

-----------------------------------------------------------------------------
(* What a request carries                                                  *)

\* Short sequences, written out.
LEMMA WrittenOut ==
    ASSUME NEW S, NEW s \in Seq(S)
    PROVE  /\ Len(s) = 2 => s = <<s[1], s[2]>>
           /\ Len(s) = 3 => s = <<s[1], s[2], s[3]>>
           /\ Len(s) = 4 => s = <<s[1], s[2], s[3], s[4]>>
  OBVIOUS

\* A part of a sequence of two or three labels.
LEMMA Parts ==
    ASSUME NEW S, NEW s \in Seq(S), NEW m \in 1 .. Len(s), NEW n \in m .. Len(s)
    PROVE  /\ n = m + 1 => SubSeq(s, m, n) = <<s[m], s[n]>>
           /\ n = m + 2 => SubSeq(s, m, n) = <<s[m], s[m + 1], s[n]>>
<1> DEFINE t == SubSeq(s, m, n)
<1>0. m \in Int /\ n \in Int /\ m <= n
  OBVIOUS
<1>1. /\ t \in Seq(S) /\ Len(t) = n - m + 1
      /\ \A k \in 1 .. (n - m + 1) : t[k] = s[m + k - 1]
  BY SubSeqProperties
<1> HIDE DEF t
<1>2. ASSUME n = m + 1 PROVE t = <<s[m], s[n]>>
  <2>1. n - m + 1 = 2 /\ m + 1 - 1 = m /\ m + 2 - 1 = n
    BY <1>0, <1>2
  <2>2. Len(t) = 2 /\ \A k \in 1 .. 2 : t[k] = s[m + k - 1]
    BY <1>1, <2>1
  <2>3. t[1] = s[m] /\ t[2] = s[n]
    BY <2>1, <2>2
  <2> QED
    BY <1>1, <2>2, <2>3, WrittenOut
<1>3. ASSUME n = m + 2 PROVE t = <<s[m], s[m + 1], s[n]>>
  <2>1. n - m + 1 = 3 /\ m + 1 - 1 = m /\ m + 2 - 1 = m + 1 /\ m + 3 - 1 = n
    BY <1>0, <1>3
  <2>2. Len(t) = 3 /\ t[1] = s[m] /\ t[2] = s[m + 1] /\ t[3] = s[n]
    BY <1>1, <2>1
  <2> QED
    BY <1>1, <2>2, WrittenOut
<1> QED
  BY <1>2, <1>3 DEF t

\* The beginnings and ends of a sequence of four.
LEMMA Pieces ==
    ASSUME NEW a, NEW b, NEW c, NEW d
    PROVE  LET h == <<a, b, c, d>>
           IN  /\ SubSeq(h, 1, 4) = h /\ SubSeq(h, 2, 4) = <<b, c, d>>
               /\ SubSeq(h, 3, 4) = <<c, d>>
               /\ SubSeq(h, 1, 3) = <<a, b, c>> /\ SubSeq(h, 1, 2) = <<a, b>>
<1> DEFINE S == {a, b, c, d}
           h == <<a, b, c, d>>
<1>1. /\ h \in Seq(S) /\ Len(h) = 4
      /\ h[1] = a /\ h[2] = b /\ h[3] = c /\ h[4] = d
  OBVIOUS
<1> HIDE DEF h, S
<1>2. SubSeq(h, 1, 4) = h
  BY <1>1, SubSeqFull
<1>3. \A m \in 1 .. 4 : \A n \in m .. 4 :
         /\ n = m + 1 => SubSeq(h, m, n) = <<h[m], h[n]>>
         /\ n = m + 2 => SubSeq(h, m, n) = <<h[m], h[m + 1], h[n]>>
  BY <1>1, Parts
<1>4. /\ SubSeq(h, 2, 4) = <<h[2], h[3], h[4]>>
      /\ SubSeq(h, 1, 3) = <<h[1], h[2], h[3]>>
  BY <1>3
<1>5. SubSeq(h, 3, 4) = <<h[3], h[4]>> /\ SubSeq(h, 1, 2) = <<h[1], h[2]>>
  BY <1>3
<1> QED
  BY <1>1, <1>2, <1>4, <1>5 DEF h

\* The host of a request: its domains are itself, its last three labels and
\* its last two.
LEMMA HostDomains ==
    ASSUME NEW a, NEW b
    PROVE  LET h == <<a, b, "qq", "com">>
           IN  build_domain_conditions(h) =
                  [dot : BOOLEAN,
                   labels : {h, <<b, "qq", "com">>, <<"qq", "com">>}]
<1> DEFINE h == <<a, b, "qq", "com">>
<1>1. /\ SubSeq(h, 1, 4) = h /\ SubSeq(h, 2, 4) = <<b, "qq", "com">>
      /\ SubSeq(h, 3, 4) = <<"qq", "com">>
  BY Pieces
<1>2. Len(h) = 4 /\ 1 .. Len(h) - 1 = {1, 2, 3}
  OBVIOUS
<1> HIDE DEF h
<1>3. {SubSeq(h, k, Len(h)) : k \in 1 .. Len(h) - 1} \cup {h}
         = {h, <<b, "qq", "com">>, <<"qq", "com">>}
  BY <1>1, <1>2
<1> QED
  BY <1>3 DEF build_domain_conditions, h

\* Which ends it has.
LEMMA HostEnds ==
    ASSUME NEW a, NEW b
    PROVE  LET h == <<a, b, "qq", "com">>
           IN  /\ IsSuffix(<<"qq", "com">>, h)
               /\ IsSuffix(<<"ptlogin2", "qq", "com">>, h) <=> b = "ptlogin2"
<1> DEFINE h == <<a, b, "qq", "com">>
<1>1. Reverse(h) = <<"com", "qq", b, a>>
  BY DEF Reverse
<1>2. /\ Reverse(<<"qq", "com">>) = <<"com", "qq">>
      /\ Reverse(<<"ptlogin2", "qq", "com">>) = <<"com", "qq", "ptlogin2">>
  BY DEF Reverse
<1>3. /\ SubSeq(<<"com", "qq", b, a>>, 1, 2) = <<"com", "qq">>
      /\ SubSeq(<<"com", "qq", b, a>>, 1, 3) = <<"com", "qq", b>>
  BY Pieces
<1> DEFINE p == <<"com", "qq">>
           q == <<"com", "qq", "ptlogin2">>
<1>4. /\ SubSeq(p, 1, 2) = p /\ Len(p) = 2
      /\ SubSeq(q, 1, 3) = q /\ Len(q) = 3
  <2>1. /\ p \in Seq({"com", "qq"}) /\ Len(p) = 2
        /\ q \in Seq({"com", "qq", "ptlogin2"}) /\ Len(q) = 3
    OBVIOUS
  <2> HIDE DEF p, q
  <2> QED
    BY <2>1, SubSeqFull
<1> DEFINE t == <<"com", "qq", b, a>>
<1>5. Len(t) = 4
  OBVIOUS
<1>6. /\ Reverse(h) = t /\ SubSeq(t, 1, 2) = p
      /\ SubSeq(t, 1, 3) = <<"com", "qq", b>>
      /\ Reverse(<<"qq", "com">>) = p
      /\ Reverse(<<"ptlogin2", "qq", "com">>) = q
  BY <1>1, <1>2, <1>3
<1> HIDE DEF h, p, q, t
<1>7. IsSuffix(<<"qq", "com">>, h)
  <2>1. IsPrefix(p, t)
    BY <1>4, <1>5, <1>6 DEF IsPrefix
  <2> QED
    BY <1>6, <2>1 DEF IsSuffix
<1>8. IsSuffix(<<"ptlogin2", "qq", "com">>, h) <=> q = <<"com", "qq", b>>
  <2> DEFINE w == <<"com", "qq", b>>
  <2>0. SubSeq(t, 1, 3) = w
    BY <1>6
  <2> HIDE DEF w
  <2>1. IsPrefix(q, t) <=> q = w
    BY <1>4, <1>5, <2>0 DEF IsPrefix
  <2> QED
    BY <1>6, <2>1 DEF IsSuffix, w
<1> QED
  BY <1>7, <1>8 DEF h, q

\* A cookie is in the domains of a host if and only if it is meant for it.
LEMMA DomainsMeant ==
    ASSUME NEW r \in Targets, NEW n \in Names
    PROVE  DomainOf(n) \in build_domain_conditions(r.host) <=> MeantFor(n, r.host)
<1>1. PICK a, b : r.host = <<a, b, "qq", "com">>
  BY DEF Targets, Search_, Join_, Login_, Upload_, Send_, Login
<1> DEFINE h == <<a, b, "qq", "com">>
<1>2. build_domain_conditions(h) =
         [dot : BOOLEAN, labels : {h, <<b, "qq", "com">>, <<"qq", "com">>}]
  BY HostDomains
<1>3. /\ IsSuffix(<<"qq", "com">>, h)
      /\ IsSuffix(<<"ptlogin2", "qq", "com">>, h) <=> b = "ptlogin2"
  BY HostEnds
<1>4. h = Login <=> a = "ssl" /\ b = "ptlogin2"
  BY DEF Login
<1>5. /\ <<"ptlogin2", "qq", "com">> \in {h, <<b, "qq", "com">>, <<"qq", "com">>}
            <=> b = "ptlogin2"
      /\ Login \in {h, <<b, "qq", "com">>, <<"qq", "com">>} <=> h = Login
  BY DEF Login
<1>6. CASE n \in {"verifysession", "skey"}
  BY <1>1, <1>2, <1>3, <1>6 DEF DomainOf, MeantFor, qq, Domain
<1> DEFINE L == {h, <<b, "qq", "com">>, <<"qq", "com">>}
<1> HIDE DEF h, L
<1>7. CASE n = "ptui_loginuin"
  <2>1. DomainOf(n) = [dot |-> TRUE, labels |-> <<"ptlogin2", "qq", "com">>]
    BY <1>7 DEF DomainOf, Domain
  <2>2. DomainOf(n) \in [dot : BOOLEAN, labels : L] <=> b = "ptlogin2"
    BY <1>5, <2>1 DEF L
  <2>3. MeantFor(n, h) <=> b = "ptlogin2"
    BY <1>3, <1>7 DEF MeantFor
  <2> QED
    BY <1>1, <1>2, <2>2, <2>3 DEF h, L
<1>8. CASE n = "pt_login_sig"
  <2>1. DomainOf(n) = [dot |-> FALSE, labels |-> Login]
    BY <1>8 DEF DomainOf, Domain
  <2>2. DomainOf(n) \in [dot : BOOLEAN, labels : L] <=> h = Login
    BY <1>5, <2>1 DEF L
  <2>3. MeantFor(n, h) <=> h = Login
    BY <1>8 DEF MeantFor
  <2> QED
    BY <1>1, <1>2, <2>2, <2>3 DEF h, L
<1> QED
  BY <1>6, <1>7, <1>8 DEF Names

\* A request carries of every cookie the value that counts, if it is meant for
\* its host, and nothing else (cookie_mgr.hpp:86-213): in every state, after
\* any answers, drops and restarts.
THEOREM CookiesRight == Spec => []CookiesSent
<1>1. ASSUME CookieInv, NEW r \in Targets
      PROVE  get_cookie(cookies, r.host, r.path) =
                {<<n, latest[n]>> :
                    n \in {m \in Names : latest[m] # NoValue
                                         /\ MeantFor(m, r.host)}}
  <2>1. <<>> \in build_path_conditions(r.path)
    <3>1. Len(r.path) \in Nat /\ SubSeq(r.path, 1, 0) = <<>>
      BY DEF Targets, Search_, Join_, Login_, Upload_, Send_
    <3> QED
      BY <3>1 DEF build_path_conditions
  <2>2. \A n, k : /\ Row(n, k).domain = DomainOf(n) /\ Row(n, k).path = <<>>
                  /\ Row(n, k).name = n /\ Row(n, k).value = k
    BY DEF Row, Cookie
  <2>3. ASSUME NEW x
        PROVE  x \in get_cookie(Table(latest), r.host, r.path)
                  <=> \E n \in Names :
                         /\ latest[n] # NoValue /\ x = <<n, latest[n]>>
                         /\ DomainOf(n) \in build_domain_conditions(r.host)
    <3> DEFINE T == Table(latest)
    <3>1. \A d : d \in T <=> \E n \in Names : latest[n] # NoValue
                                             /\ d = Row(n, latest[n])
      BY DEF Table
    <3> HIDE DEF T
    <3>2. x \in get_cookie(T, r.host, r.path)
             <=> \E d \in T : /\ d.domain \in build_domain_conditions(r.host)
                              /\ d.path \in build_path_conditions(r.path)
                              /\ x = <<d.name, d.value>>
      BY DEF get_cookie
    <3> QED
      BY <2>1, <2>2, <3>1, <3>2 DEF T
  <2> QED
    BY <1>1, <2>3, DomainsMeant DEF CookieInv
<1>2. CookieInv => CookiesSent
  BY <1>1 DEF CookiesSent
<1> QED
  BY <1>2, CookiesKept, PTL
=============================================================================
