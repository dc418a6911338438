-------------------------- MODULE GroupRefreshProofs --------------------------
(***************************************************************************)
(* The spacing of full refreshes and the callback that the main loop is    *)
(* owed, for every set of groups, every length of the queue and every      *)
(* pause.                                                                  *)
(***************************************************************************)
EXTENDS GroupRefresh, SequenceTheorems, TLAPS

\* The timer keeps the spacing although it is computed from the components of
\* the elapsed time: 0 to 30 minutes past any hour wait 1800 seconds less the
\* seconds of the minute that are over, and those are part of the pause.
LEMMA WaitEnough ==
    ASSUME NEW d \in Nat
    PROVE  Wait(d) \in 0..Spacing /\ d + Wait(d) >= Spacing
<1>1. Seconds(d) \in 0..59 /\ Seconds(d) <= d
  BY DEF Seconds
<1>2. CASE Minutes(d) <= 30
  BY <1>1, <1>2 DEF Wait, Spacing
<1>3. CASE ~(Minutes(d) <= 30)
  <2>1. d \div 60 >= 31
    <3>1. d \div 60 \in Nat
      OBVIOUS
    <3>2. (d \div 60) % 60 <= d \div 60
      BY <3>1
    <3> QED
      BY <1>3, <3>1, <3>2 DEF Minutes
  <2>2. d >= 60 * 31
    BY <2>1
  <2> QED
    BY <1>3, <2>2 DEF Wait, Spacing
<1> QED
  BY <1>2, <1>3

\* A pause counts in full until the spacing is over, and a spacing that is
\* over stays so.
LEMMA AfterPause ==
    ASSUME NEW d \in Nat, NEW t \in 0..Spacing
    PROVE  /\ Capped(t + d) \in 0..Spacing
           /\ \A w \in 0..Spacing :
                 d + w >= Spacing => Capped(t + d) + w >= Spacing
           /\ t + d >= Spacing => Capped(t + d) = Spacing
           /\ \A b \in 0..Spacing : t + d >= b => Capped(t + d) >= b
<1>1. CASE t + d > Spacing
  <2>1. Capped(t + d) = Spacing
    BY <1>1 DEF Capped
  <2>2. \A w \in 0..Spacing : Spacing + w >= Spacing /\ Spacing >= w
    BY DEF Spacing
  <2>3. Spacing \in 0..Spacing
    BY DEF Spacing
  <2> QED
    BY <2>1, <2>2, <2>3
<1>2. CASE ~(t + d > Spacing)
  <2>1. Capped(t + d) = t + d
    BY <1>2 DEF Capped
  <2>2. /\ t + d \in 0..Spacing
        /\ t + d >= Spacing => t + d = Spacing
    BY <1>2 DEF Spacing
  <2>3. \A w \in 0..Spacing : d + w >= Spacing => t + d + w >= Spacing
    BY DEF Spacing
  <2> QED
    BY <2>1, <2>2, <2>3
<1> QED
  BY <1>1, <1>2

\* What remains to wait is in the timer: the reason of FullSpaced.
SpacedInv ==
    /\ rpc = "throttle" =>
          since + wait >= IF synced THEN Spacing ELSE FirstWait
    /\ FullSpaced

IInv == TypeOK /\ SpacedInv

\* A pushed command reaches the coroutine or the queue and changes no timer.
LEMMA PushTypes ==
    ASSUME TypeOK, NEW c \in Command, Push(c)
    PROVE  /\ rq' \in Seq(Command) /\ v' \in Command
           /\ rpc' = rpc \/ rpc' = "got"
  BY DEF TypeOK, Push

\* async_pop leaves the coroutine waiting or with a command of the queue.
LEMMA PopTypes ==
    ASSUME TypeOK, NEW q \in Seq(Command), Pop(q)
    PROVE  rq' \in Seq(Command) /\ v' \in Command /\ rpc' \in {"pop", "got"}
<1>1. CASE q = <<>>
  BY <1>1 DEF TypeOK, Pop
<1>2. CASE q # <<>>
  <2>1. Head(q) \in Command /\ Tail(q) \in Seq(Command)
    BY <1>2
  <2> QED
    BY <1>2, <2>1 DEF Pop
<1> QED
  BY <1>1, <1>2

\* The coroutine starts with an empty queue and no refresh to wait for.
LEMMA InitIInv == Init => IInv
<1> SUFFICES ASSUME Init PROVE IInv
  OBVIOUS
<1>1. v \in Command
  <2>1. [cb |-> FALSE, gid |-> All] \in Command
    BY DEF Command
  <2> QED
    BY <2>1 DEF Init
<1>2. rq \in Seq(Command)
  BY DEF Init
<1>3. wait \in 0..Spacing /\ since \in 0..Spacing /\ since = Spacing
  BY DEF Init, Spacing
<1>4. TypeOK
  BY <1>1, <1>2, <1>3 DEF Init, TypeOK
<1> QED
  BY <1>3, <1>4 DEF Init, IInv, SpacedInv, FullSpaced

\* Every step keeps the types and the time that is left to wait.
LEMMA StepIInv == IInv /\ [Next]_vars => IInv'
<1> SUFFICES ASSUME IInv, [Next]_vars PROVE IInv'
  OBVIOUS
<1> USE DEF IInv, SpacedInv, FullSpaced
<1>1. CASE Request
  <2>1. PICK g \in Gids : Push([cb |-> TRUE, gid |-> g])
    BY <1>1 DEF Request
  <2>2. /\ rq' \in Seq(Command) /\ v' \in Command
        /\ rpc' = rpc \/ rpc' = "got"
    <3>1. [cb |-> TRUE, gid |-> g] \in Command
      BY DEF Command
    <3> QED
      BY <2>1, <3>1, PushTypes
  <2> QED
    BY <1>1, <2>2 DEF Request, time, TypeOK
<1>2. CASE AppRequest
  <2>1. PICK g \in AppGids : Push([cb |-> FALSE, gid |-> g])
    BY <1>2 DEF AppRequest
  <2>2. /\ rq' \in Seq(Command) /\ v' \in Command
        /\ rpc' = rpc \/ rpc' = "got"
    <3>1. [cb |-> FALSE, gid |-> g] \in Command
      BY AppGidsAssumption DEF Command
    <3> QED
      BY <2>1, <3>1, PushTypes
  <2> QED
    BY <1>2, <2>2 DEF AppRequest, time, env, TypeOK
<1>3. CASE CommandTaken
  <2>1. CASE quitting /\ rpc' = "done" /\ UNCHANGED time
    BY <1>3, <2>1 DEF CommandTaken, time, env, TypeOK
  <2>2. CASE v.gid = All /\ ~quitting /\ rpc' # "done"
    <3>1. PICK d \in Pauses :
             /\ wait' = IF synced THEN Wait(d) ELSE FirstWait
             /\ since' = Capped(since + d)
             /\ rpc' = IF wait' = 0 THEN "list" ELSE "throttle"
             /\ UNCHANGED synced
      BY <1>3, <2>2 DEF CommandTaken
    <3>2. d \in Nat /\ since \in 0..Spacing
      BY PausesAssumption DEF TypeOK
    <3>3. /\ since' \in 0..Spacing
          /\ \A w \in 0..Spacing : d + w >= Spacing => since' + w >= Spacing
      BY <3>1, <3>2, AfterPause
    <3>4. CASE synced
      <4>1. wait' = Wait(d)
        BY <3>1, <3>4
      <4>2. wait' \in 0..Spacing /\ d + wait' >= Spacing
        BY <3>2, <4>1, WaitEnough
      <4>3. since' + wait' >= Spacing
        BY <3>3, <4>2
      <4>4. rpc' = "list" => since' >= Spacing
        BY <3>1, <3>3, <4>2, <4>3 DEF Spacing
      <4> QED
        BY <1>3, <3>1, <3>3, <3>4, <4>2, <4>3, <4>4
        DEF CommandTaken, env, TypeOK
    <3>5. CASE ~synced
      <4>1. wait' = FirstWait /\ FirstWait \in 1..Spacing
        BY <3>1, <3>5 DEF FirstWait, Spacing
      <4>2. since' + wait' >= FirstWait /\ rpc' = "throttle"
        <5>1. since' \in Nat /\ wait' \in Nat /\ wait' # 0
          BY <3>3, <4>1
        <5>2. wait' = FirstWait /\ FirstWait \in Nat
          BY <4>1
        <5>3. rpc' = "throttle"
          BY <3>1, <5>1
        <5>4. \A a, b \in Nat : a + b >= b
          OBVIOUS
        <5>5. since' + wait' >= FirstWait
          BY <5>1, <5>2, <5>4
        <5> QED
          BY <5>3, <5>5
      <4> QED
        BY <1>3, <3>1, <3>3, <3>5, <4>1, <4>2
        DEF CommandTaken, env, TypeOK
    <3> QED
      BY <3>4, <3>5
  <2>3. CASE v.gid # All /\ ~quitting
    BY <1>3, <2>3 DEF CommandTaken, time, env, TypeOK
  <2> QED
    BY <1>3, <2>1, <2>2, <2>3 DEF CommandTaken
<1>4. CASE ThrottleOver
  <2>1. /\ since \in 0..Spacing /\ wait \in 0..Spacing
        /\ since + wait >= IF synced THEN Spacing ELSE FirstWait
    BY <1>4 DEF ThrottleOver, TypeOK
  <2>2. since' \in 0..Spacing /\ since' >= IF synced THEN Spacing ELSE FirstWait
    <3>1. (IF synced THEN Spacing ELSE FirstWait) \in 0..Spacing
      BY DEF FirstWait, Spacing
    <3>2. wait \in Nat
      BY <2>1
    <3>3. since' = Capped(since + wait)
      BY <1>4 DEF ThrottleOver
    <3> QED
      BY <2>1, <3>1, <3>2, <3>3, AfterPause
  <2> QED
    BY <1>4, <2>2 DEF ThrottleOver, env, TypeOK
<1>5. CASE ListReturns
  <2>1. rq' \in Seq(Command) /\ v' \in Command /\ rpc' \in {"pop", "got"}
    <3>1. rq \in Seq(Command) /\ Append(rq, v) \in Seq(Command)
      BY DEF TypeOK
    <3> QED
      BY <1>5, <3>1, PopTypes DEF ListReturns
  <2> QED
    BY <1>5, <2>1 DEF ListReturns, CallBack, TypeOK, Spacing
<1>6. CASE MembersReturn
  <2>1. rq' \in Seq(Command) /\ v' \in Command /\ rpc' \in {"pop", "got"}
    BY <1>6, PopTypes DEF MembersReturn, TypeOK
  <2> QED
    BY <1>6, <2>1 DEF MembersReturn, CallBack, TypeOK, Spacing
<1>7. CASE Relogin
  BY <1>7 DEF Relogin, loop, time, TypeOK
<1>8. CASE MainReturns
  BY <1>8 DEF MainReturns, loop, time, TypeOK
<1>9. CASE Stop
  BY <1>9 DEF Stop, time, TypeOK
<1>10. CASE Restart
  <2>1. v' \in Command /\ rq' \in Seq(Command)
    <3>1. [cb |-> FALSE, gid |-> All] \in Command
      BY DEF Command
    <3> QED
      BY <1>10, <3>1 DEF Restart
  <2>2. since' \in 0..Spacing /\ wait' \in 0..Spacing
    BY <1>10 DEF Restart, TypeOK, Spacing
  <2>3. groups' \in SUBSET Gids
    BY <1>10 DEF Restart, TypeOK
  <2>4. /\ rpc' = "pop" /\ synced' = FALSE /\ main' = "running"
        /\ quitting' = FALSE /\ stopped' = FALSE
    BY <1>10 DEF Restart
  <2>5. TypeOK'
    BY <2>1, <2>2, <2>3, <2>4 DEF TypeOK
  <2> QED
    BY <2>4, <2>5
<1>11. CASE UNCHANGED vars
  BY <1>11 DEF vars, loop, time, env, TypeOK
<1> QED
  BY <1>1, <1>2, <1>3, <1>4, <1>5, <1>6, <1>7, <1>8, <1>9, <1>10, <1>11
  DEF Next, Loop

\* The inductive invariant holds in every reachable state.
THEOREM RefreshInvariant == Spec => []IInv
  BY InitIInv, StepIInv, PTL DEF Spec

\* The variables of the group refresh loop have their types.
THEOREM RefreshTypes == Spec => []TypeOK
<1>1. IInv => TypeOK
  BY DEF IInv
<1> QED
  BY <1>1, RefreshInvariant, PTL

\* A full refresh never starts sooner than 1800 seconds after the last one of
\* this loop, and the first one of a process not sooner than 1746 seconds
\* after the last one before a crash, for every pause between its commands.
THEOREM RefreshSpacing == Spec => []FullSpaced
<1>1. IInv => FullSpaced
  BY DEF IInv, SpacedInv
<1> QED
  BY <1>1, RefreshInvariant, PTL
-----------------------------------------------------------------------------
(* The callback of the main loop                                           *)

\* Of the commands s, none calls the main loop back, or exactly one does.
None(s) == \A n \in DOMAIN s : ~s[n].cb
One(s)  == \E k \in DOMAIN s : s[k].cb /\ \A n \in DOMAIN s : s[n].cb => n = k

\* A main loop in state m is owed what the commands s will call back.
Owing(m, s) == IF m = "waiting" THEN One(s) ELSE None(s)

\* The inductive form of CalledBackOnce: a full refresh that is queued again
\* owes the main loop nothing, since the main loop never asks for one.
OwedInv ==
    /\ rpc \notin {"done", "crashed"} => Owing(main, Commands)
    /\ v.cb => v.gid # All
    /\ \A n \in DOMAIN rq : rq[n].cb => rq[n].gid # All
    /\ rpc \in {"throttle", "list"} => v.gid = All
    /\ rpc = "pop" => rq = <<>>

\* A command before a line of commands.
LEMMA ConsOwed ==
    ASSUME NEW s \in Seq(Command), NEW c \in Command
    PROVE  /\ None(<<c>> \o s) <=> ~c.cb /\ None(s)
           /\ One(<<c>> \o s) <=> (c.cb /\ None(s)) \/ (~c.cb /\ One(s))
<1> DEFINE t == <<c>> \o s
<1>1. /\ <<c>> \in Seq(Command) /\ Len(<<c>>) = 1 /\ <<c>>[1] = c
      /\ DOMAIN s = 1..Len(s) /\ Len(s) \in Nat
  BY LenProperties
<1>2. /\ t \in Seq(Command) /\ Len(t) = 1 + Len(s)
      /\ \A n \in 1..(1 + Len(s)) : t[n] = IF n <= 1 THEN <<c>>[n] ELSE s[n - 1]
  BY <1>1, ConcatProperties
<1>3. DOMAIN t = 1..(1 + Len(s))
  BY <1>2, LenProperties
<1>4. 1 \in DOMAIN t /\ t[1] = c
  BY <1>1, <1>2, <1>3
<1>5. \A n \in DOMAIN s : n + 1 \in DOMAIN t /\ t[n + 1] = s[n] /\ n + 1 # 1
  BY <1>1, <1>2, <1>3
<1>6. \A n \in DOMAIN t : n = 1 \/ (n - 1 \in DOMAIN s /\ t[n] = s[n - 1])
  BY <1>1, <1>2, <1>3
<1>7. \A n \in DOMAIN t : n \in Int
  BY <1>1, <1>3
<1> HIDE DEF t
<1>8. None(t) <=> ~c.cb /\ None(s)
  BY <1>4, <1>5, <1>6 DEF None
<1>9. ASSUME One(t) PROVE (c.cb /\ None(s)) \/ (~c.cb /\ One(s))
  <2>1. PICK k \in DOMAIN t : t[k].cb /\ \A n \in DOMAIN t : t[n].cb => n = k
    BY <1>9 DEF One
  <2>2. CASE k = 1
    <3>1. None(s)
      BY <1>5, <2>1, <2>2 DEF None
    <3> QED
      BY <1>4, <2>1, <2>2, <3>1
  <2>3. CASE k # 1
    <3>1. k - 1 \in DOMAIN s /\ s[k - 1].cb /\ ~c.cb
      BY <1>4, <1>6, <2>1, <2>3
    <3>2. \A n \in DOMAIN s : s[n].cb => n = k - 1
      <4> SUFFICES ASSUME NEW n \in DOMAIN s, s[n].cb PROVE n = k - 1
        OBVIOUS
      <4>1. n + 1 = k /\ n \in Nat
        BY <1>1, <1>5, <2>1
      <4> QED
        BY <4>1
    <3> QED
      BY <3>1, <3>2 DEF One
  <2> QED
    BY <2>2, <2>3
<1>10. ASSUME c.cb, None(s) PROVE One(t)
  BY <1>4, <1>6, <1>10 DEF None, One
<1>11. ASSUME ~c.cb, One(s) PROVE One(t)
  <2>1. PICK k \in DOMAIN s : s[k].cb /\ \A n \in DOMAIN s : s[n].cb => n = k
    BY <1>11 DEF One
  <2>2. k + 1 \in DOMAIN t /\ t[k + 1].cb
    BY <1>5, <2>1
  <2>3. \A n \in DOMAIN t : t[n].cb => n = k + 1
    <3> SUFFICES ASSUME NEW n \in DOMAIN t, t[n].cb PROVE n = k + 1
      OBVIOUS
    <3>1. n - 1 \in DOMAIN s /\ t[n] = s[n - 1]
      BY <1>4, <1>6, <1>11
    <3>2. n - 1 = k
      BY <2>1, <3>1
    <3> QED
      BY <1>7, <3>2
  <2> QED
    BY <2>2, <2>3 DEF One
<1> QED
  BY <1>8, <1>9, <1>10, <1>11 DEF t

\* A command after a line of commands.
LEMMA AppendOwed ==
    ASSUME NEW s \in Seq(Command), NEW c \in Command
    PROVE  /\ None(Append(s, c)) <=> ~c.cb /\ None(s)
           /\ One(Append(s, c)) <=> (c.cb /\ None(s)) \/ (~c.cb /\ One(s))
<1> DEFINE t == Append(s, c)
<1>1. /\ DOMAIN s = 1..Len(s) /\ Len(s) \in Nat
      /\ t \in Seq(Command) /\ Len(t) = Len(s) + 1
      /\ \A n \in 1..Len(s) : t[n] = s[n]
      /\ t[Len(s) + 1] = c
  BY AppendProperties, LenProperties
<1>2. DOMAIN t = DOMAIN s \cup {Len(s) + 1} /\ Len(s) + 1 \notin DOMAIN s
  <2>1. DOMAIN t = 1..(Len(s) + 1)
    BY <1>1
  <2> QED
    BY <1>1, <2>1
<1>3. \A n \in DOMAIN s : t[n] = s[n]
  BY <1>1
<1> DEFINE e == Len(s) + 1
<1>4. t[e] = c /\ DOMAIN t = DOMAIN s \cup {e} /\ e \notin DOMAIN s
  BY <1>1, <1>2
<1> HIDE DEF t, e
<1>5. None(t) <=> ~c.cb /\ None(s)
  BY <1>3, <1>4 DEF None
<1>6. One(t) <=> (c.cb /\ None(s)) \/ (~c.cb /\ One(s))
  BY <1>3, <1>4, Zenon DEF None, One
<1> QED
  BY <1>5, <1>6 DEF t

\* A queue that is not empty is its first command before the others.
LEMMA HeadBeforeTail ==
    ASSUME NEW s \in Seq(Command), s # <<>>
    PROVE  /\ Head(s) \in Command /\ Tail(s) \in Seq(Command)
           /\ s = <<Head(s)>> \o Tail(s)
<1>1. Head(s) \in Command /\ Tail(s) \in Seq(Command)
      /\ Len(Tail(s)) = Len(s) - 1 /\ Len(s) \in Nat \ {0}
      /\ \A n \in 1..Len(Tail(s)) : Tail(s)[n] = s[n + 1]
  BY HeadTailProperties, EmptySeq
<1> DEFINE t == <<Head(s)>> \o Tail(s)
<1>2. /\ t \in Seq(Command) /\ Len(t) = 1 + Len(Tail(s))
      /\ \A n \in 1..(1 + Len(Tail(s))) :
            t[n] = IF n <= 1 THEN <<Head(s)>>[n] ELSE Tail(s)[n - 1]
  <2>1. <<Head(s)>> \in Seq(Command) /\ Len(<<Head(s)>>) = 1
    BY <1>1
  <2> QED
    BY <1>1, <2>1, ConcatProperties
<1>3. Len(t) = Len(s)
  BY <1>1, <1>2
<1>4. ASSUME NEW n \in 1..Len(s) PROVE s[n] = t[n]
  <2>1. CASE n = 1
    BY <1>1, <1>2, <2>1
  <2>2. CASE n # 1
    <3>1. n - 1 \in 1..Len(Tail(s)) /\ ~(n <= 1) /\ (n - 1) + 1 = n
      BY <1>1, <2>2
    <3>2. Tail(s)[n - 1] = s[n]
      BY <1>1, <3>1
    <3>3. t[n] = Tail(s)[n - 1]
      BY <1>1, <1>2, <3>1
    <3> QED
      BY <3>2, <3>3
  <2> QED
    BY <2>1, <2>2
<1>5. s = t
  BY <1>2, <1>3, <1>4, SeqEqual
<1> QED
  BY <1>1, <1>5

\* A new command is one more that is owed to its caller.
LEMMA PushOwed ==
    ASSUME TypeOK, OwedInv, NEW c \in Command, c.cb => c.gid # All,
           rpc \notin {"done", "crashed"}, Push(c)
    PROVE  /\ None(Commands') <=> ~c.cb /\ None(Commands)
           /\ One(Commands') <=>
                 (c.cb /\ None(Commands)) \/ (~c.cb /\ One(Commands))
<1>0. rq \in Seq(Command) /\ v \in Command
  BY DEF TypeOK
<1>1. CASE rpc = "pop"
  <2>1. Commands = <<>> \o rq /\ Commands' = <<c>> \o rq
    BY <1>1 DEF Push, Commands, InHand
  <2>2. Commands = rq
    BY <1>0, <2>1, ConcatEmptySeq
  <2> QED
    BY <1>0, <2>1, <2>2, ConsOwed
<1>2. CASE rpc \in {"got", "throttle", "list", "members"}
  <2>1. /\ Commands = <<v>> \o rq /\ Commands' = <<v>> \o Append(rq, c)
    BY <1>2 DEF Push, Commands, InHand
  <2>2. Append(rq, c) \in Seq(Command)
    BY <1>0
  <2>3. /\ None(Commands) <=> ~v.cb /\ None(rq)
        /\ One(Commands) <=> (v.cb /\ None(rq)) \/ (~v.cb /\ One(rq))
        /\ None(Commands') <=> ~v.cb /\ None(Append(rq, c))
        /\ One(Commands') <=> \/ v.cb /\ None(Append(rq, c))
                              \/ ~v.cb /\ One(Append(rq, c))
    BY <1>0, <2>1, <2>2, ConsOwed
  <2>4. /\ None(Append(rq, c)) <=> ~c.cb /\ None(rq)
        /\ One(Append(rq, c)) <=> (c.cb /\ None(rq)) \/ (~c.cb /\ One(rq))
    BY <1>0, AppendOwed
  <2> QED
    BY <2>3, <2>4
<1> QED
  BY <1>1, <1>2 DEF TypeOK

\* What async_pop leaves are the commands that were queued.
LEMMA PopOwed ==
    ASSUME NEW q \in Seq(Command), Pop(q)
    PROVE  Commands' = q
<1>1. CASE q = <<>>
  <2>1. rpc' = "pop" /\ rq' = q
    BY <1>1 DEF Pop
  <2> QED
    BY <2>1, ConcatEmptySeq DEF Commands, InHand
<1>2. CASE q # <<>>
  <2>1. rpc' = "got" /\ v' = Head(q) /\ rq' = Tail(q)
    BY <1>2 DEF Pop
  <2> QED
    BY <1>2, <2>1, HeadBeforeTail DEF Commands, InHand
<1> QED
  BY <1>1, <1>2

\* And none of them is a full refresh for the main loop.
LEMMA PopKind ==
    ASSUME TypeOK, OwedInv, NEW q \in Seq(Command), Pop(q),
           \A n \in DOMAIN q : q[n].cb => q[n].gid # All
    PROVE  /\ v'.cb => v'.gid # All
           /\ \A n \in DOMAIN rq' : rq'[n].cb => rq'[n].gid # All
           /\ rpc' \in {"pop", "got"}
           /\ rpc' = "pop" => rq' = <<>>
<1>1. CASE q = <<>>
  BY <1>1 DEF Pop, OwedInv
<1>2. CASE q # <<>>
  <2>1. rpc' = "got" /\ v' = Head(q) /\ rq' = Tail(q)
    BY <1>2 DEF Pop
  <2>2. /\ Tail(q) \in Seq(Command) /\ Len(Tail(q)) = Len(q) - 1
        /\ Len(q) \in Nat \ {0}
        /\ \A n \in 1..Len(Tail(q)) : Tail(q)[n] = q[n + 1]
    BY <1>2, HeadTailProperties, EmptySeq
  <2>3. DOMAIN q = 1..Len(q) /\ DOMAIN Tail(q) = 1..(Len(q) - 1)
    BY <2>2, LenProperties
  <2>4. Head(q) = q[1] /\ 1 \in DOMAIN q
    BY <1>2, <2>2, <2>3
  <2>5. \A n \in DOMAIN Tail(q) : n + 1 \in DOMAIN q /\ Tail(q)[n] = q[n + 1]
    BY <2>2, <2>3
  <2> QED
    BY <2>1, <2>4, <2>5
<1> QED
  BY <1>1, <1>2
\* A push of a command of the application owes the main loop nothing; one of
\* the main loop is the only one it is owed from then on.
LEMMA PushStep ==
    ASSUME TypeOK, OwedInv, rpc # "crashed",
           NEW c \in Command, c.cb => c.gid # All, Push(c),
           IF c.cb THEN main # "waiting" /\ main' = "waiting" ELSE main' = main
    PROVE  OwedInv'
<1>0. rq \in Seq(Command) /\ v \in Command
  BY DEF TypeOK
<1>1. rpc' \notin {"done", "crashed"} => Owing(main', Commands')
  <2> SUFFICES ASSUME rpc' \notin {"done", "crashed"}
               PROVE  Owing(main', Commands')
    OBVIOUS
  <2>1. rpc \notin {"done", "crashed"}
    BY DEF Push
  <2>2. Owing(main, Commands)
    BY <2>1 DEF OwedInv
  <2>3. /\ None(Commands') <=> ~c.cb /\ None(Commands)
        /\ One(Commands') <=>
              (c.cb /\ None(Commands)) \/ (~c.cb /\ One(Commands))
    BY <2>1, PushOwed
  <2>4. CASE c.cb
    <3>1. main # "waiting" /\ main' = "waiting"
      BY <2>4
    <3> QED
      BY <2>2, <2>3, <2>4, <3>1 DEF Owing
  <2>5. CASE ~c.cb
    <3>1. main' = main
      BY <2>5
    <3> QED
      BY <2>2, <2>3, <2>5, <3>1 DEF Owing
  <2> QED
    BY <2>4, <2>5
<1>2. CASE rpc = "pop"
  <2>1. rpc' = "got" /\ v' = c /\ rq' = rq
    BY <1>2 DEF Push
  <2> QED
    BY <1>1, <2>1 DEF OwedInv, Owing, One, None
<1>3. CASE rpc # "pop"
  <2>1. rq' = Append(rq, c) /\ rpc' = rpc /\ v' = v
    BY <1>3 DEF Push
  <2>2. \A n \in DOMAIN rq' : rq'[n].cb => rq'[n].gid # All
    <3>1. /\ DOMAIN rq = 1..Len(rq) /\ Len(rq) \in Nat
          /\ rq' \in Seq(Command) /\ Len(rq') = Len(rq) + 1
          /\ \A n \in 1..Len(rq) : rq'[n] = rq[n]
          /\ rq'[Len(rq) + 1] = c
      BY <1>0, <2>1, AppendProperties, LenProperties
    <3>2. DOMAIN rq' = 1..(Len(rq) + 1)
      BY <3>1, LenProperties
    <3>3. \A n \in DOMAIN rq' : n \in DOMAIN rq \/ n = Len(rq) + 1
      BY <3>1, <3>2
    <3> QED
      BY <3>1, <3>3 DEF OwedInv
  <2> QED
    BY <1>1, <1>3, <2>1, <2>2 DEF OwedInv, Owing, One, None
<1> QED
  BY <1>2, <1>3

\* The end of a command: what stays queued is owed, without the command, whose
\* caller was called; a full refresh that is queued again has no such caller.
LEMMA ReturnStep ==
    ASSUME TypeOK, OwedInv, rpc \in {"list", "members"}, CallBack,
           \/ Pop(rq)
           \/ rpc = "list" /\ Pop(Append(rq, v))
    PROVE  OwedInv'
<1>0. rq \in Seq(Command) /\ v \in Command /\ v.cb \in BOOLEAN
  BY DEF TypeOK, Command
<1>1. Commands = <<v>> \o rq /\ Owing(main, Commands)
  BY DEF OwedInv, Commands, InHand
<1>2. /\ None(Commands) <=> ~v.cb /\ None(rq)
      /\ One(Commands) <=> (v.cb /\ None(rq)) \/ (~v.cb /\ One(rq))
  BY <1>0, <1>1, ConsOwed
<1>3. Owing(main', rq)
  BY <1>1, <1>2 DEF Owing, CallBack
<1>4. CASE Pop(rq)
  <2>1. Commands' = rq
    BY <1>0, <1>4, PopOwed
  <2>2. /\ v'.cb => v'.gid # All
        /\ \A n \in DOMAIN rq' : rq'[n].cb => rq'[n].gid # All
        /\ rpc' \in {"pop", "got"}
        /\ rpc' = "pop" => rq' = <<>>
    <3>1. \A n \in DOMAIN rq : rq[n].cb => rq[n].gid # All
      BY DEF OwedInv
    <3> QED
      BY <1>0, <1>4, <3>1, PopKind
  <2> QED
    BY <1>3, <2>1, <2>2 DEF OwedInv, Owing, One, None
<1>5. CASE rpc = "list" /\ Pop(Append(rq, v))
  <2>1. ~v.cb /\ Append(rq, v) \in Seq(Command)
    BY <1>0, <1>5 DEF OwedInv
  <2>2. Commands' = Append(rq, v)
    BY <1>5, <2>1, PopOwed
  <2>3. Owing(main', Append(rq, v))
    BY <1>0, <1>3, <2>1, AppendOwed DEF Owing
  <2>4. \A n \in DOMAIN Append(rq, v) :
           Append(rq, v)[n].cb => Append(rq, v)[n].gid # All
    <3>1. /\ DOMAIN rq = 1..Len(rq) /\ Len(rq) \in Nat
          /\ Len(Append(rq, v)) = Len(rq) + 1
          /\ \A n \in 1..Len(rq) : Append(rq, v)[n] = rq[n]
          /\ Append(rq, v)[Len(rq) + 1] = v
      BY <1>0, AppendProperties, LenProperties
    <3>2. DOMAIN Append(rq, v) = 1..(Len(rq) + 1)
      BY <2>1, <3>1, LenProperties
    <3>3. \A n \in DOMAIN Append(rq, v) : n \in DOMAIN rq \/ n = Len(rq) + 1
      BY <3>1, <3>2
    <3> QED
      BY <2>1, <3>1, <3>3 DEF OwedInv
  <2>5. /\ v'.cb => v'.gid # All
        /\ \A n \in DOMAIN rq' : rq'[n].cb => rq'[n].gid # All
        /\ rpc' \in {"pop", "got"}
        /\ rpc' = "pop" => rq' = <<>>
    BY <1>5, <2>1, <2>4, PopKind
  <2> QED
    BY <2>2, <2>3, <2>5 DEF OwedInv, Owing, One, None
<1> QED
  BY <1>4, <1>5

\* Where neither the commands nor a wait of the main loop change, what is owed
\* stays, unless the coroutine goes.
LEMMA KeepStep ==
    ASSUME OwedInv, rq' = rq, v' = v,
           main' = main \/ (main # "waiting" /\ main' # "waiting"),
           \/ rpc' = rpc
           \/ rpc' \in {"done", "crashed"}
           \/ /\ {rpc, rpc'} \subseteq {"got", "throttle", "list", "members"}
              /\ rpc' \in {"throttle", "list"} => v.gid = All
    PROVE  OwedInv'
<1>1. rpc' \notin {"done", "crashed"} => InHand' = InHand /\ Commands' = Commands
  BY DEF InHand, Commands
<1>2. rpc' \notin {"done", "crashed"} => rpc \notin {"done", "crashed"}
  OBVIOUS
<1>3. rpc' \notin {"done", "crashed"} => Owing(main', Commands')
  BY <1>1, <1>2 DEF OwedInv, Owing
<1> QED
  BY <1>3 DEF OwedInv, Owing, One, None

\* Every step keeps what is owed.
LEMMA StepOwed == TypeOK /\ OwedInv /\ [Next]_vars => OwedInv'
<1> SUFFICES ASSUME TypeOK, OwedInv, [Next]_vars PROVE OwedInv'
  OBVIOUS
<1>1. CASE Request
  <2>1. PICK g \in Gids : Push([cb |-> TRUE, gid |-> g])
    BY <1>1 DEF Request
  <2>2. /\ [cb |-> TRUE, gid |-> g] \in Command
        /\ [cb |-> TRUE, gid |-> g].cb /\ [cb |-> TRUE, gid |-> g].gid # All
    BY GidsAssumption DEF Command
  <2>3. rpc # "crashed" /\ main # "waiting" /\ main' = "waiting"
    BY <1>1 DEF Request
  <2> QED
    BY <2>1, <2>2, <2>3, PushStep
<1>2. CASE AppRequest
  <2>1. PICK g \in AppGids : Push([cb |-> FALSE, gid |-> g])
    BY <1>2 DEF AppRequest
  <2>2. /\ [cb |-> FALSE, gid |-> g] \in Command
        /\ ~[cb |-> FALSE, gid |-> g].cb
    BY AppGidsAssumption DEF Command
  <2>3. rpc # "crashed" /\ main' = main
    BY <1>2 DEF AppRequest, env
  <2> QED
    BY <2>1, <2>2, <2>3, PushStep
<1>3. CASE CommandTaken
  <2>1. rpc = "got" /\ rq' = rq /\ v' = v /\ main' = main
    BY <1>3 DEF CommandTaken, env
  <2>2. \/ rpc' \in {"done", "crashed", "members"}
        \/ v.gid = All /\ rpc' \in {"throttle", "list"}
    BY <1>3 DEF CommandTaken
  <2> QED
    BY <2>1, <2>2, KeepStep
<1>4. CASE ThrottleOver
  <2>1. /\ rpc = "throttle" /\ rpc' = "list" /\ v.gid = All
        /\ rq' = rq /\ v' = v /\ main' = main
    BY <1>4 DEF ThrottleOver, env, OwedInv
  <2> QED
    BY <2>1, KeepStep
<1>5. CASE ListReturns
  BY <1>5, ReturnStep DEF ListReturns
<1>6. CASE MembersReturn
  BY <1>6, ReturnStep DEF MembersReturn
<1>7. CASE Relogin
  BY <1>7, KeepStep DEF Relogin, loop
<1>8. CASE MainReturns
  BY <1>8, KeepStep DEF MainReturns, loop
<1>9. CASE Stop
  BY <1>9, KeepStep DEF Stop
<1>10. CASE Restart
  <2>1. /\ rq' = <<>> /\ rpc' = "pop" /\ main' = "running" /\ ~v'.cb
    BY <1>10 DEF Restart
  <2>2. Commands' = <<>>
    BY <2>1, ConcatEmptySeq DEF Commands, InHand
  <2>3. None(<<>>)
    BY DEF None
  <2> QED
    BY <2>1, <2>2, <2>3 DEF OwedInv, Owing
<1>11. CASE UNCHANGED vars
  BY <1>11, KeepStep DEF vars, loop, env
<1> QED
  BY <1>1, <1>2, <1>3, <1>4, <1>5, <1>6, <1>7, <1>8, <1>9, <1>10, <1>11
  DEF Next, Loop

\* The main loop is owed exactly one callback while it waits and none
\* otherwise, for every history of commands, failures, relogins and restarts.
THEOREM MainCalledBackOnce == Spec => []CalledBackOnce
<1>1. Init => OwedInv
  <2> SUFFICES ASSUME Init PROVE OwedInv
    OBVIOUS
  <2>1. rq = <<>> /\ rpc = "pop" /\ main = "running" /\ ~v.cb
    BY DEF Init
  <2>2. Commands = <<>>
    BY <2>1, ConcatEmptySeq DEF Commands, InHand
  <2>3. None(<<>>)
    BY DEF None
  <2> QED
    BY <2>1, <2>2, <2>3 DEF OwedInv, Owing
<1>2. OwedInv => CalledBackOnce
  <2> SUFFICES ASSUME OwedInv, rpc \notin {"done", "crashed"}
               PROVE  IF main = "waiting"
                      THEN \E k \in DOMAIN Commands : OwedOnes = {k}
                      ELSE OwedOnes = {}
    BY DEF CalledBackOnce
  <2>1. Owing(main, Commands)
    BY DEF OwedInv
  <2> QED
    BY <2>1 DEF Owing, One, None, OwedOnes
<1> QED
  BY <1>1, <1>2, StepOwed, RefreshTypes, PTL DEF Spec
===============================================================================
