---------------------------- MODULE SessionProofs ----------------------------
(***************************************************************************)
(* Proofs about the main loop, for every value of the constants: the       *)
(* inductive invariant IInv of SessionProperties, the safety properties    *)
(* that follow from it, and that the loop implements Presence.             *)
(***************************************************************************)
EXTENDS SessionProperties, TLAPS

-----------------------------------------------------------------------------
(* The queue of verification codes                                         *)

\* A push keeps the queue a bounded queue of codes.
LEMMA PushBackType ==
    ASSUME NEW q \in Seq(Codes), Len(q) <= VcCap, NEW x \in Codes
    PROVE  /\ PushBack(q, x, VcCap) \in Seq(Codes)
           /\ Len(PushBack(q, x, VcCap)) <= VcCap
  BY DEF PushBack, VcCap

\* A push into the empty queue makes it a queue of one code.
LEMMA PushBackEmpty == \A x : PushBack(<<>>, x, VcCap) = <<x>>
  BY DEF PushBack, VcCap

\* async_pop on a queue of one code hands it out at once.
LEMMA TakeVcOne ==
    ASSUME NEW x, TakeVc(<<x>>)
    PROVE  vcq' = <<>> /\ str' = x /\ pc' = "vcGot"
  BY DEF TakeVc

\* A new challenge changes neither the type nor the length of the queue.
LEMMA StaleType ==
    ASSUME NEW q \in Seq(Codes)
    PROVE  Stale(q) \in Seq(Codes) /\ Len(Stale(q)) = Len(q)
<1>1. Stale(q) \in [1..Len(q) -> Codes]
  BY DEF Stale, Codes
<1>2. QED
  BY <1>1

\* It leaves the empty queue empty.
LEMMA StaleEmpty == Stale(<<>>) = <<>>
<1>1. <<>> \in Seq(Codes)
  OBVIOUS
<1>2. Len(Stale(<<>>)) = 0 /\ Stale(<<>>) \in Seq(Codes)
  BY <1>1, StaleType
<1>3. QED
  BY <1>2

\* What async_pop hands out is a code, and the rest is a bounded queue.
LEMMA TakeVcType ==
    ASSUME TypeOK, NEW q \in Seq(Codes), Len(q) <= VcCap, TakeVc(q)
    PROVE  /\ vcq' \in Seq(Codes) /\ Len(vcq') <= VcCap
           /\ str' \in Codes
           /\ pc' \in PCs
  BY DEF TakeVc, TypeOK, PCs, VcCap

\* Timers keep gap within its bound; after 12 seconds it is at least 12, and
\* after 30 it is at the bound.
LEMMA ElapseType ==
    ASSUME TypeOK, NEW d \in Nat
    PROVE  /\ Elapse(d) \in 0..GapCap
           /\ d >= 12 => Elapse(d) >= 12
           /\ d >= 30 => Elapse(d) = GapCap
           /\ gap = GapCap => Elapse(d) = GapCap
  BY DEF Elapse, GapCap, TypeOK

\* The empty jar is a jar.
LEMMA EmptyJarType == EmptyJar \in Jars
  BY DEF EmptyJar, Jars

\* Wherever the loop goes from its two tests, pc and the jar keep their types.
LEMMA PollOrReloginType ==
    ASSUME TypeOK, NEW st, PollOrRelogin(st)
    PROVE  pc' \in PCs /\ jar' \in Jars
<1>1. pc' \in PCs
  BY DEF PollOrRelogin, PCs, CheckPCs
<1>2. jar' \in Jars
  BY EmptyJarType DEF PollOrRelogin, TypeOK
<1>3. QED
  BY <1>1, <1>2

\* And so does the head of the outer loop, which may also reset netErr.
LEMMA NextRoundType ==
    ASSUME TypeOK, NEW st, NextRound(st)
    PROVE  pc' \in PCs /\ jar' \in Jars /\ netErr' \in 0..MaxNetErr
<1>1. CASE st = "QUITTING"
  BY <1>1 DEF NextRound, TypeOK, PCs
<1>2. CASE st # "QUITTING"
  BY <1>2, PollOrReloginType DEF NextRound, MaxNetErr
<1>3. QED
  BY <1>1, <1>2

-----------------------------------------------------------------------------
(* Type correctness *)

\* The initial state has the types.
LEMMA TypeInit ==
    ASSUME Init
    PROVE  TypeOK
<1>1. /\ jar \in Jars /\ status \in Status /\ firs_start \in 0..1
      /\ psessionid \in BOOLEAN /\ clientid \in BOOLEAN /\ alive \in BOOLEAN
  BY DEF Init, Loaded, Jars, Status
<1>2. /\ pc \in PCs /\ vcq \in Seq(Codes) /\ Len(vcq) <= VcCap
      /\ str \in Codes /\ gap \in 0..GapCap
  BY DEF Init, PCs, Codes, VcCap, GapCap
<1>3. /\ netErr \in 0..MaxNetErr /\ attempt \in 0..GroupListRetries
      /\ ec = "ok"
  BY DEF Init, MaxNetErr, GroupListRetries
<1>4. stopped \in BOOLEAN /\ asked \in BOOLEAN
  BY DEF Init
<1>5. crashes \in 0..MaxCrashes
  BY MaxCrashesAssumption DEF Init
<1>6. QED
  BY <1>1, <1>2, <1>3, <1>4, <1>5 DEF TypeOK

\* Every step keeps the types.
LEMMA TypeStep ==
    ASSUME TypeOK, NetErrInv, [Next]_vars
    PROVE  TypeOK'
<1>1. CASE Boot
  <2>1. pc' \in PCs /\ jar' \in Jars /\ netErr' \in 0..MaxNetErr
    BY <1>1, NextRoundType DEF Boot
  <2>2. gap' \in 0..GapCap
    BY <1>1 DEF Boot, TypeOK
  <2>3. QED
    BY <1>1, <2>1, <2>2 DEF Boot, TypeOK, Status, Errors, PollErrors,
         LoginErrors, MaxNetErr, GroupListRetries, memory, control, codes,
         history
<1>2. CASE PollOk
  <2>1. pc' \in PCs /\ jar' \in Jars
    BY <1>2, PollOrReloginType DEF PollOk
  <2>2. QED
    BY <1>2, <2>1 DEF PollOk, TypeOK, Status, Errors, PollErrors,
         LoginErrors, MaxNetErr, GroupListRetries, memory, control, codes,
         history
<1>3. CASE PollUnhandled
  <2>1. pc' \in PCs /\ jar' \in Jars
    BY <1>3, PollOrReloginType DEF PollUnhandled
  <2>2. gap' \in 0..GapCap
    BY <1>3 DEF PollUnhandled, TypeOK
  <2>3. QED
    BY <1>3, <2>1, <2>2 DEF PollUnhandled, TypeOK, Status, Errors,
         PollErrors, LoginErrors, MaxNetErr, GroupListRetries, memory,
         control, codes, history
<1>4. CASE PollNeedLogin
  BY <1>4 DEF PollNeedLogin, TypeOK, Jars, Status, PCs, CheckPCs, LoginPCs,
       Errors, PollErrors, LoginErrors, MaxNetErr, GroupListRetries, memory,
       control, codes, history
<1>5. CASE PollNetworkError
  <2>1. netErr' \in 0..MaxNetErr
    BY <1>5 DEF PollNetworkError, NetErrInv, TypeOK, MaxNetErr
  <2>2. QED
    BY <1>5, <2>1 DEF PollNetworkError, TypeOK, Jars, Status, PCs,
         CheckPCs, LoginPCs, Errors, PollErrors, LoginErrors,
         GroupListRetries, memory, control, codes, history
<1>6. CASE PollNeedRefresh
  BY <1>6 DEF PollNeedRefresh, TypeOK, Jars, Status, PCs, CheckPCs,
       LoginPCs, Errors, PollErrors, LoginErrors, MaxNetErr,
       GroupListRetries, memory, control, codes, history
<1>7. CASE HomeReturns
  BY <1>7 DEF HomeReturns, TypeOK, Jars, Status, PCs, CheckPCs, LoginPCs,
       Errors, PollErrors, LoginErrors, MaxNetErr, GroupListRetries, memory,
       control, codes, history
<1>8. CASE VersionReturns
  BY <1>8 DEF VersionReturns, TypeOK, Jars, Status, PCs, CheckPCs, LoginPCs,
       Errors, PollErrors, LoginErrors, MaxNetErr, GroupListRetries, memory,
       control, codes, history
<1>9. CASE SigReturns
  BY <1>9 DEF SigReturns, TypeOK, Jars, Status, PCs, CheckPCs, LoginPCs,
       Errors, PollErrors, LoginErrors, MaxNetErr, GroupListRetries, memory,
       control, codes, history
<1>10. CASE CheckGivesVc
  <2>1. /\ PushBack(Stale(vcq), "fresh", VcCap) \in Seq(Codes)
        /\ Len(PushBack(Stale(vcq), "fresh", VcCap)) <= VcCap
    BY StaleType, PushBackType DEF TypeOK, Codes
  <2>2. QED
    BY <1>10, <2>1, TakeVcType DEF CheckGivesVc, TypeOK, Jars, Status,
         PCs, CheckPCs, LoginPCs, Errors, PollErrors, LoginErrors,
         MaxNetErr, GroupListRetries, memory, control, history
<1>11. CASE CheckNeedsImage
  BY <1>11 DEF CheckNeedsImage, TypeOK, Jars, Status, PCs, CheckPCs,
       LoginPCs, Errors, PollErrors, LoginErrors, MaxNetErr,
       GroupListRetries, memory, control, codes, history
<1>12. CASE CheckFails
  BY <1>12 DEF CheckFails, TypeOK, Jars, Status, PCs, CheckPCs, LoginPCs,
       Errors, PollErrors, LoginErrors, MaxNetErr, GroupListRetries, memory,
       control, codes, history
<1>13. CASE ImageReturns
  <2>1. Stale(vcq) \in Seq(Codes) /\ Len(Stale(vcq)) <= VcCap
    BY StaleType DEF TypeOK
  <2>2. \A x \in Codes : /\ PushBack(Stale(vcq), x, VcCap) \in Seq(Codes)
                         /\ Len(PushBack(Stale(vcq), x, VcCap)) <= VcCap
    BY <2>1, PushBackType
  <2>3. \E q \in Seq(Codes) : Len(q) <= VcCap /\ TakeVc(q)
    BY <1>13, <2>1, <2>2 DEF ImageReturns, Codes
  <2>4. /\ vcq' \in Seq(Codes) /\ Len(vcq') <= VcCap
        /\ str' \in Codes /\ pc' \in PCs
    BY <2>3, TakeVcType
  <2>5. asked' \in BOOLEAN
    BY <1>13 DEF ImageReturns
  <2>6. QED
    BY <1>13, <2>4, <2>5 DEF ImageReturns, TypeOK, Jars, Status, PCs,
         CheckPCs, LoginPCs, Errors, PollErrors, LoginErrors, MaxNetErr,
         GroupListRetries, memory, control, history
<1>14. CASE ImageFails
  BY <1>14 DEF ImageFails, TypeOK, Jars, Status, PCs, CheckPCs, LoginPCs,
       Errors, PollErrors, LoginErrors, MaxNetErr, GroupListRetries, memory,
       control, codes, history
<1>15. CASE VcArrives
  <2>1. gap' \in 0..GapCap
    <3>1. gap' = 0 \/ gap' = gap
      BY <1>15 DEF VcArrives
    <3>2. gap \in 0..GapCap
      BY DEF TypeOK
    <3>3. QED
      BY <3>1, <3>2 DEF GapCap
  <2>2. CASE str = "blank"
    BY <1>15, <2>1, <2>2, NextRoundType DEF VcArrives, TypeOK, Status,
         Errors, PollErrors, LoginErrors, MaxNetErr, GroupListRetries,
         memory, control, codes, history
  <2>3. CASE str # "blank"
    BY <1>15, <2>1, <2>3 DEF VcArrives, TypeOK, Jars, Status, PCs,
         CheckPCs, LoginPCs, Errors, PollErrors, LoginErrors, MaxNetErr,
         GroupListRetries, memory, control, codes, history
  <2>4. QED
    BY <2>2, <2>3
<1>16. CASE LoginAccepted
  BY <1>16 DEF LoginAccepted, TypeOK, Jars, Status, PCs, CheckPCs, LoginPCs,
       Errors, PollErrors, LoginErrors, MaxNetErr, GroupListRetries, memory,
       control, codes, history
<1>17. CASE LoginRefused
  BY <1>17 DEF LoginRefused, ReturnFromLogin, TypeOK, Jars, Status, PCs,
       CheckPCs, LoginPCs, Errors, PollErrors, LoginErrors, MaxNetErr,
       GroupListRetries, memory, control, codes, history
<1>18. CASE RedirectReturns
  BY <1>18 DEF RedirectReturns, TypeOK, Jars, Status, PCs, CheckPCs,
       LoginPCs, Errors, PollErrors, LoginErrors, MaxNetErr,
       GroupListRetries, memory, control, codes, history
<1>19. CASE VfwebqqReturns
  BY <1>19 DEF VfwebqqReturns, TypeOK, Jars, Status, PCs, CheckPCs,
       LoginPCs, Errors, PollErrors, LoginErrors, MaxNetErr,
       GroupListRetries, memory, control, codes, history
<1>20. CASE SetStatusOk
  BY <1>20 DEF SetStatusOk, TypeOK, Jars, Status, PCs, CheckPCs, LoginPCs,
       Errors, PollErrors, LoginErrors, MaxNetErr, GroupListRetries, memory,
       control, codes, history
<1>21. CASE SetStatusFails
  BY <1>21 DEF SetStatusFails, ReturnFromLogin, TypeOK, Jars, Status, PCs,
       CheckPCs, LoginPCs, Errors, PollErrors, LoginErrors, MaxNetErr,
       GroupListRetries, memory, control, codes, history
<1>22. CASE BuddiesReturn
  BY <1>22 DEF BuddiesReturn, ReturnFromLogin, TypeOK, Jars, Status, PCs,
       CheckPCs, LoginPCs, Errors, PollErrors, LoginErrors, MaxNetErr,
       GroupListRetries, memory, control, codes, history
<1>23. CASE GroupListOk
  BY <1>23 DEF GroupListOk, TypeOK, Jars, Status, PCs, CheckPCs, LoginPCs,
       Errors, PollErrors, LoginErrors, MaxNetErr, GroupListRetries, memory,
       control, codes, history
<1>24. CASE GroupListFails
  BY <1>24 DEF GroupListFails, TypeOK, Jars, Status, PCs, CheckPCs,
       LoginPCs, Errors, PollErrors, LoginErrors, MaxNetErr,
       GroupListRetries, memory, control, codes, history
<1>25. CASE LoginSucceeded
  <2>1. pc' \in PCs /\ jar' \in Jars /\ netErr' \in 0..MaxNetErr
    BY <1>25, NextRoundType DEF LoginSucceeded
  <2>2. gap' \in 0..GapCap
    BY <1>25 DEF LoginSucceeded, TypeOK
  <2>3. QED
    BY <1>25, <2>1, <2>2 DEF LoginSucceeded, TypeOK, Status, Errors,
         PollErrors, LoginErrors, MaxNetErr, GroupListRetries, memory,
         control, codes, history
<1>26. CASE LoginWrongPasswd
  BY <1>26 DEF LoginWrongPasswd, TypeOK, Jars, Status, PCs, CheckPCs,
       LoginPCs, Errors, PollErrors, LoginErrors, MaxNetErr,
       GroupListRetries, memory, control, codes, history
<1>27. CASE LoginFailed
  BY <1>27 DEF LoginFailed, TypeOK, Jars, Status, PCs, CheckPCs, LoginPCs,
       Errors, PollErrors, LoginErrors, MaxNetErr, GroupListRetries, memory,
       control, codes, history
<1>28. CASE PollWaitOver
  <2>1. pc' \in PCs /\ jar' \in Jars
    BY <1>28, PollOrReloginType DEF PollWaitOver
  <2>2. gap' \in 0..GapCap
    <3>1. (IF ec = "need_login" THEN 60 * firs_start ELSE 12) \in Nat
      BY DEF TypeOK
    <3>2. QED
      BY <1>28, <3>1, ElapseType DEF PollWaitOver
  <2>3. QED
    BY <1>28, <2>1, <2>2 DEF PollWaitOver, TypeOK, Status, Errors,
         PollErrors, LoginErrors, MaxNetErr, GroupListRetries, memory,
         control, codes, history
<1>29. CASE CheckWaitOver
  <2>1. gap' \in 0..GapCap
    BY <1>29, ElapseType DEF CheckWaitOver
  <2>2. QED
    BY <1>29, <2>1 DEF CheckWaitOver, TypeOK, Jars, Status, PCs, CheckPCs,
         LoginPCs, Errors, PollErrors, LoginErrors, MaxNetErr,
         GroupListRetries, memory, control, codes, history
<1>30. CASE GroupWaitOver
  <2>1. attempt * 20 + 50 \in Nat
    BY DEF TypeOK
  <2>2. gap' \in 0..GapCap
    BY <1>30, <2>1, ElapseType DEF GroupWaitOver
  <2>3. QED
    BY <1>30, <2>2 DEF GroupWaitOver, ReturnFromLogin, TypeOK, Jars,
         Status, PCs, CheckPCs, LoginPCs, Errors, PollErrors, LoginErrors,
         MaxNetErr, GroupListRetries, memory, control, codes, history
<1>31. CASE BlockedWaitOver
  <2>1. gap' \in 0..GapCap
    BY <1>31, ElapseType DEF BlockedWaitOver
  <2>2. QED
    BY <1>31, <2>1 DEF BlockedWaitOver, TypeOK, Jars, Status, PCs,
         CheckPCs, LoginPCs, Errors, PollErrors, LoginErrors, MaxNetErr,
         GroupListRetries, memory, control, codes, history
<1>32. CASE RetryWaitOver
  <2>1. pc' \in PCs /\ jar' \in Jars /\ netErr' \in 0..MaxNetErr
    BY <1>32, NextRoundType DEF RetryWaitOver
  <2>2. gap' \in 0..GapCap
    BY <1>32, ElapseType DEF RetryWaitOver
  <2>3. QED
    BY <1>32, <2>1, <2>2 DEF RetryWaitOver, TypeOK, Status, Errors,
         PollErrors, LoginErrors, MaxNetErr, GroupListRetries, memory,
         control, codes, history
<1>33. CASE MembersReturn
  BY <1>33 DEF MembersReturn, ReturnFromLogin, TypeOK, Jars, Status, PCs,
       CheckPCs, LoginPCs, Errors, PollErrors, LoginErrors, MaxNetErr,
       GroupListRetries, memory, control, codes, history
<1>34. CASE Feed
  <2>1. PICK x \in Codes :
          \/ pc = "vcWait" /\ pc' = "vcGot" /\ str' = x /\ UNCHANGED vcq
          \/ vcq' = PushBack(vcq, x, VcCap) /\ UNCHANGED <<pc, str>>
    BY <1>34 DEF Feed, Codes
  <2>2. /\ vcq' \in Seq(Codes) /\ Len(vcq') <= VcCap
        /\ str' \in Codes /\ pc' \in PCs
    BY <2>1, PushBackType DEF TypeOK, PCs
  <2>3. QED
    BY <1>34, <2>2 DEF Feed, TypeOK, Jars, Status, PCs, CheckPCs,
         LoginPCs, Errors, PollErrors, LoginErrors, MaxNetErr,
         GroupListRetries, memory, control, history
<1>35. CASE Stop
  BY <1>35 DEF Stop, TypeOK, Jars, Status, PCs, CheckPCs, LoginPCs, Errors,
       PollErrors, LoginErrors, MaxNetErr, GroupListRetries, memory,
       control, codes, history
<1>36. CASE Restart
  <2>1. gap' \in 0..GapCap
    BY <1>36 DEF Restart, GapCap
  <2>2. vcq' \in Seq(Codes) /\ Len(vcq') <= VcCap /\ str' \in Codes
    BY <1>36 DEF Restart, VcCap, Codes
  <2>3. jar' \in Jars
    BY <1>36, EmptyJarType DEF Restart, TypeOK
  <2>4. psessionid' \in BOOLEAN /\ clientid' \in BOOLEAN
    BY <1>36, <2>3 DEF Restart, Loaded, Jars
  <2>5. firs_start' \in 0..1 /\ status' \in Status
    BY <1>36 DEF Restart, Loaded, Status
  <2>6. crashes' \in 0..MaxCrashes
    BY <1>36, MaxCrashesAssumption DEF Restart, TypeOK
  <2>7. /\ pc' \in PCs /\ ec' = "ok" /\ netErr' \in 0..MaxNetErr
        /\ attempt' \in 0..GroupListRetries /\ asked' = FALSE
        /\ stopped' = FALSE /\ alive' = alive
    BY <1>36 DEF Restart, PCs, MaxNetErr, GroupListRetries
  <2>8. QED
    BY <2>1, <2>2, <2>3, <2>4, <2>5, <2>6, <2>7 DEF TypeOK
<1>37. CASE UNCHANGED vars
  BY <1>37 DEF vars, memory, control, codes, history, TypeOK, Jars, Status,
       PCs, CheckPCs, LoginPCs, Errors, PollErrors, LoginErrors, MaxNetErr,
       GroupListRetries
<1>38. QED
  BY <1>1, <1>2, <1>3, <1>4, <1>5, <1>6, <1>7, <1>8, <1>9, <1>10, <1>11,
       <1>12, <1>13, <1>14, <1>15, <1>16, <1>17, <1>18, <1>19, <1>20, <1>21,
       <1>22, <1>23, <1>24, <1>25, <1>26, <1>27, <1>28, <1>29, <1>30, <1>31,
       <1>32, <1>33, <1>34, <1>35, <1>36, <1>37
     DEF Next, Loop, PollReturns, CheckLogin, Login, LoginResult, Timers

-----------------------------------------------------------------------------
(* The other parts of the invariant *)

\* They hold initially.
LEMMA PartsInit ==
    ASSUME Init
    PROVE  /\ NetErrInv /\ QuitInv /\ ReloginInv /\ CompleteInv /\ CodeInv
           /\ GapInv
<1>1. NetErrInv /\ QuitInv /\ CompleteInv /\ CodeInv
  BY DEF Init, Loaded, NetErrInv, QuitInv, CompleteInv, CodeInv
<1>2. ReloginInv
  BY DEF Init, Loaded, ReloginInv, Relogging, CheckPCs
<1>3. GapInv
  BY DEF Init, Loaded, GapInv, CheckPCs, GapCap
<1>4. QED
  BY <1>1, <1>2, <1>3

\* The counter of network errors.
LEMMA NetErrStep ==
    ASSUME TypeOK, NetErrInv, [Next]_vars
    PROVE  NetErrInv'
<1>1. CASE Boot
  BY <1>1 DEF Boot, NextRound, PollOrRelogin, NetErrInv, MaxNetErr, memory,
       control, codes, history
<1>2. CASE PollOk
  <2>1. netErr \in Int /\ (netErr' <= netErr \/ netErr' = 0)
    BY <1>2 DEF PollOk, TypeOK
  <2>2. QED
    BY <1>2, <2>1 DEF PollOk, PollOrRelogin, NetErrInv, MaxNetErr, memory,
         control, codes, history
<1>3. CASE PollUnhandled
  BY <1>3 DEF PollUnhandled, PollOrRelogin, NetErrInv, MaxNetErr, memory,
       control, codes, history
<1>4. CASE PollNeedLogin
  BY <1>4 DEF PollNeedLogin, NetErrInv, MaxNetErr, memory, control, codes,
       history
<1>5. CASE PollNetworkError
  BY <1>5 DEF PollNetworkError, NetErrInv, MaxNetErr, memory, control,
       codes, history
<1>6. CASE PollNeedRefresh
  BY <1>6 DEF PollNeedRefresh, NetErrInv, MaxNetErr, memory, control, codes,
       history
<1>7. CASE HomeReturns
  BY <1>7 DEF HomeReturns, NetErrInv, MaxNetErr, memory, control, codes,
       history
<1>8. CASE VersionReturns
  BY <1>8 DEF VersionReturns, NetErrInv, MaxNetErr, memory, control, codes,
       history
<1>9. CASE SigReturns
  BY <1>9 DEF SigReturns, NetErrInv, MaxNetErr, memory, control, codes,
       history
<1>10. CASE CheckGivesVc
  BY <1>10 DEF CheckGivesVc, TakeVc, NetErrInv, MaxNetErr, memory, control,
       codes, history
<1>11. CASE CheckNeedsImage
  BY <1>11 DEF CheckNeedsImage, NetErrInv, MaxNetErr, memory, control,
       codes, history
<1>12. CASE CheckFails
  BY <1>12 DEF CheckFails, NetErrInv, MaxNetErr, memory, control, codes,
       history
<1>13. CASE ImageReturns
  BY <1>13 DEF ImageReturns, TakeVc, NetErrInv, MaxNetErr, memory, control,
       codes, history
<1>14. CASE ImageFails
  BY <1>14 DEF ImageFails, NetErrInv, MaxNetErr, memory, control, codes,
       history
<1>15. CASE VcArrives
  BY <1>15 DEF VcArrives, NextRound, PollOrRelogin, NetErrInv, MaxNetErr,
       memory, control, codes, history
<1>16. CASE LoginAccepted
  BY <1>16 DEF LoginAccepted, NetErrInv, MaxNetErr, memory, control, codes,
       history
<1>17. CASE LoginRefused
  BY <1>17 DEF LoginRefused, ReturnFromLogin, NetErrInv, MaxNetErr, memory,
       control, codes, history
<1>18. CASE RedirectReturns
  BY <1>18 DEF RedirectReturns, NetErrInv, MaxNetErr, memory, control,
       codes, history
<1>19. CASE VfwebqqReturns
  BY <1>19 DEF VfwebqqReturns, NetErrInv, MaxNetErr, memory, control, codes,
       history
<1>20. CASE SetStatusOk
  BY <1>20 DEF SetStatusOk, NetErrInv, MaxNetErr, memory, control, codes,
       history
<1>21. CASE SetStatusFails
  BY <1>21 DEF SetStatusFails, ReturnFromLogin, NetErrInv, MaxNetErr,
       memory, control, codes, history
<1>22. CASE BuddiesReturn
  BY <1>22 DEF BuddiesReturn, ReturnFromLogin, NetErrInv, MaxNetErr, memory,
       control, codes, history
<1>23. CASE GroupListOk
  BY <1>23 DEF GroupListOk, NetErrInv, MaxNetErr, memory, control, codes,
       history
<1>24. CASE GroupListFails
  BY <1>24 DEF GroupListFails, NetErrInv, MaxNetErr, memory, control, codes,
       history
<1>25. CASE LoginSucceeded
  BY <1>25 DEF LoginSucceeded, NextRound, PollOrRelogin, NetErrInv,
       MaxNetErr, memory, control, codes, history
<1>26. CASE LoginWrongPasswd
  BY <1>26 DEF LoginWrongPasswd, NetErrInv, MaxNetErr, memory, control,
       codes, history
<1>27. CASE LoginFailed
  BY <1>27 DEF LoginFailed, NetErrInv, MaxNetErr, memory, control, codes,
       history
<1>28. CASE PollWaitOver
  BY <1>28 DEF PollWaitOver, PollOrRelogin, NetErrInv, MaxNetErr, memory,
       control, codes, history
<1>29. CASE CheckWaitOver
  BY <1>29 DEF CheckWaitOver, NetErrInv, MaxNetErr, memory, control, codes,
       history
<1>30. CASE GroupWaitOver
  BY <1>30 DEF GroupWaitOver, ReturnFromLogin, NetErrInv, MaxNetErr, memory,
       control, codes, history
<1>31. CASE BlockedWaitOver
  BY <1>31 DEF BlockedWaitOver, NetErrInv, MaxNetErr, memory, control,
       codes, history
<1>32. CASE RetryWaitOver
  BY <1>32 DEF RetryWaitOver, NextRound, PollOrRelogin, NetErrInv,
       MaxNetErr, memory, control, codes, history
<1>33. CASE MembersReturn
  BY <1>33 DEF MembersReturn, ReturnFromLogin, NetErrInv, MaxNetErr, memory,
       control, codes, history
<1>34. CASE Feed
  BY <1>34 DEF Feed, NetErrInv, MaxNetErr, memory, control, codes, history
<1>35. CASE Stop
  BY <1>35 DEF Stop, NetErrInv, MaxNetErr, memory, control, codes, history
<1>36. CASE Restart
  BY <1>36 DEF Restart, Loaded, NetErrInv, MaxNetErr, memory, control,
       codes, history
<1>37. CASE UNCHANGED vars
  BY <1>37 DEF vars, memory, control, codes, history, NetErrInv, MaxNetErr
<1>38. QED
  BY <1>1, <1>2, <1>3, <1>4, <1>5, <1>6, <1>7, <1>8, <1>9, <1>10, <1>11,
       <1>12, <1>13, <1>14, <1>15, <1>16, <1>17, <1>18, <1>19, <1>20, <1>21,
       <1>22, <1>23, <1>24, <1>25, <1>26, <1>27, <1>28, <1>29, <1>30, <1>31,
       <1>32, <1>33, <1>34, <1>35, <1>36, <1>37
     DEF Next, Loop, PollReturns, CheckLogin, Login, LoginResult, Timers

\* The causes of QUITTING.
LEMMA QuitStep ==
    ASSUME QuitInv, [Next]_vars
    PROVE  QuitInv'
<1>1. CASE Boot
  BY <1>1 DEF Boot, NextRound, PollOrRelogin, QuitInv, memory, control,
       codes, history
<1>2. CASE PollOk
  BY <1>2 DEF PollOk, PollOrRelogin, QuitInv, memory, control, codes, history
<1>3. CASE PollUnhandled
  BY <1>3 DEF PollUnhandled, PollOrRelogin, QuitInv, memory, control, codes,
       history
<1>4. CASE PollNeedLogin
  BY <1>4 DEF PollNeedLogin, QuitInv, memory, control, codes, history
<1>5. CASE PollNetworkError
  BY <1>5 DEF PollNetworkError, QuitInv, memory, control, codes, history
<1>6. CASE PollNeedRefresh
  BY <1>6 DEF PollNeedRefresh, QuitInv, memory, control, codes, history
<1>7. CASE HomeReturns
  BY <1>7 DEF HomeReturns, QuitInv, memory, control, codes, history
<1>8. CASE VersionReturns
  BY <1>8 DEF VersionReturns, QuitInv, memory, control, codes, history
<1>9. CASE SigReturns
  BY <1>9 DEF SigReturns, QuitInv, memory, control, codes, history
<1>10. CASE CheckGivesVc
  BY <1>10 DEF CheckGivesVc, TakeVc, QuitInv, memory, control, codes, history
<1>11. CASE CheckNeedsImage
  BY <1>11 DEF CheckNeedsImage, QuitInv, memory, control, codes, history
<1>12. CASE CheckFails
  BY <1>12 DEF CheckFails, QuitInv, memory, control, codes, history
<1>13. CASE ImageReturns
  BY <1>13 DEF ImageReturns, TakeVc, QuitInv, memory, control, codes, history
<1>14. CASE ImageFails
  BY <1>14 DEF ImageFails, QuitInv, memory, control, codes, history
<1>15. CASE VcArrives
  BY <1>15 DEF VcArrives, NextRound, PollOrRelogin, QuitInv, memory,
       control, codes, history
<1>16. CASE LoginAccepted
  BY <1>16 DEF LoginAccepted, QuitInv, memory, control, codes, history
<1>17. CASE LoginRefused
  BY <1>17 DEF LoginRefused, ReturnFromLogin, QuitInv, memory, control,
       codes, history
<1>18. CASE RedirectReturns
  BY <1>18 DEF RedirectReturns, QuitInv, memory, control, codes, history
<1>19. CASE VfwebqqReturns
  BY <1>19 DEF VfwebqqReturns, QuitInv, memory, control, codes, history
<1>20. CASE SetStatusOk
  BY <1>20 DEF SetStatusOk, QuitInv, memory, control, codes, history
<1>21. CASE SetStatusFails
  BY <1>21 DEF SetStatusFails, ReturnFromLogin, QuitInv, memory, control,
       codes, history
<1>22. CASE BuddiesReturn
  BY <1>22 DEF BuddiesReturn, ReturnFromLogin, QuitInv, memory, control,
       codes, history
<1>23. CASE GroupListOk
  BY <1>23 DEF GroupListOk, QuitInv, memory, control, codes, history
<1>24. CASE GroupListFails
  BY <1>24 DEF GroupListFails, QuitInv, memory, control, codes, history
<1>25. CASE LoginSucceeded
  BY <1>25 DEF LoginSucceeded, NextRound, PollOrRelogin, QuitInv, memory,
       control, codes, history
<1>26. CASE LoginWrongPasswd
  BY <1>26 DEF LoginWrongPasswd, QuitInv, memory, control, codes, history
<1>27. CASE LoginFailed
  BY <1>27 DEF LoginFailed, QuitInv, memory, control, codes, history
<1>28. CASE PollWaitOver
  BY <1>28 DEF PollWaitOver, PollOrRelogin, QuitInv, memory, control, codes,
       history
<1>29. CASE CheckWaitOver
  BY <1>29 DEF CheckWaitOver, QuitInv, memory, control, codes, history
<1>30. CASE GroupWaitOver
  BY <1>30 DEF GroupWaitOver, ReturnFromLogin, QuitInv, memory, control,
       codes, history
<1>31. CASE BlockedWaitOver
  BY <1>31 DEF BlockedWaitOver, QuitInv, memory, control, codes, history
<1>32. CASE RetryWaitOver
  BY <1>32 DEF RetryWaitOver, NextRound, PollOrRelogin, QuitInv, memory,
       control, codes, history
<1>33. CASE MembersReturn
  BY <1>33 DEF MembersReturn, ReturnFromLogin, QuitInv, memory, control,
       codes, history
<1>34. CASE Feed
  BY <1>34 DEF Feed, QuitInv, memory, control, codes, history
<1>35. CASE Stop
  BY <1>35 DEF Stop, QuitInv, memory, control, codes, history
<1>36. CASE Restart
  BY <1>36 DEF Restart, Loaded, QuitInv, memory, control, codes, history
<1>37. CASE UNCHANGED vars
  BY <1>37 DEF vars, memory, control, codes, history, QuitInv
<1>38. QED
  BY <1>1, <1>2, <1>3, <1>4, <1>5, <1>6, <1>7, <1>8, <1>9, <1>10, <1>11,
       <1>12, <1>13, <1>14, <1>15, <1>16, <1>17, <1>18, <1>19, <1>20, <1>21,
       <1>22, <1>23, <1>24, <1>25, <1>26, <1>27, <1>28, <1>29, <1>30, <1>31,
       <1>32, <1>33, <1>34, <1>35, <1>36, <1>37
     DEF Next, Loop, PollReturns, CheckLogin, Login, LoginResult, Timers

\* The session and the database during a login.
LEMMA ReloginStep ==
    ASSUME TypeOK, ReloginInv, [Next]_vars
    PROVE  ReloginInv'
<1>1. CASE Boot
  BY <1>1 DEF Boot, NextRound, PollOrRelogin, ReloginInv, Relogging,
       CheckPCs, EmptyJar, memory, control, codes, history
<1>2. CASE PollOk
  BY <1>2 DEF PollOk, PollOrRelogin, ReloginInv, Relogging, CheckPCs,
       EmptyJar, memory, control, codes, history
<1>3. CASE PollUnhandled
  BY <1>3 DEF PollUnhandled, PollOrRelogin, ReloginInv, Relogging, CheckPCs,
       EmptyJar, memory, control, codes, history
<1>4. CASE PollNeedLogin
  BY <1>4 DEF PollNeedLogin, ReloginInv, Relogging, CheckPCs, EmptyJar,
       memory, control, codes, history
<1>5. CASE PollNetworkError
  BY <1>5 DEF PollNetworkError, ReloginInv, Relogging, CheckPCs, EmptyJar,
       memory, control, codes, history
<1>6. CASE PollNeedRefresh
  BY <1>6 DEF PollNeedRefresh, ReloginInv, Relogging, CheckPCs, EmptyJar,
       memory, control, codes, history
<1>7. CASE HomeReturns
  BY <1>7 DEF HomeReturns, ReloginInv, Relogging, CheckPCs, EmptyJar,
       memory, control, codes, history
<1>8. CASE VersionReturns
  BY <1>8 DEF VersionReturns, ReloginInv, Relogging, CheckPCs, EmptyJar,
       memory, control, codes, history
<1>9. CASE SigReturns
  BY <1>9 DEF SigReturns, ReloginInv, Relogging, CheckPCs, EmptyJar, memory,
       control, codes, history
<1>10. CASE CheckGivesVc
  BY <1>10 DEF CheckGivesVc, TakeVc, ReloginInv, Relogging, CheckPCs,
       EmptyJar, memory, control, codes, history
<1>11. CASE CheckNeedsImage
  BY <1>11 DEF CheckNeedsImage, ReloginInv, Relogging, CheckPCs, EmptyJar,
       memory, control, codes, history
<1>12. CASE CheckFails
  BY <1>12 DEF CheckFails, ReloginInv, Relogging, CheckPCs, EmptyJar,
       memory, control, codes, history
<1>13. CASE ImageReturns
  BY <1>13 DEF ImageReturns, TakeVc, ReloginInv, Relogging, CheckPCs,
       EmptyJar, memory, control, codes, history
<1>14. CASE ImageFails
  BY <1>14 DEF ImageFails, ReloginInv, Relogging, CheckPCs, EmptyJar,
       memory, control, codes, history
<1>15. CASE VcArrives
  BY <1>15 DEF VcArrives, NextRound, PollOrRelogin, ReloginInv, Relogging,
       CheckPCs, EmptyJar, memory, control, codes, history
<1>16. CASE LoginAccepted
  BY <1>16 DEF LoginAccepted, ReloginInv, Relogging, CheckPCs, EmptyJar,
       memory, control, codes, history
<1>17. CASE LoginRefused
  BY <1>17 DEF LoginRefused, ReturnFromLogin, ReloginInv, Relogging,
       CheckPCs, EmptyJar, memory, control, codes, history
<1>18. CASE RedirectReturns
  BY <1>18 DEF RedirectReturns, ReloginInv, Relogging, CheckPCs, EmptyJar,
       memory, control, codes, history
<1>19. CASE VfwebqqReturns
  BY <1>19 DEF VfwebqqReturns, ReloginInv, Relogging, CheckPCs, EmptyJar,
       memory, control, codes, history
<1>20. CASE SetStatusOk
  BY <1>20 DEF SetStatusOk, ReloginInv, Relogging, CheckPCs, EmptyJar,
       memory, control, codes, history
<1>21. CASE SetStatusFails
  BY <1>21 DEF SetStatusFails, ReturnFromLogin, ReloginInv, Relogging,
       CheckPCs, EmptyJar, memory, control, codes, history
<1>22. CASE BuddiesReturn
  BY <1>22 DEF BuddiesReturn, ReturnFromLogin, ReloginInv, Relogging,
       CheckPCs, EmptyJar, memory, control, codes, history
<1>23. CASE GroupListOk
  BY <1>23 DEF GroupListOk, ReloginInv, Relogging, CheckPCs, EmptyJar,
       memory, control, codes, history
<1>24. CASE GroupListFails
  BY <1>24 DEF GroupListFails, ReloginInv, Relogging, CheckPCs, EmptyJar,
       memory, control, codes, history
<1>25. CASE LoginSucceeded
  BY <1>25 DEF LoginSucceeded, NextRound, PollOrRelogin, ReloginInv,
       Relogging, CheckPCs, EmptyJar, memory, control, codes, history
<1>26. CASE LoginWrongPasswd
  BY <1>26 DEF LoginWrongPasswd, ReloginInv, Relogging, CheckPCs, EmptyJar,
       memory, control, codes, history
<1>27. CASE LoginFailed
  BY <1>27 DEF LoginFailed, ReloginInv, Relogging, CheckPCs, EmptyJar,
       memory, control, codes, history
<1>28. CASE PollWaitOver
  BY <1>28 DEF PollWaitOver, PollOrRelogin, ReloginInv, Relogging, CheckPCs,
       EmptyJar, memory, control, codes, history
<1>29. CASE CheckWaitOver
  BY <1>29 DEF CheckWaitOver, ReloginInv, Relogging, CheckPCs, EmptyJar,
       memory, control, codes, history
<1>30. CASE GroupWaitOver
  BY <1>30 DEF GroupWaitOver, ReturnFromLogin, ReloginInv, Relogging,
       CheckPCs, EmptyJar, memory, control, codes, history
<1>31. CASE BlockedWaitOver
  BY <1>31 DEF BlockedWaitOver, ReloginInv, Relogging, CheckPCs, EmptyJar,
       memory, control, codes, history
<1>32. CASE RetryWaitOver
  BY <1>32 DEF RetryWaitOver, NextRound, PollOrRelogin, ReloginInv,
       Relogging, CheckPCs, EmptyJar, memory, control, codes, history
<1>33. CASE MembersReturn
  BY <1>33 DEF MembersReturn, ReturnFromLogin, ReloginInv, Relogging,
       CheckPCs, EmptyJar, memory, control, codes, history
<1>34. CASE Feed
  BY <1>34 DEF Feed, ReloginInv, Relogging, CheckPCs, EmptyJar, memory,
       control, codes, history
<1>35. CASE Stop
  BY <1>35 DEF Stop, ReloginInv, Relogging, CheckPCs, EmptyJar, memory,
       control, codes, history
<1>36. CASE Restart
  BY <1>36 DEF Restart, Loaded, ReloginInv, Relogging, CheckPCs, EmptyJar,
       memory, control, codes, history
<1>37. CASE UNCHANGED vars
  BY <1>37 DEF vars, memory, control, codes, history, ReloginInv, Relogging,
       CheckPCs, EmptyJar
<1>38. QED
  BY <1>1, <1>2, <1>3, <1>4, <1>5, <1>6, <1>7, <1>8, <1>9, <1>10, <1>11,
       <1>12, <1>13, <1>14, <1>15, <1>16, <1>17, <1>18, <1>19, <1>20, <1>21,
       <1>22, <1>23, <1>24, <1>25, <1>26, <1>27, <1>28, <1>29, <1>30, <1>31,
       <1>32, <1>33, <1>34, <1>35, <1>36, <1>37
     DEF Next, Loop, PollReturns, CheckLogin, Login, LoginResult, Timers

\* The session is complete once its id arrived.
LEMMA CompleteStep ==
    ASSUME TypeOK, ReloginInv, CompleteInv, [Next]_vars
    PROVE  CompleteInv'
<1>1. CASE Boot
  BY <1>1 DEF Boot, NextRound, PollOrRelogin, CompleteInv, memory, control,
       codes, history
<1>2. CASE PollOk
  BY <1>2 DEF PollOk, PollOrRelogin, CompleteInv, memory, control, codes,
       history
<1>3. CASE PollUnhandled
  BY <1>3 DEF PollUnhandled, PollOrRelogin, CompleteInv, memory, control,
       codes, history
<1>4. CASE PollNeedLogin
  BY <1>4 DEF PollNeedLogin, CompleteInv, memory, control, codes, history
<1>5. CASE PollNetworkError
  BY <1>5 DEF PollNetworkError, CompleteInv, memory, control, codes, history
<1>6. CASE PollNeedRefresh
  BY <1>6 DEF PollNeedRefresh, CompleteInv, memory, control, codes, history
<1>7. CASE HomeReturns
  BY <1>7 DEF HomeReturns, CompleteInv, memory, control, codes, history
<1>8. CASE VersionReturns
  BY <1>8 DEF VersionReturns, CompleteInv, memory, control, codes, history
<1>9. CASE SigReturns
  BY <1>9 DEF SigReturns, CompleteInv, memory, control, codes, history
<1>10. CASE CheckGivesVc
  BY <1>10 DEF CheckGivesVc, TakeVc, CompleteInv, memory, control, codes,
       history
<1>11. CASE CheckNeedsImage
  BY <1>11 DEF CheckNeedsImage, CompleteInv, memory, control, codes, history
<1>12. CASE CheckFails
  BY <1>12 DEF CheckFails, CompleteInv, memory, control, codes, history
<1>13. CASE ImageReturns
  BY <1>13 DEF ImageReturns, TakeVc, CompleteInv, memory, control, codes,
       history
<1>14. CASE ImageFails
  BY <1>14 DEF ImageFails, CompleteInv, memory, control, codes, history
<1>15. CASE VcArrives
  BY <1>15 DEF VcArrives, NextRound, PollOrRelogin, CompleteInv, memory,
       control, codes, history
<1>16. CASE LoginAccepted
  BY <1>16 DEF LoginAccepted, CompleteInv, memory, control, codes, history
<1>17. CASE LoginRefused
  <2>1. pc' = "loginRet" /\ ec' # "ok"
    BY <1>17 DEF LoginRefused, ReturnFromLogin, LoginErrors
  <2>2. QED
    BY <2>1 DEF CompleteInv
<1>18. CASE RedirectReturns
  BY <1>18 DEF RedirectReturns, CompleteInv, memory, control, codes, history
<1>19. CASE VfwebqqReturns
  BY <1>19 DEF VfwebqqReturns, CompleteInv, memory, control, codes, history
<1>20. CASE SetStatusOk
  <2>1. clientid /\ jar.clientid
    BY <1>20 DEF SetStatusOk, ReloginInv
  <2>2. jar' = [psessionid |-> TRUE, clientid |-> TRUE]
    BY <1>20, <2>1 DEF SetStatusOk, TypeOK, Jars
  <2>3. psessionid' /\ clientid' /\ status' = "ONLINE"
    BY <1>20, <2>1 DEF SetStatusOk
  <2>4. QED
    BY <2>2, <2>3 DEF CompleteInv
<1>21. CASE SetStatusFails
  BY <1>21 DEF SetStatusFails, ReturnFromLogin, CompleteInv, memory,
       control, codes, history
<1>22. CASE BuddiesReturn
  BY <1>22 DEF BuddiesReturn, ReturnFromLogin, CompleteInv, memory, control,
       codes, history
<1>23. CASE GroupListOk
  BY <1>23 DEF GroupListOk, CompleteInv, memory, control, codes, history
<1>24. CASE GroupListFails
  BY <1>24 DEF GroupListFails, CompleteInv, memory, control, codes, history
<1>25. CASE LoginSucceeded
  BY <1>25 DEF LoginSucceeded, NextRound, PollOrRelogin, CompleteInv,
       memory, control, codes, history
<1>26. CASE LoginWrongPasswd
  BY <1>26 DEF LoginWrongPasswd, CompleteInv, memory, control, codes, history
<1>27. CASE LoginFailed
  BY <1>27 DEF LoginFailed, CompleteInv, memory, control, codes, history
<1>28. CASE PollWaitOver
  BY <1>28 DEF PollWaitOver, PollOrRelogin, CompleteInv, memory, control,
       codes, history
<1>29. CASE CheckWaitOver
  BY <1>29 DEF CheckWaitOver, CompleteInv, memory, control, codes, history
<1>30. CASE GroupWaitOver
  BY <1>30 DEF GroupWaitOver, ReturnFromLogin, CompleteInv, memory, control,
       codes, history
<1>31. CASE BlockedWaitOver
  BY <1>31 DEF BlockedWaitOver, CompleteInv, memory, control, codes, history
<1>32. CASE RetryWaitOver
  BY <1>32 DEF RetryWaitOver, NextRound, PollOrRelogin, CompleteInv, memory,
       control, codes, history
<1>33. CASE MembersReturn
  BY <1>33 DEF MembersReturn, ReturnFromLogin, CompleteInv, memory, control,
       codes, history
<1>34. CASE Feed
  BY <1>34 DEF Feed, CompleteInv, memory, control, codes, history
<1>35. CASE Stop
  BY <1>35 DEF Stop, CompleteInv, memory, control, codes, history
<1>36. CASE Restart
  BY <1>36 DEF Restart, Loaded, CompleteInv, memory, control, codes, history
<1>37. CASE UNCHANGED vars
  BY <1>37 DEF vars, memory, control, codes, history, CompleteInv
<1>38. QED
  BY <1>1, <1>2, <1>3, <1>4, <1>5, <1>6, <1>7, <1>8, <1>9, <1>10, <1>11,
       <1>12, <1>13, <1>14, <1>15, <1>16, <1>17, <1>18, <1>19, <1>20, <1>21,
       <1>22, <1>23, <1>24, <1>25, <1>26, <1>27, <1>28, <1>29, <1>30, <1>31,
       <1>32, <1>33, <1>34, <1>35, <1>36, <1>37
     DEF Next, Loop, PollReturns, CheckLogin, Login, LoginResult, Timers

\* The verification codes.
LEMMA CodeStep ==
    ASSUME TypeOK, CodeInv, [Next]_vars
    PROVE  CodeInv'
<1>1. CASE Boot
  BY <1>1 DEF Boot, NextRound, PollOrRelogin, CodeInv, memory, control,
       codes, history
<1>2. CASE PollOk
  BY <1>2 DEF PollOk, PollOrRelogin, CodeInv, memory, control, codes, history
<1>3. CASE PollUnhandled
  BY <1>3 DEF PollUnhandled, PollOrRelogin, CodeInv, memory, control, codes,
       history
<1>4. CASE PollNeedLogin
  BY <1>4 DEF PollNeedLogin, CodeInv, memory, control, codes, history
<1>5. CASE PollNetworkError
  BY <1>5 DEF PollNetworkError, CodeInv, memory, control, codes, history
<1>6. CASE PollNeedRefresh
  BY <1>6 DEF PollNeedRefresh, CodeInv, memory, control, codes, history
<1>7. CASE HomeReturns
  BY <1>7 DEF HomeReturns, CodeInv, memory, control, codes, history
<1>8. CASE VersionReturns
  BY <1>8 DEF VersionReturns, CodeInv, memory, control, codes, history
<1>9. CASE SigReturns
  BY <1>9 DEF SigReturns, CodeInv, memory, control, codes, history
<1>10. CASE CheckGivesVc
  <2>1. SUFFICES ASSUME Disciplined
                 PROVE  CodeInv'
    BY DEF CodeInv
  <2>2. Stale(vcq) = <<>>
    BY <2>1, StaleEmpty DEF CodeInv
  <2>3. TakeVc(<<"fresh">>) /\ asked' = FALSE
    BY <1>10, <2>2, PushBackEmpty DEF CheckGivesVc
  <2>4. QED
    BY <2>3, TakeVcOne DEF CodeInv
<1>11. CASE CheckNeedsImage
  BY <1>11 DEF CheckNeedsImage, CodeInv, memory, control, codes, history
<1>12. CASE CheckFails
  BY <1>12 DEF CheckFails, CodeInv, memory, control, codes, history
<1>13. CASE ImageReturns
  <2>1. SUFFICES ASSUME Disciplined
                 PROVE  CodeInv'
    BY DEF CodeInv
  <2>2. Stale(vcq) = <<>>
    BY <2>1, StaleEmpty DEF CodeInv
  <2>3. CASE asked' = TRUE /\ TakeVc(Stale(vcq))
    <3>1. vcq' = <<>> /\ pc' = "vcWait"
      BY <2>1, <2>2, <2>3 DEF TakeVc, CodeInv
    <3>2. QED
      BY <3>1 DEF CodeInv
  <2>4. ASSUME asked' = FALSE, NEW x \in {"fresh", "blank"}, TakeVc(<<x>>)
        PROVE  CodeInv'
    BY <2>4, TakeVcOne DEF CodeInv
  <2>5. QED
    BY <1>13, <2>2, <2>3, <2>4, PushBackEmpty DEF ImageReturns
<1>14. CASE ImageFails
  BY <1>14 DEF ImageFails, CodeInv, memory, control, codes, history
<1>15. CASE VcArrives
  <2>1. CASE str = "blank"
    BY <1>15, <2>1 DEF VcArrives, NextRound, PollOrRelogin, CodeInv,
         memory, control, codes, history
  <2>2. CASE str # "blank"
    <3>1. str \in Codes
      BY DEF TypeOK
    <3>2. Disciplined => str = "fresh"
      BY <1>15, <2>2, <3>1 DEF VcArrives, CodeInv, Codes
    <3>3. pc' = "login" /\ UNCHANGED <<vcq, str, asked>>
      BY <1>15, <2>2 DEF VcArrives, codes
    <3>4. QED
      BY <1>15, <3>2, <3>3 DEF VcArrives, CodeInv
  <2>3. QED
    BY <2>1, <2>2
<1>16. CASE LoginAccepted
  BY <1>16 DEF LoginAccepted, CodeInv, memory, control, codes, history
<1>17. CASE LoginRefused
  BY <1>17 DEF LoginRefused, ReturnFromLogin, CodeInv, memory, control,
       codes, history
<1>18. CASE RedirectReturns
  BY <1>18 DEF RedirectReturns, CodeInv, memory, control, codes, history
<1>19. CASE VfwebqqReturns
  BY <1>19 DEF VfwebqqReturns, CodeInv, memory, control, codes, history
<1>20. CASE SetStatusOk
  BY <1>20 DEF SetStatusOk, CodeInv, memory, control, codes, history
<1>21. CASE SetStatusFails
  BY <1>21 DEF SetStatusFails, ReturnFromLogin, CodeInv, memory, control,
       codes, history
<1>22. CASE BuddiesReturn
  BY <1>22 DEF BuddiesReturn, ReturnFromLogin, CodeInv, memory, control,
       codes, history
<1>23. CASE GroupListOk
  BY <1>23 DEF GroupListOk, CodeInv, memory, control, codes, history
<1>24. CASE GroupListFails
  BY <1>24 DEF GroupListFails, CodeInv, memory, control, codes, history
<1>25. CASE LoginSucceeded
  BY <1>25 DEF LoginSucceeded, NextRound, PollOrRelogin, CodeInv, memory,
       control, codes, history
<1>26. CASE LoginWrongPasswd
  BY <1>26 DEF LoginWrongPasswd, CodeInv, memory, control, codes, history
<1>27. CASE LoginFailed
  BY <1>27 DEF LoginFailed, CodeInv, memory, control, codes, history
<1>28. CASE PollWaitOver
  BY <1>28 DEF PollWaitOver, PollOrRelogin, CodeInv, memory, control, codes,
       history
<1>29. CASE CheckWaitOver
  BY <1>29 DEF CheckWaitOver, CodeInv, memory, control, codes, history
<1>30. CASE GroupWaitOver
  BY <1>30 DEF GroupWaitOver, ReturnFromLogin, CodeInv, memory, control,
       codes, history
<1>31. CASE BlockedWaitOver
  BY <1>31 DEF BlockedWaitOver, CodeInv, memory, control, codes, history
<1>32. CASE RetryWaitOver
  BY <1>32 DEF RetryWaitOver, NextRound, PollOrRelogin, CodeInv, memory,
       control, codes, history
<1>33. CASE MembersReturn
  BY <1>33 DEF MembersReturn, ReturnFromLogin, CodeInv, memory, control,
       codes, history
<1>34. CASE Feed
  BY <1>34 DEF Feed, CodeInv, memory, control, codes, history
<1>35. CASE Stop
  BY <1>35 DEF Stop, CodeInv, memory, control, codes, history
<1>36. CASE Restart
  BY <1>36 DEF Restart, Loaded, CodeInv, memory, control, codes, history
<1>37. CASE UNCHANGED vars
  BY <1>37 DEF vars, memory, control, codes, history, CodeInv
<1>38. QED
  BY <1>1, <1>2, <1>3, <1>4, <1>5, <1>6, <1>7, <1>8, <1>9, <1>10, <1>11,
       <1>12, <1>13, <1>14, <1>15, <1>16, <1>17, <1>18, <1>19, <1>20, <1>21,
       <1>22, <1>23, <1>24, <1>25, <1>26, <1>27, <1>28, <1>29, <1>30, <1>31,
       <1>32, <1>33, <1>34, <1>35, <1>36, <1>37
     DEF Next, Loop, PollReturns, CheckLogin, Login, LoginResult, Timers

\* The timers between two logins.
LEMMA GapStep ==
    ASSUME TypeOK, CompleteInv, GapInv, [Next]_vars
    PROVE  GapInv'
<1>1. CASE Boot
  <2>1. gap = GapCap /\ (firs_start = 0 => status # "OFFLINE")
    BY <1>1 DEF Boot, GapInv
  <2>2. status \in Status
    BY DEF TypeOK
  <2>3. QED
    BY <1>1, <2>1, <2>2 DEF Boot, Status, NextRound, PollOrRelogin,
         GapInv, CheckPCs, GapCap, memory, control, codes, history
<1>2. CASE PollOk
  BY <1>2 DEF PollOk, PollOrRelogin, GapInv, CheckPCs, GapCap, memory,
       control, codes, history
<1>3. CASE PollUnhandled
  BY <1>3 DEF PollUnhandled, PollOrRelogin, GapInv, CheckPCs, GapCap,
       memory, control, codes, history
<1>4. CASE PollNeedLogin
  BY <1>4 DEF PollNeedLogin, GapInv, CheckPCs, GapCap, memory, control,
       codes, history
<1>5. CASE PollNetworkError
  BY <1>5 DEF PollNetworkError, GapInv, CheckPCs, GapCap, memory, control,
       codes, history
<1>6. CASE PollNeedRefresh
  BY <1>6 DEF PollNeedRefresh, GapInv, CheckPCs, GapCap, memory, control,
       codes, history
<1>7. CASE HomeReturns
  BY <1>7 DEF HomeReturns, GapInv, CheckPCs, GapCap, memory, control, codes,
       history
<1>8. CASE VersionReturns
  BY <1>8 DEF VersionReturns, GapInv, CheckPCs, GapCap, memory, control,
       codes, history
<1>9. CASE SigReturns
  BY <1>9 DEF SigReturns, GapInv, CheckPCs, GapCap, memory, control, codes,
       history
<1>10. CASE CheckGivesVc
  BY <1>10 DEF CheckGivesVc, TakeVc, GapInv, CheckPCs, GapCap, memory,
       control, codes, history
<1>11. CASE CheckNeedsImage
  BY <1>11 DEF CheckNeedsImage, GapInv, CheckPCs, GapCap, memory, control,
       codes, history
<1>12. CASE CheckFails
  BY <1>12 DEF CheckFails, GapInv, CheckPCs, GapCap, memory, control, codes,
       history
<1>13. CASE ImageReturns
  BY <1>13 DEF ImageReturns, TakeVc, GapInv, CheckPCs, GapCap, memory,
       control, codes, history
<1>14. CASE ImageFails
  BY <1>14 DEF ImageFails, GapInv, CheckPCs, GapCap, memory, control, codes,
       history
<1>15. CASE VcArrives
  BY <1>15 DEF VcArrives, NextRound, PollOrRelogin, GapInv, CheckPCs,
       GapCap, memory, control, codes, history
<1>16. CASE LoginAccepted
  BY <1>16 DEF LoginAccepted, GapInv, CheckPCs, GapCap, memory, control,
       codes, history
<1>17. CASE LoginRefused
  BY <1>17 DEF LoginRefused, ReturnFromLogin, GapInv, CheckPCs, GapCap,
       memory, control, codes, history
<1>18. CASE RedirectReturns
  BY <1>18 DEF RedirectReturns, GapInv, CheckPCs, GapCap, memory, control,
       codes, history
<1>19. CASE VfwebqqReturns
  BY <1>19 DEF VfwebqqReturns, GapInv, CheckPCs, GapCap, memory, control,
       codes, history
<1>20. CASE SetStatusOk
  BY <1>20 DEF SetStatusOk, GapInv, CheckPCs, GapCap, memory, control,
       codes, history
<1>21. CASE SetStatusFails
  BY <1>21 DEF SetStatusFails, ReturnFromLogin, GapInv, CheckPCs, GapCap,
       memory, control, codes, history
<1>22. CASE BuddiesReturn
  BY <1>22 DEF BuddiesReturn, ReturnFromLogin, GapInv, CheckPCs, GapCap,
       memory, control, codes, history
<1>23. CASE GroupListOk
  BY <1>23 DEF GroupListOk, GapInv, CheckPCs, GapCap, memory, control,
       codes, history
<1>24. CASE GroupListFails
  BY <1>24 DEF GroupListFails, GapInv, CheckPCs, GapCap, memory, control,
       codes, history
<1>25. CASE LoginSucceeded
  <2>1. ~stopped => status = "ONLINE"
    BY <1>25 DEF LoginSucceeded, CompleteInv
  <2>2. QED
    BY <1>25, <2>1 DEF LoginSucceeded, NextRound, PollOrRelogin, GapInv,
         CheckPCs, GapCap, memory, control, codes, history
<1>26. CASE LoginWrongPasswd
  BY <1>26 DEF LoginWrongPasswd, GapInv, CheckPCs, GapCap, memory, control,
       codes, history
<1>27. CASE LoginFailed
  BY <1>27 DEF LoginFailed, GapInv, CheckPCs, GapCap, memory, control,
       codes, history
<1>28. CASE PollWaitOver
  <2>1. gap' >= 12
    <3>1. CASE firs_start = 0
      <4>1. gap = GapCap
        BY <3>1 DEF GapInv
      <4>2. (IF ec = "need_login" THEN 60 * firs_start ELSE 12) \in Nat
        BY <3>1
      <4>3. QED
        BY <1>28, <4>1, <4>2, ElapseType DEF PollWaitOver, GapCap
    <3>2. CASE firs_start = 1
      BY <1>28, <3>2, ElapseType DEF PollWaitOver
    <3>3. QED
      BY <3>1, <3>2 DEF TypeOK
  <2>2. QED
    BY <1>28, <2>1 DEF PollWaitOver, PollOrRelogin, GapInv, CheckPCs,
         memory, control, codes, history
<1>29. CASE CheckWaitOver
  <2>1. gap' = GapCap
    BY <1>29, ElapseType DEF CheckWaitOver
  <2>2. QED
    BY <1>29, <2>1 DEF CheckWaitOver, GapInv, CheckPCs, GapCap, memory,
         control, codes, history
<1>30. CASE GroupWaitOver
  BY <1>30 DEF GroupWaitOver, ReturnFromLogin, GapInv, CheckPCs, GapCap,
       memory, control, codes, history
<1>31. CASE BlockedWaitOver
  BY <1>31 DEF BlockedWaitOver, GapInv, CheckPCs, GapCap, memory, control,
       codes, history
<1>32. CASE RetryWaitOver
  <2>1. gap' = GapCap
    BY <1>32, ElapseType DEF RetryWaitOver
  <2>2. QED
    BY <1>32, <2>1 DEF RetryWaitOver, NextRound, PollOrRelogin, GapInv,
         CheckPCs, GapCap, memory, control, codes, history
<1>33. CASE MembersReturn
  BY <1>33 DEF MembersReturn, ReturnFromLogin, GapInv, CheckPCs, GapCap,
       memory, control, codes, history
<1>34. CASE Feed
  BY <1>34 DEF Feed, GapInv, CheckPCs, GapCap, memory, control, codes, history
<1>35. CASE Stop
  BY <1>35 DEF Stop, GapInv, CheckPCs, GapCap, memory, control, codes, history
<1>36. CASE Restart
  BY <1>36 DEF Restart, Loaded, GapInv, CheckPCs, GapCap, memory, control,
       codes, history
<1>37. CASE UNCHANGED vars
  BY <1>37 DEF vars, memory, control, codes, history, GapInv, CheckPCs, GapCap
<1>38. QED
  BY <1>1, <1>2, <1>3, <1>4, <1>5, <1>6, <1>7, <1>8, <1>9, <1>10, <1>11,
       <1>12, <1>13, <1>14, <1>15, <1>16, <1>17, <1>18, <1>19, <1>20, <1>21,
       <1>22, <1>23, <1>24, <1>25, <1>26, <1>27, <1>28, <1>29, <1>30, <1>31,
       <1>32, <1>33, <1>34, <1>35, <1>36, <1>37
     DEF Next, Loop, PollReturns, CheckLogin, Login, LoginResult, Timers

-----------------------------------------------------------------------------
(* The theorems *)

\* The invariant holds in every state of every behaviour.
THEOREM Invariant == Spec => []IInv
<1>1. Init => IInv
  BY TypeInit, PartsInit DEF IInv
<1>2. IInv /\ [Next]_vars => IInv'
  BY TypeStep, NetErrStep, QuitStep, ReloginStep, CompleteStep, CodeStep,
       GapStep
     DEF IInv
<1>3. QED
  BY <1>1, <1>2, PTL DEF Spec

\* The variables always have their types.
THEOREM TypeCorrect == Spec => []TypeOK
<1>1. IInv => TypeOK
  BY DEF IInv
<1>2. QED
  BY <1>1, Invariant, PTL

\* The database never has a session that the loop gave up or never had: a
\* restart resumes only what was still held.
THEOREM JarCorrect == Spec => []JarNeverAhead
<1>1. IInv => JarNeverAhead
  <2>1. SUFFICES ASSUME IInv
                 PROVE  JarNeverAhead
    OBVIOUS
  <2>2. ReloginInv
    BY <2>1 DEF IInv
  <2>3. /\ jar.psessionid => psessionid /\ clientid /\ jar.clientid
        /\ jar.clientid => clientid
    BY <2>2 DEF ReloginInv
  <2>4. ASSUME pc \in Relogging
        PROVE  ~jar.psessionid
    <3>1. CASE pc \in {"home", "version"}
      BY <2>2, <2>4, <3>1 DEF ReloginInv, EmptyJar
    <3>2. CASE pc \notin {"home", "version"}
      BY <2>2, <2>4, <3>2 DEF ReloginInv
    <3>3. QED
      BY <3>1, <3>2
  <2>5. QED
    BY <2>3, <2>4 DEF JarNeverAhead
<1>2. QED
  BY <1>1, Invariant, PTL

\* The loop returns only after stop() or for a wrong password.
THEOREM DoneCorrect == Spec => []DoneMeansQuitting
<1>1. IInv => DoneMeansQuitting
  BY DEF IInv, QuitInv, DoneMeansQuitting
<1>2. QED
  BY <1>1, Invariant, PTL

\* A disciplined application never has a stale verification code used.
THEOREM CodesFresh == Spec => []VcFresh
<1>1. IInv => VcFresh
  BY DEF IInv, CodeInv, VcFresh
<1>2. QED
  BY <1>1, Invariant, PTL

\* A login that is reported has a complete and persistent session.
THEOREM LoginComplete == Spec => []LoginMeansSession
<1>1. IInv => LoginMeansSession
  BY DEF IInv, CompleteInv, LoginMeansSession
<1>2. QED
  BY <1>1, Invariant, PTL

\* At least 12 seconds of timers lie between two logins.
THEOREM LoginSpacing == Spec => LoginsSpaced
<1>1. ASSUME IInv, [Next]_vars, pc # "login", pc' = "login", ~stopped
      PROVE  gap >= 12
  <2>1. pc = "vcGot"
    BY <1>1 DEF Next, Loop, PollReturns, CheckLogin, Login, LoginResult,
         Timers, vars, Boot, PollOk, PollUnhandled, PollNeedLogin,
         PollNetworkError, PollNeedRefresh, HomeReturns, VersionReturns,
         SigReturns, CheckGivesVc, CheckNeedsImage, CheckFails,
         ImageReturns, ImageFails, VcArrives, LoginAccepted, LoginRefused,
         RedirectReturns, VfwebqqReturns, SetStatusOk, SetStatusFails,
         BuddiesReturn, GroupListOk, GroupListFails, LoginSucceeded,
         LoginWrongPasswd, LoginFailed, PollWaitOver, CheckWaitOver,
         GroupWaitOver, BlockedWaitOver, RetryWaitOver, MembersReturn,
         Feed, Stop, Restart, NextRound, PollOrRelogin, TakeVc,
         ReturnFromLogin
  <2>2. QED
    BY <1>1, <2>1 DEF IInv, GapInv
<1>2. IInv /\ [Next]_vars
         => [pc # "login" /\ pc' = "login" /\ ~stopped => gap >= 12]_vars
  BY <1>1
<1>3. QED
  BY <1>2, Invariant, PTL DEF Spec, LoginsSpaced

\* Every step of the loop is a step of Presence, or changes nothing there.
LEMMA PresenceStep ==
    ASSUME IInv, [Next]_vars
    PROVE  [P!Next]_P!vars
<1> USE DEF P!Next, P!Lost, P!Cleared, P!Authenticated, P!Established, P!Quit,
     P!Restarted, P!vars, memory, history
<1>1. CASE Boot
  BY <1>1 DEF Boot
<1>2. CASE PollOk
  BY <1>2 DEF PollOk
<1>3. CASE PollUnhandled
  BY <1>3 DEF PollUnhandled
<1>4. CASE PollNeedLogin
  BY <1>4 DEF PollNeedLogin
<1>5. CASE PollNetworkError
  BY <1>5 DEF PollNetworkError
<1>6. CASE PollNeedRefresh
  BY <1>6 DEF PollNeedRefresh
<1>7. CASE HomeReturns
  BY <1>7 DEF HomeReturns
<1>8. CASE VersionReturns
  BY <1>8 DEF VersionReturns
<1>9. CASE SigReturns
  BY <1>9 DEF SigReturns
<1>10. CASE CheckGivesVc
  BY <1>10 DEF CheckGivesVc
<1>11. CASE CheckNeedsImage
  BY <1>11 DEF CheckNeedsImage
<1>12. CASE CheckFails
  BY <1>12 DEF CheckFails
<1>13. CASE ImageReturns
  BY <1>13 DEF ImageReturns
<1>14. CASE ImageFails
  BY <1>14 DEF ImageFails
<1>15. CASE VcArrives
  BY <1>15 DEF VcArrives
<1>16. CASE LoginAccepted
  <2>1. ~psessionid
    BY <1>16 DEF LoginAccepted, IInv, ReloginInv, Relogging
  <2>2. QED
    BY <1>16, <2>1 DEF LoginAccepted
<1>17. CASE LoginRefused
  BY <1>17 DEF LoginRefused
<1>18. CASE RedirectReturns
  BY <1>18 DEF RedirectReturns
<1>19. CASE VfwebqqReturns
  <2>1. ~psessionid
    BY <1>19 DEF VfwebqqReturns, IInv, ReloginInv, Relogging
  <2>2. QED
    BY <1>19, <2>1 DEF VfwebqqReturns
<1>20. CASE SetStatusOk
  <2>1. ~psessionid
    BY <1>20 DEF SetStatusOk, IInv, ReloginInv, Relogging
  <2>2. QED
    BY <1>20, <2>1 DEF SetStatusOk
<1>21. CASE SetStatusFails
  <2>1. ~psessionid
    BY <1>21 DEF SetStatusFails, IInv, ReloginInv, Relogging
  <2>2. QED
    BY <1>21, <2>1 DEF SetStatusFails
<1>22. CASE BuddiesReturn
  BY <1>22 DEF BuddiesReturn
<1>23. CASE GroupListOk
  BY <1>23 DEF GroupListOk
<1>24. CASE GroupListFails
  BY <1>24 DEF GroupListFails
<1>25. CASE LoginSucceeded
  BY <1>25 DEF LoginSucceeded
<1>26. CASE LoginWrongPasswd
  BY <1>26 DEF LoginWrongPasswd
<1>27. CASE LoginFailed
  BY <1>27 DEF LoginFailed
<1>28. CASE PollWaitOver
  BY <1>28 DEF PollWaitOver
<1>29. CASE CheckWaitOver
  BY <1>29 DEF CheckWaitOver
<1>30. CASE GroupWaitOver
  BY <1>30 DEF GroupWaitOver
<1>31. CASE BlockedWaitOver
  BY <1>31 DEF BlockedWaitOver
<1>32. CASE RetryWaitOver
  BY <1>32 DEF RetryWaitOver
<1>33. CASE MembersReturn
  BY <1>33 DEF MembersReturn
<1>34. CASE Feed
  BY <1>34 DEF Feed
<1>35. CASE Stop
  BY <1>35 DEF Stop
<1>36. CASE Restart
  <2>1. status' \in {"OFFLINE", "ONLINE"}
    BY <1>36 DEF Restart, Loaded
  <2>2. TypeOK'
    BY TypeStep DEF IInv
  <2>3. psessionid' \in BOOLEAN
    BY <2>2 DEF TypeOK
  <2>4. crashes' = crashes + 1
    BY <1>36 DEF Restart
  <2>5. QED
    BY <2>1, <2>3, <2>4
<1>37. CASE UNCHANGED vars
  BY <1>37 DEF vars
<1>38. QED
  BY <1>1, <1>2, <1>3, <1>4, <1>5, <1>6, <1>7, <1>8, <1>9, <1>10, <1>11,
       <1>12, <1>13, <1>14, <1>15, <1>16, <1>17, <1>18, <1>19, <1>20, <1>21,
       <1>22, <1>23, <1>24, <1>25, <1>26, <1>27, <1>28, <1>29, <1>30, <1>31,
       <1>32, <1>33, <1>34, <1>35, <1>36, <1>37
     DEF Next, Loop, PollReturns, CheckLogin, Login, LoginResult, Timers

\* The main loop implements Presence.
THEOREM ImplementsPresence == Spec => PresenceSpec
<1>1. Init => P!Init
  BY TypeInit DEF Init, Loaded, P!Init, TypeOK
<1>2. IInv /\ [Next]_vars => [P!Next]_P!vars
  BY PresenceStep
<1>3. QED
  BY <1>1, <1>2, Invariant, PTL DEF Spec, P!Spec, PresenceSpec

=============================================================================
