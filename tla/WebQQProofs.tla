----------------------------- MODULE WebQQProofs -----------------------------
(***************************************************************************)
(* Proofs about the WebQQ object, for every value of the constants: the    *)
(* loops that run in one thread and share their state keep the assumptions *)
(* that each was checked and proved under.  The object implements Session, *)
(* Sender and GroupRefresh, so that what is proved of a loop alone, in a   *)
(* model of the others, holds of the object.                               *)
(*                                                                         *)
(* MainP, SndrP and RfrP are the loops of WebQQ (Main, Sndr and Rfr) with  *)
(* the theorems about them; that each has the same steps under both names  *)
(* is shown first.                                                         *)
(***************************************************************************)
EXTENDS WebQQ, TLAPS

MainP == INSTANCE SessionProofs

SndrP == INSTANCE SenderProofs

RfrP == INSTANCE GroupRefreshProofs WITH
            main <- IF pc = "done" THEN "done"
                    ELSE IF waiting THEN "waiting" ELSE "running",
            quitting <- status = "QUITTING"

-----------------------------------------------------------------------------
(* The same loops under two names                                          *)

\* The main loop starts in the same states.
LEMMA SameMainInit == Main!Init <=> MainP!Init
  BY DEF Main!Init, MainP!Init, Main!Loaded, MainP!Loaded, Main!Jars,
     MainP!Jars, Main!GapCap, MainP!GapCap

\* The main loop takes the same steps.
LEMMA SameMainNext == Main!Next <=> MainP!Next
<1> USE DEF Main!memory, MainP!memory, Main!control, MainP!control,
     Main!codes, MainP!codes, Main!history, MainP!history,
     Main!GapCap, MainP!GapCap, Main!Elapse, MainP!Elapse,
     Main!MaxNetErr, MainP!MaxNetErr, Main!EmptyJar, MainP!EmptyJar,
     Main!PollOrRelogin, MainP!PollOrRelogin, Main!NextRound, MainP!NextRound,
     Main!VcCap, MainP!VcCap, Main!PushBack, MainP!PushBack,
     Main!ReturnFromLogin, MainP!ReturnFromLogin
<1>1. Main!Boot <=> MainP!Boot
  BY DEF Main!Boot, MainP!Boot
<1>2. Main!PollReturns <=> MainP!PollReturns
  BY DEF Main!PollReturns, MainP!PollReturns, Main!PollOk, MainP!PollOk,
     Main!PollUnhandled, MainP!PollUnhandled, Main!PollNeedLogin,
     MainP!PollNeedLogin, Main!PollNetworkError, MainP!PollNetworkError,
     Main!PollNeedRefresh, MainP!PollNeedRefresh
<1>3. Main!CheckLogin <=> MainP!CheckLogin
  BY DEF Main!CheckLogin, MainP!CheckLogin, Main!HomeReturns,
     MainP!HomeReturns, Main!VersionReturns, MainP!VersionReturns,
     Main!SigReturns, MainP!SigReturns, Main!CheckGivesVc, MainP!CheckGivesVc,
     Main!CheckNeedsImage, MainP!CheckNeedsImage, Main!CheckFails,
     MainP!CheckFails, Main!ImageReturns, MainP!ImageReturns,
     Main!ImageFails, MainP!ImageFails, Main!TakeVc, MainP!TakeVc,
     Main!Stale, MainP!Stale
<1>4. Main!VcArrives <=> MainP!VcArrives
  BY DEF Main!VcArrives, MainP!VcArrives
<1>5. Main!Login <=> MainP!Login
  BY DEF Main!Login, MainP!Login, Main!LoginAccepted, MainP!LoginAccepted,
     Main!LoginRefused, MainP!LoginRefused, Main!LoginErrors,
     MainP!LoginErrors, Main!RedirectReturns, MainP!RedirectReturns,
     Main!VfwebqqReturns, MainP!VfwebqqReturns, Main!SetStatusOk,
     MainP!SetStatusOk, Main!SetStatusFails, MainP!SetStatusFails,
     Main!BuddiesReturn, MainP!BuddiesReturn, Main!GroupListOk,
     MainP!GroupListOk, Main!GroupListFails, MainP!GroupListFails
<1>6. Main!LoginResult <=> MainP!LoginResult
  BY DEF Main!LoginResult, MainP!LoginResult, Main!LoginSucceeded,
     MainP!LoginSucceeded, Main!LoginWrongPasswd, MainP!LoginWrongPasswd,
     Main!LoginFailed, MainP!LoginFailed
<1>7. Main!Timers <=> MainP!Timers
  BY DEF Main!Timers, MainP!Timers, Main!PollWaitOver, MainP!PollWaitOver,
     Main!CheckWaitOver, MainP!CheckWaitOver, Main!GroupWaitOver,
     MainP!GroupWaitOver, Main!GroupListRetries, MainP!GroupListRetries,
     Main!BlockedWaitOver, MainP!BlockedWaitOver, Main!RetryWaitOver,
     MainP!RetryWaitOver
<1>8. Main!MembersReturn <=> MainP!MembersReturn
  BY DEF Main!MembersReturn, MainP!MembersReturn
<1>9. Main!Feed <=> MainP!Feed
  BY DEF Main!Feed, MainP!Feed
<1>10. Main!Stop <=> MainP!Stop
  BY DEF Main!Stop, MainP!Stop
<1>11. Main!Restart <=> MainP!Restart
  BY DEF Main!Restart, MainP!Restart, Main!Loaded, MainP!Loaded
<1>12. Main!Loop <=> MainP!Loop
  BY <1>1, <1>2, <1>3, <1>4, <1>5, <1>6, <1>7 DEF Main!Loop, MainP!Loop
<1>13. QED
  BY <1>8, <1>9, <1>10, <1>11, <1>12 DEF Main!Next, MainP!Next

\* The sender has the same specification.
LEMMA SameSender == Sndr!Spec <=> SndrP!Spec
<1> USE DEF Sndr!outer, SndrP!outer, Sndr!local, SndrP!local
<1>1. Sndr!Init <=> SndrP!Init
  BY DEF Sndr!Init, SndrP!Init, Sndr!Idle, SndrP!Idle, Sndr!P!Init, SndrP!P!Init
<1>2. [Sndr!Next]_Sndr!vars <=> [SndrP!Next]_SndrP!vars
  <2>1. Sndr!SendGroupMessage <=> SndrP!SendGroupMessage
    BY DEF Sndr!SendGroupMessage, SndrP!SendGroupMessage, Sndr!PushBack,
       SndrP!PushBack, Sndr!Overwritten, SndrP!Overwritten, Sndr!Range,
       SndrP!Range
  <2>2. Sndr!Loop <=> SndrP!Loop
    BY DEF Sndr!Loop, SndrP!Loop, Sndr!MessageArrives, SndrP!MessageArrives,
       Sndr!Post, SndrP!Post, Sndr!LoginSeen, SndrP!LoginSeen,
       Sndr!PostReturns, SndrP!PostReturns, Sndr!PauseOver, SndrP!PauseOver
  <2>3. Sndr!Stop <=> SndrP!Stop
    BY DEF Sndr!Stop, SndrP!Stop, Sndr!Cancelled, SndrP!Cancelled
  <2>4. Sndr!Restart <=> SndrP!Restart
    BY DEF Sndr!Restart, SndrP!Restart, Sndr!Fresh, SndrP!Fresh,
       Sndr!P!Restarted, SndrP!P!Restarted
  <2>5. Sndr!MainLoop <=> SndrP!MainLoop
    BY DEF Sndr!MainLoop, SndrP!MainLoop, Sndr!P!Lost, SndrP!P!Lost,
       Sndr!P!Cleared, SndrP!P!Cleared, Sndr!P!Authenticated,
       SndrP!P!Authenticated, Sndr!P!Established, SndrP!P!Established,
       Sndr!P!Quit, SndrP!P!Quit
  <2>6. QED
    BY <2>1, <2>2, <2>3, <2>4, <2>5
    DEF Sndr!Next, SndrP!Next, Sndr!vars, SndrP!vars
<1>3. QED
  BY <1>1, <1>2, PTL DEF Sndr!Spec, SndrP!Spec

\* The refresh loop has the same specification.
LEMMA SameRefresh == Rfr!Spec <=> RfrP!Spec
<1> USE DEF Rfr!loop, RfrP!loop, Rfr!time, RfrP!time, Rfr!env, RfrP!env,
     Rfr!Spacing, RfrP!Spacing, Rfr!Capped, RfrP!Capped
<1>1. Rfr!Init <=> RfrP!Init
  BY DEF Rfr!Init, RfrP!Init
<1>2. [Rfr!Next]_Rfr!vars <=> [RfrP!Next]_RfrP!vars
  <2>1. Rfr!Request <=> RfrP!Request
    BY DEF Rfr!Request, RfrP!Request, Rfr!Push, RfrP!Push
  <2>2. Rfr!AppRequest <=> RfrP!AppRequest
    BY DEF Rfr!AppRequest, RfrP!AppRequest, Rfr!Push, RfrP!Push
  <2>3. Rfr!Loop <=> RfrP!Loop
    BY DEF Rfr!Loop, RfrP!Loop, Rfr!CommandTaken, RfrP!CommandTaken,
       Rfr!Wait, RfrP!Wait, Rfr!FirstWait, RfrP!FirstWait, Rfr!Minutes,
       RfrP!Minutes, Rfr!Seconds, RfrP!Seconds, Rfr!ThrottleOver,
       RfrP!ThrottleOver, Rfr!ListReturns, RfrP!ListReturns,
       Rfr!MembersReturn, RfrP!MembersReturn, Rfr!Pop, RfrP!Pop,
       Rfr!CallBack, RfrP!CallBack
  <2>4. Rfr!Relogin <=> RfrP!Relogin
    BY DEF Rfr!Relogin, RfrP!Relogin
  <2>5. Rfr!MainReturns <=> RfrP!MainReturns
    BY DEF Rfr!MainReturns, RfrP!MainReturns
  <2>6. Rfr!Stop <=> RfrP!Stop
    BY DEF Rfr!Stop, RfrP!Stop
  <2>7. Rfr!Restart <=> RfrP!Restart
    BY DEF Rfr!Restart, RfrP!Restart
  <2>8. QED
    BY <2>1, <2>2, <2>3, <2>4, <2>5, <2>6, <2>7
    DEF Rfr!Next, RfrP!Next, Rfr!vars, RfrP!vars
<1>3. QED
  BY <1>1, <1>2, PTL DEF Rfr!Spec, RfrP!Spec

-----------------------------------------------------------------------------
(* The main loop of the object is the one of Session                       *)

\* A step of another loop is none of the main loop.
LEMMA MainUntouched ==
    ASSUME MemberRequest \/ SenderStep \/ RefreshStep \/ KeepAlive
    PROVE  UNCHANGED Main!vars
<1> USE DEF shared, main, Main!vars, Main!memory, Main!control, Main!codes,
     Main!history
<1>1. CASE MemberRequest
  BY <1>1 DEF MemberRequest
<1>2. CASE SenderStep
  BY <1>2 DEF SenderStep, Sndr!Loop, Sndr!MessageArrives, Sndr!LoginSeen,
     Sndr!PostReturns, Sndr!PauseOver, Sndr!SendGroupMessage, Sndr!outer
<1>3. CASE RefreshStep
  BY <1>3 DEF RefreshStep, Rfr!Loop, Rfr!CommandTaken, Rfr!ThrottleOver,
     Rfr!ListReturns, Rfr!MembersReturn, Rfr!AppRequest, Rfr!env
<1>4. CASE KeepAlive
  BY <1>4 DEF KeepAlive
<1>5. QED
  BY <1>1, <1>2, <1>3, <1>4

\* A step of the object is one of the main loop, or none.
LEMMA MainFollows ==
    ASSUME [Next]_vars
    PROVE  [MainP!Next]_MainP!vars
<1>1. Main!Next \/ UNCHANGED Main!vars
  <2>1. CASE MainStep
    BY <2>1 DEF MainStep, MainLoop, Main!Next
  <2>2. CASE MemberRequest \/ SenderStep \/ RefreshStep \/ KeepAlive
    BY <2>2, MainUntouched
  <2>3. CASE Stop
    BY <2>3 DEF Stop, Main!Next
  <2>4. CASE Restart
    BY <2>4 DEF Restart, Main!Next
  <2>5. CASE UNCHANGED vars
    BY <2>5 DEF vars, shared, main, Main!vars, Main!memory, Main!control,
       Main!codes, Main!history
  <2>6. QED
    BY <2>1, <2>2, <2>3, <2>4, <2>5 DEF Next
<1>2. UNCHANGED Main!vars => UNCHANGED MainP!vars
  BY DEF Main!vars, Main!memory, Main!control, Main!codes, Main!history,
     MainP!vars, MainP!memory, MainP!control, MainP!codes, MainP!history
<1>3. QED
  BY <1>1, <1>2, SameMainNext

\* In the object, with the steps of the other loops between its own and a
\* callback that it waits for, the main loop is the one of Session.
THEOREM ImplementsSession == Spec => MainP!Spec
<1>1. Init => MainP!Init
  BY SameMainInit DEF Init
<1>2. QED
  BY <1>1, MainFollows, PTL DEF Spec, MainP!Spec

\* So its inductive invariant holds in the object.
THEOREM MainInvariant == Spec => []MainP!IInv
<1>1. MainP!Spec => []MainP!IInv
  BY MainP!Invariant, MainAssumption
<1>2. QED
  BY <1>1, ImplementsSession, PTL

\* And what follows from it: a crash of the object never leaves a session in
\* the database that was given up; the loop returns for stop() or a wrong
\* password only; no old code is sent; and a login that is reported is complete.
THEOREM ObjectKeepsSession ==
    Spec => /\ []MainP!JarNeverAhead /\ []MainP!DoneMeansQuitting
            /\ []MainP!VcFresh /\ []MainP!LoginMeansSession
<1>1. MainP!Spec => /\ []MainP!JarNeverAhead /\ []MainP!DoneMeansQuitting
                    /\ []MainP!VcFresh /\ []MainP!LoginMeansSession
  BY MainP!JarCorrect, MainP!DoneCorrect, MainP!CodesFresh,
     MainP!LoginComplete, MainAssumption, PTL
<1>2. QED
  BY <1>1, ImplementsSession, PTL

\* And its steps are steps of Presence, or none.
LEMMA MainPresence ==
    ASSUME MainP!IInv, [Next]_vars
    PROVE  [MainP!P!Next]_MainP!P!vars
  BY MainP!PresenceStep, MainFollows, MainAssumption

-----------------------------------------------------------------------------
(* The main loop keeps the promises the sender relies on                   *)

\* The main loop and feed_vc write neither the history of stops nor that of
\* crashes.
LEMMA MainKeepsHistory ==
    ASSUME Main!Loop \/ Main!MembersReturn \/ Main!Feed
    PROVE  UNCHANGED <<stopped, crashes>>
<1> USE DEF Main!history
<1>1. CASE Main!Boot \/ Main!VcArrives \/ Main!MembersReturn \/ Main!Feed
  BY <1>1 DEF Main!Boot, Main!VcArrives, Main!MembersReturn, Main!Feed
<1>2. CASE Main!PollReturns
  BY <1>2 DEF Main!PollReturns, Main!PollOk, Main!PollUnhandled,
     Main!PollNeedLogin, Main!PollNetworkError, Main!PollNeedRefresh
<1>3. CASE Main!CheckLogin
  BY <1>3 DEF Main!CheckLogin, Main!HomeReturns, Main!VersionReturns,
     Main!SigReturns, Main!CheckGivesVc, Main!CheckNeedsImage,
     Main!CheckFails, Main!ImageReturns, Main!ImageFails
<1>4. CASE Main!Login
  BY <1>4 DEF Main!Login, Main!LoginAccepted, Main!LoginRefused,
     Main!RedirectReturns, Main!VfwebqqReturns, Main!SetStatusOk,
     Main!SetStatusFails, Main!BuddiesReturn, Main!GroupListOk,
     Main!GroupListFails
<1>5. CASE Main!LoginResult
  BY <1>5 DEF Main!LoginResult, Main!LoginSucceeded, Main!LoginWrongPasswd,
     Main!LoginFailed
<1>6. CASE Main!Timers
  BY <1>6 DEF Main!Timers, Main!PollWaitOver, Main!CheckWaitOver,
     Main!GroupWaitOver, Main!BlockedWaitOver, Main!RetryWaitOver
<1>7. QED
  BY <1>1, <1>2, <1>3, <1>4, <1>5, <1>6 DEF Main!Loop

\* A step of the object is one of the sender's world, or none.
LEMMA SenderFollows ==
    ASSUME MainP!IInv, MainP!IInv', [Next]_vars
    PROVE  [Sndr!Next]_Sndr!vars
<1> USE DEF sender, Sndr!outer, Sndr!local, Sndr!vars
<1>0. crashes \in Nat
  BY MainAssumption DEF MainP!IInv, MainP!TypeOK
<1>1. CASE MainStep
  <2>1. UNCHANGED <<stopped, crashes>> /\ UNCHANGED sender
    BY <1>1, MainKeepsHistory DEF MainStep, MainLoop
  <2>2. [MainP!P!Next]_MainP!P!vars /\ ~MainP!P!Restarted
    BY <1>0, <2>1, MainPresence DEF MainP!P!Restarted
  <2>3. Sndr!MainLoop \/ UNCHANGED <<status, psessionid, crashes>>
    BY <2>1, <2>2 DEF MainP!P!Next, MainP!P!vars, MainP!P!Lost,
       MainP!P!Cleared, MainP!P!Authenticated, MainP!P!Established,
       MainP!P!Quit, Sndr!MainLoop, Sndr!P!Lost, Sndr!P!Cleared,
       Sndr!P!Authenticated, Sndr!P!Established, Sndr!P!Quit
  <2>4. QED
    BY <2>1, <2>3 DEF Sndr!Next
<1>2. CASE SenderStep
  BY <1>2 DEF SenderStep, Sndr!Next
<1>3. CASE MemberRequest \/ RefreshStep \/ KeepAlive
  <2>1. UNCHANGED <<status, psessionid, crashes, stopped>>
    BY <1>3, MainUntouched DEF Main!vars, Main!memory, Main!history
  <2>2. UNCHANGED sender
    BY <1>3 DEF MemberRequest, RefreshStep, KeepAlive
  <2>3. QED
    BY <2>1, <2>2
<1>4. CASE Stop
  BY <1>4 DEF Stop, Main!Stop, Sndr!Stop, Sndr!Next
<1>5. CASE Restart
  <2>1. psessionid' \in BOOLEAN
    BY DEF MainP!IInv, MainP!TypeOK
  <2>2. Sndr!P!Restarted
    BY <1>5, <2>1 DEF Restart, Main!Restart, Main!Loaded, Sndr!P!Restarted
  <2>3. QED
    BY <1>5, <2>2 DEF Restart, Main!Restart, Sndr!Restart, Sndr!Next
<1>6. CASE UNCHANGED vars
  BY <1>6 DEF vars, shared
<1>7. QED
  BY <1>1, <1>2, <1>3, <1>4, <1>5, <1>6 DEF Next

\* The real main loop does nothing to the status and the psession id that the
\* sender was not checked under: SenderSpec.
THEOREM ImplementsSender == Spec => SenderSpec
<1>1. Init /\ MainP!IInv => Sndr!Init
  BY DEF Init, Main!Init, Main!Loaded, MainP!IInv, MainP!TypeOK, Sndr!Init,
     Sndr!P!Init
<1>2. QED
  BY <1>1, SenderFollows, MainInvariant, PTL DEF Spec, SenderSpec, Sndr!Spec

\* Whatever the main loop does, the messages leave in order, each at most
\* once; none vanishes but in a full queue, which keeps the newest; and donecb
\* is called for those that were posted.
THEOREM ObjectSends ==
    Spec => /\ []SndrP!InOrderOnce /\ []SndrP!NoSilentLoss
            /\ []SndrP!NewestKept /\ []SndrP!CallbackIffSent
<1>1. Spec => SndrP!Spec
  BY ImplementsSender, SameSender, PTL DEF SenderSpec
<1>2. SndrP!Spec => []SndrP!InOrderOnce
  BY SndrP!OrderKept, MainAssumption, SenderAssumption
<1>3. SndrP!Spec => []SndrP!NoSilentLoss
  BY SndrP!NothingVanishes, MainAssumption, SenderAssumption
<1>4. SndrP!Spec => []SndrP!NewestKept
  BY SndrP!NewestStay, MainAssumption, SenderAssumption
<1>5. SndrP!Spec => []SndrP!CallbackIffSent
  BY SndrP!CallbacksFollow, MainAssumption, SenderAssumption
<1>6. QED
  BY <1>1, <1>2, <1>3, <1>4, <1>5, PTL

-----------------------------------------------------------------------------
(* The refresh loop is the one of GroupRefresh                             *)

\* The loop sets QUITTING only when it returns, and does nothing afterwards.
LEMMA LoopQuits ==
    ASSUME Main!Loop \/ Main!MembersReturn
    PROVE  /\ pc # "done"
           /\ status' = "QUITTING" => status = "QUITTING" \/ pc' = "done"
<1> USE DEF Main!memory
<1>1. CASE Main!Boot \/ Main!VcArrives \/ Main!MembersReturn
  BY <1>1 DEF Main!Boot, Main!VcArrives, Main!MembersReturn
<1>2. CASE Main!PollReturns
  BY <1>2 DEF Main!PollReturns, Main!PollOk, Main!PollUnhandled,
     Main!PollNeedLogin, Main!PollNetworkError, Main!PollNeedRefresh
<1>3. CASE Main!CheckLogin
  BY <1>3 DEF Main!CheckLogin, Main!HomeReturns, Main!VersionReturns,
     Main!SigReturns, Main!CheckGivesVc, Main!CheckNeedsImage,
     Main!CheckFails, Main!ImageReturns, Main!ImageFails
<1>4. CASE Main!Login
  BY <1>4 DEF Main!Login, Main!LoginAccepted, Main!LoginRefused,
     Main!RedirectReturns, Main!VfwebqqReturns, Main!SetStatusOk,
     Main!SetStatusFails, Main!BuddiesReturn, Main!GroupListOk,
     Main!GroupListFails
<1>5. CASE Main!LoginResult
  BY <1>5 DEF Main!LoginResult, Main!LoginSucceeded, Main!LoginWrongPasswd,
     Main!LoginFailed
<1>6. CASE Main!Timers
  BY <1>6 DEF Main!Timers, Main!PollWaitOver, Main!CheckWaitOver,
     Main!GroupWaitOver, Main!BlockedWaitOver, Main!RetryWaitOver
<1>7. QED
  BY <1>1, <1>2, <1>3, <1>4, <1>5, <1>6 DEF Main!Loop

\* Where the answer with the group list arrives, the loop does not return.
LEMMA ListGoesOn ==
    ASSUME Main!Loop \/ Main!MembersReturn, pc = "groupList"
    PROVE  pc' # "done"
<1>1. Main!GroupListOk \/ Main!GroupListFails
  BY DEF Main!Loop, Main!MembersReturn, Main!Boot, Main!VcArrives,
     Main!PollReturns, Main!PollOk, Main!PollUnhandled, Main!PollNeedLogin,
     Main!PollNetworkError, Main!PollNeedRefresh, Main!CheckLogin,
     Main!HomeReturns, Main!VersionReturns, Main!SigReturns,
     Main!CheckGivesVc, Main!CheckNeedsImage, Main!CheckFails,
     Main!ImageReturns, Main!ImageFails, Main!Login, Main!LoginAccepted,
     Main!LoginRefused, Main!RedirectReturns, Main!VfwebqqReturns,
     Main!SetStatusOk, Main!SetStatusFails, Main!BuddiesReturn,
     Main!LoginResult, Main!LoginSucceeded, Main!LoginWrongPasswd,
     Main!LoginFailed, Main!Timers, Main!PollWaitOver, Main!CheckWaitOver,
     Main!GroupWaitOver, Main!BlockedWaitOver, Main!RetryWaitOver
<1>2. QED
  BY <1>1 DEF Main!GroupListOk, Main!GroupListFails

\* The table of groups holds group ids.
TableTyped == groups \in SUBSET Gids

\* It does in every state of the object.
LEMMA TableInvariant == Spec => []TableTyped
<1>1. Init => TableTyped
  BY DEF Init, TableTyped
<1>2. ASSUME TableTyped, [Next]_vars PROVE TableTyped'
  <2> USE DEF TableTyped
  <2>1. CASE MainStep
    BY <1>2, <2>1 DEF MainStep, MainLoop
  <2>2. CASE MemberRequest \/ SenderStep \/ KeepAlive \/ UNCHANGED vars
    BY <1>2, <2>2 DEF MemberRequest, SenderStep, KeepAlive, vars
  <2>3. CASE RefreshStep
    BY <1>2, <2>3 DEF RefreshStep, Rfr!Loop, Rfr!CommandTaken,
       Rfr!ThrottleOver, Rfr!ListReturns, Rfr!MembersReturn, Rfr!AppRequest,
       Rfr!env
  <2>4. CASE Stop \/ Restart
    BY <1>2, <2>4 DEF Stop, Rfr!Stop, Restart, Rfr!Restart
  <2>5. QED
    BY <1>2, <2>1, <2>2, <2>3, <2>4 DEF Next
<1>3. QED
  BY <1>1, <1>2, PTL DEF Spec

\* A step of the main loop is one of the refresh loop's world: the loop goes
\* on, or returns and leaves QUITTING behind.
LEMMA LoopFollows ==
    ASSUME MainP!IInv', TableTyped, MainStep, ~waiting, MainLoop
    PROVE  Rfr!Relogin \/ Rfr!MainReturns
<1>1. /\ pc # "done" /\ UNCHANGED stopped
      /\ status' = "QUITTING" => status = "QUITTING" \/ pc' = "done"
  BY LoopQuits, MainKeepsHistory DEF MainLoop
<1>2. CASE pc' = "done"
  <2>1. status' = "QUITTING"
    BY <1>2 DEF MainP!IInv, MainP!QuitInv
  <2>2. UNCHANGED groups
    BY <1>2, ListGoesOn DEF MainLoop
  <2>3. Rfr!MainReturns
    BY <1>1, <1>2, <2>1, <2>2 DEF MainStep, Up, refresh, Rfr!MainReturns,
       Rfr!loop, Rfr!time
  <2>4. QED
    BY <2>3
<1>3. CASE pc' # "done"
  <2>1. (status' = "QUITTING") \in {status = "QUITTING", FALSE}
    BY <1>1, <1>3
  <2>2. groups' \in SUBSET Gids
    BY DEF MainLoop, TableTyped
  <2>3. Rfr!Relogin
    BY <1>1, <1>3, <2>1, <2>2 DEF MainStep, Up, refresh, Rfr!Relogin,
       Rfr!loop, Rfr!time
  <2>4. QED
    BY <2>3
<1>4. QED
  BY <1>2, <1>3

\* feed_vc changes nothing that the refresh loop sees.
LEMMA FeedUnseen ==
    ASSUME MainStep, Main!Feed, UNCHANGED groups
    PROVE  UNCHANGED Rfr!vars
<1>1. /\ UNCHANGED <<status, stopped, waiting, refresh>>
      /\ pc = "done" <=> pc' = "done"
  BY DEF MainStep, Main!Feed, Main!memory, Main!history
<1>2. QED
  BY <1>1 DEF refresh, Rfr!vars, Rfr!loop, Rfr!time, Rfr!env

\* A step of the object is one of the refresh loop's world, or none.
LEMMA RefreshFollows ==
    ASSUME MainP!IInv', TableTyped, [Next]_vars
    PROVE  [Rfr!Next]_Rfr!vars
<1>1. CASE MainStep
  BY <1>1, LoopFollows, FeedUnseen DEF MainStep, Rfr!Next
<1>2. CASE MemberRequest
  <2>1. Rfr!Request
    BY <1>2 DEF MemberRequest, Up, shared, main, Rfr!Request, Rfr!time
  <2>2. QED
    BY <2>1 DEF Rfr!Next
<1>3. CASE SenderStep \/ KeepAlive \/ UNCHANGED vars
  <2>1. UNCHANGED <<status, stopped, pc, waiting, refresh, groups>>
    BY <1>3, MainUntouched DEF SenderStep, KeepAlive, vars, shared, main,
       Main!vars, Main!memory, Main!history
  <2>2. QED
    BY <2>1 DEF refresh, Rfr!vars, Rfr!loop, Rfr!time, Rfr!env
<1>4. CASE RefreshStep
  BY <1>4 DEF RefreshStep, Rfr!Next
<1>5. CASE Stop
  BY <1>5 DEF Stop, Rfr!Next
<1>6. CASE Restart
  BY <1>6 DEF Restart, Rfr!Next
<1>7. QED
  BY <1>1, <1>2, <1>3, <1>4, <1>5, <1>6 DEF Next

\* The real main loop asks for one refresh at a time, does nothing while it
\* waits, and goes on and returns as GroupRefresh says: RefreshSpec.
THEOREM ImplementsRefresh == Spec => RefreshSpec
<1>1. Init => Rfr!Init
  BY DEF Init, Main!Init, Main!Loaded, Rfr!Init
<1>2. QED
  BY <1>1, RefreshFollows, MainInvariant, TableInvariant, PTL
  DEF Spec, RefreshSpec, Rfr!Spec

\* So the real main loop is owed exactly one callback while it waits and none
\* otherwise, and the full refreshes keep their distance, with logins, feed_vc
\* and messages between any two steps of the refresh loop.
THEOREM ObjectRefreshes == Spec => []RfrP!CalledBackOnce /\ []RfrP!FullSpaced
<1>1. Spec => RfrP!Spec
  BY ImplementsRefresh, SameRefresh, PTL DEF RefreshSpec
<1>2. RfrP!Spec => []RfrP!CalledBackOnce
  BY RfrP!MainCalledBackOnce, RefreshAssumption
<1>3. RfrP!Spec => []RfrP!FullSpaced
  BY RfrP!RefreshSpacing, RefreshAssumption
<1>4. QED
  BY <1>1, <1>2, <1>3, PTL

-----------------------------------------------------------------------------
(* No message leaves while logged out                                      *)

\* What the main loop leaves behind when the account is ONLINE: there is a
\* psession id, or a client id, or the redirect that makes one is under way.
OnlineInv == status = "ONLINE" => psessionid \/ clientid \/ pc = "redirect"

\* No step of the main loop breaks that.
LEMMA MainKeepsOnline ==
    ASSUME MainP!IInv, OnlineInv, [MainP!Next]_MainP!vars
    PROVE  OnlineInv'
<1> USE DEF OnlineInv, MainP!vars, MainP!memory
<1>1. CASE MainP!Boot \/ MainP!VcArrives
  BY <1>1 DEF MainP!Boot, MainP!VcArrives
<1>2. CASE MainP!PollReturns
  BY <1>2 DEF MainP!PollReturns, MainP!PollOk, MainP!PollUnhandled,
     MainP!PollNeedLogin, MainP!PollNetworkError, MainP!PollNeedRefresh
<1>3. CASE MainP!CheckLogin
  BY <1>3 DEF MainP!CheckLogin, MainP!HomeReturns, MainP!VersionReturns,
     MainP!SigReturns, MainP!CheckGivesVc, MainP!CheckNeedsImage,
     MainP!CheckFails, MainP!ImageReturns, MainP!ImageFails
<1>4. CASE MainP!Login
  <2>1. pc = "setStatus" => clientid
    BY DEF MainP!IInv, MainP!ReloginInv
  <2>2. QED
    BY <1>4, <2>1 DEF MainP!IInv, MainP!ReloginInv, MainP!Login,
       MainP!LoginAccepted, MainP!LoginRefused, MainP!RedirectReturns,
       MainP!VfwebqqReturns, MainP!SetStatusOk, MainP!SetStatusFails,
       MainP!BuddiesReturn, MainP!GroupListOk, MainP!GroupListFails,
       MainP!ReturnFromLogin
<1>5. CASE MainP!LoginResult
  BY <1>5 DEF MainP!LoginResult, MainP!LoginSucceeded, MainP!LoginWrongPasswd,
     MainP!LoginFailed
<1>6. CASE MainP!Timers
  BY <1>6 DEF MainP!Timers, MainP!PollWaitOver, MainP!CheckWaitOver,
     MainP!GroupWaitOver, MainP!BlockedWaitOver, MainP!RetryWaitOver
<1>7. CASE MainP!MembersReturn \/ MainP!Feed
  BY <1>7 DEF MainP!MembersReturn, MainP!Feed
<1>8. CASE MainP!Stop \/ MainP!Restart
  BY <1>8 DEF MainP!Stop, MainP!Restart, MainP!Loaded
<1>9. CASE UNCHANGED MainP!vars
  BY <1>9
<1>10. QED
  BY <1>1, <1>2, <1>3, <1>4, <1>5, <1>6, <1>7, <1>8, <1>9
  DEF MainP!Next, MainP!Loop

\* It holds in every state of the object.
THEOREM OnlineMeansLogin == Spec => []OnlineInv
<1>1. Init => OnlineInv
  BY DEF Init, Main!Init, Main!Loaded, OnlineInv
<1>2. MainP!IInv /\ OnlineInv /\ [Next]_vars => OnlineInv'
  BY MainFollows, MainKeepsOnline
<1>3. QED
  BY <1>1, <1>2, MainInvariant, PTL DEF Spec

\* A message is posted only when the sender is resumed with it, or when the
\* login it waits for is seen: while the status is ONLINE.
LEMMA PostsOnline ==
    ASSUME [Next]_vars, sent' # sent, sent' # <<>>
    PROVE  status = "ONLINE"
<1>1. CASE SenderStep
  BY <1>1 DEF SenderStep, Sndr!Loop, Sndr!MessageArrives, Sndr!LoginSeen,
     Sndr!PostReturns, Sndr!PauseOver, Sndr!SendGroupMessage, Sndr!outer
<1>2. CASE Restart
  BY <1>2 DEF Restart, Sndr!Fresh
<1>3. CASE MainStep \/ MemberRequest \/ RefreshStep \/ KeepAlive \/ Stop
           \/ UNCHANGED vars
  BY <1>3 DEF MainStep, MemberRequest, RefreshStep, KeepAlive, Stop,
     Sndr!Cancelled, sender, vars
<1>4. QED
  BY <1>1, <1>2, <1>3 DEF Next

\* Whatever the sender was doing when the session went, nothing leaves before
\* the server accepts the password again: NothingSentWhileLoggedOut.
THEOREM SilentWhileLoggedOut == Spec => NothingSentWhileLoggedOut
<1>1. ASSUME OnlineInv, [Next]_vars
      PROVE  [sent' # sent /\ sent' # <<>> =>
                 psessionid \/ clientid \/ pc = "redirect"]_vars
  BY <1>1, PostsOnline DEF OnlineInv
<1>2. QED
  BY <1>1, OnlineMeansLogin, PTL DEF Spec, NothingSentWhileLoggedOut

=============================================================================
