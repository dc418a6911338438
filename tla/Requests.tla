------------------------------- MODULE Requests -------------------------------
(***************************************************************************)
(* The calls of the application that are chains of requests with one       *)
(* callback: search_group, join_group and send_offline_file; and the table *)
(* of cookies they share with the login.  A search or a join may want a    *)
(* verification code: its image (fetch_aid) comes with the cookie          *)
(* verifysession, as does the image of a login, and the next request has   *)
(* to carry the one of the image that was shown last.                      *)
(*                                                                         *)
(* A call is at                                                            *)
(*   idle, ended   not yet made; all of it is over                         *)
(*   asked         the search or the join                                  *)
(*   image         fetch_aid                                               *)
(*   opening, writing, tail, reading    the four parts of an upload        *)
(*   sending       send_offfile2                                           *)
(***************************************************************************)
EXTENDS CookieStore, SequencesExt

CONSTANTS
    Calls,   \* bound: the calls that may run at once
    Tokens,  \* bound: the values of a cookie; a new one is not the last one
    Blocks   \* bound: the blocks of 1024 bytes of a file

ASSUME TokensAssumption == Tokens \subseteq Nat \ {NoValue}
ASSUME BlocksAssumption == Blocks \in Nat

VARIABLES
    cookies,  \* the table of cookies
    call,     \* the calls
    up,       \* the process lives
    latest    \* history: the values that the service gave and has not taken
              \* back, in an answer or by a drop of the session

vars == <<cookies, call, up, latest>>

\* opened: the file was opened; posted: callbacks on their way through the
\* io_service; called: callbacks that came; threw: one of them threw where the
\* code takes that for a failure of the request, and answers again.
Call == [op : {"none", "search", "join", "file"},
         at : {"idle", "ended", "asked", "image", "opening", "writing", "tail",
               "reading", "sending"},
         left : 0 .. Blocks, opened : BOOLEAN, threw : BOOLEAN,
         posted : 0 .. 1, called : 0 .. 3]

Idle == [op |-> "none", at |-> "idle", left |-> 0, opened |-> TRUE,
         threw |-> FALSE, posted |-> 0, called |-> 0]

-----------------------------------------------------------------------------
(* The service's cookies, as the code uses them (external)                 *)

Domain(dot, labels) == [dot |-> dot, labels |-> labels]
qq == Domain(FALSE, <<"qq", "com">>)

Captcha == <<"captcha", "qq", "com">>
Login   == <<"ssl", "ptlogin2", "qq", "com">>

\* Where requests go that have to carry cookies.
Search_  == [host |-> <<"cgi", "web2", "qq", "com">>,
             path |-> <<"keycgi", "qqweb", "group", "search.do">>]
Join_    == [host |-> <<"s", "web2", "qq", "com">>,
             path |-> <<"api", "apply_join_group2">>]
Login_   == [host |-> Login, path |-> <<"login">>]
Upload_  == [host |-> <<"weboffline", "ftn", "qq", "com">>,
             path |-> <<"ftn_access", "upload_offline_file">>]
Send_    == [host |-> <<"d", "web2", "qq", "com">>,
             path |-> <<"channel", "send_offfile2">>]
Targets == {Search_, Join_, Login_, Upload_, Send_}

Cookie(name, domain, path, value, expiration) ==
    [name |-> name, domain |-> domain, path |-> path, value |-> value,
     expiration |-> expiration]

\* verifysession and skey go to all hosts; the number to be remembered has a
\* date, a leading dot, and only ptlogin2; the signature has no domain.
verifysession(k) == Cookie("verifysession", qq, <<>>, k, "session")
skey(k)          == Cookie("skey", qq, <<>>, k, "session")
ptui_loginuin(k) == Cookie("ptui_loginuin",
                           Domain(TRUE, <<"ptlogin2", "qq", "com">>), <<>>, k,
                           "dated")
pt_login_sig(k)  == Cookie("pt_login_sig", Domain(FALSE, <<>>), <<>>, k,
                           "session")

Names == {"verifysession", "skey", "ptui_loginuin", "pt_login_sig"}
None  == [n \in Names |-> NoValue]

\* An image, with its cookie, after or before a line that removes the old one.
ImageLines(k) == {<<verifysession(k)>>,
                  <<verifysession(NoValue), verifysession(k)>>,
                  <<verifysession(k), verifysession(NoValue)>>}

\* An accepted password: its code is used up.
LoginLines(k) ==
    {<<verifysession(NoValue), ptui_loginuin(k), skey(k), pt_login_sig(k)>>,
     <<pt_login_sig(NoValue), skey(NoValue), skey(k)>>}

Init == /\ cookies = {} /\ call = [c \in Calls |-> Idle] /\ up = TRUE
        /\ latest = None

-----------------------------------------------------------------------------
(* What every call does                                                    *)

\* The call c goes on elsewhere.
Goto(c, at) == call' = [call EXCEPT ![c].at = at]

\* The callback is called, and the call is over.
CallBack(c) == call' = [call EXCEPT ![c].at = "ended", ![c].called = @ + 1]

\* failed_invode_handler, and the upload is over.
PostFailure(c) == call' = [call EXCEPT ![c].at = "ended", ![c].posted = @ + 1]

\* A posted callback; it was posted before the next request of its call ends.
PostedRuns(c) ==
    /\ up /\ call[c].posted > 0
    /\ call' = [call EXCEPT ![c].posted = @ - 1, ![c].called = @ + 1]
    /\ UNCHANGED <<cookies, up, latest>>

\* The request at which the call c waits has ended.
Returns(c, at) == up /\ call[c].at = at /\ call[c].posted = 0

\* save_cookie of an answer with these lines; what the service means by them:
\* the last value counts, and a removal only where none is given.
Save(lines, host) ==
    /\ cookies' = save_cookie(cookies, lines, host)
    /\ latest' = [n \in Names |->
          LET values == {i \in DOMAIN lines : lines[i].name = n
                                              /\ lines[i].value # NoValue}
          IN  IF values # {} THEN lines[Max(values)].value
              ELSE IF \E i \in DOMAIN lines : lines[i].name = n THEN NoValue
              ELSE latest[n]]

-----------------------------------------------------------------------------
(* search_group and join_group                                             *)

Ask(c) ==
    /\ up /\ call[c].at \in {"idle", "ended"} /\ call[c].posted = 0
    /\ \E op \in {"search", "join"} :
          call' = [call EXCEPT ![c] = [Idle EXCEPT !.op = op, !.at = "asked"]]
    /\ UNCHANGED <<cookies, up, latest>>

cb_search_group_FallsThrough(c) ==
    /\ Returns(c, "asked") /\ call[c].op = "search"
    /\ \/ CallBack(c)
       \/ call' = [call EXCEPT ![c].at = "image", ![c].called = @ + 1]
    /\ UNCHANGED <<cookies, up, latest>>

\* A network error, any retcode or a missing field: the callback gets a group
\* or none.  Retcode 100110 wants a code.
cb_search_group(c) ==
    /\ Returns(c, "asked") /\ call[c].op = "search"
    /\ CallBack(c) \/ Goto(c, "image")
    /\ UNCHANGED <<cookies, up, latest>>

\* The answer is no JSON: read_json stands before the try, and the process dies.
SearchGarbled(c) ==
    /\ Returns(c, "asked") /\ call[c].op = "search"
    /\ up' = FALSE
    /\ UNCHANGED <<cookies, call, latest>>

\* Retcode 0, or an answer that is none, or has no retcode or no tips: the
\* callback.  Every other retcode wants a code.
cb_join_group(c) ==
    /\ Returns(c, "asked") /\ call[c].op = "join"
    /\ CallBack(c) \/ Goto(c, "image")
    /\ UNCHANGED <<cookies, up, latest>>

\* The callback of a join that succeeded throws: the exception is taken for one
\* of the parser, and the callback is called again, without a group.
JoinThrows(c) ==
    /\ Returns(c, "asked") /\ call[c].op = "join"
    /\ call' = [call EXCEPT ![c].at = "ended", ![c].called = @ + 2,
                            ![c].threw = TRUE]
    /\ UNCHANGED <<cookies, up, latest>>

\* cb_fetch_aid: the cookie first, then the callback with the image.
ImageReturns(c) ==
    /\ Returns(c, "image") /\ CallBack(c)
    /\ \E k \in Tokens \ {latest["verifysession"]} :
          \E lines \in ImageLines(k) : Save(lines, Captcha)
    /\ UNCHANGED up

ImageFails_AsksAgain(c) ==
    /\ Returns(c, "image") /\ Goto(c, "asked")
    /\ UNCHANGED <<cookies, up, latest>>

ImageFails(c) ==
    /\ Returns(c, "image") /\ CallBack(c)
    /\ UNCHANGED <<cookies, up, latest>>

-----------------------------------------------------------------------------
(* send_offline_file                                                       *)

\* upload_offline_file_op: the file is opened, or the failure is posted; the
\* upload starts in both cases.  Of a file that is not open nothing is read.
SendOfflineFile(c) ==
    /\ up /\ call[c].at \in {"idle", "ended"} /\ call[c].posted = 0
    /\ \E opened \in BOOLEAN, n \in 0 .. Blocks :
          /\ opened \/ n = 0
          /\ call' = [call EXCEPT ![c] =
                         [Idle EXCEPT !.op = "file", !.at = "opening",
                                      !.opened = opened, !.left = n,
                                      !.posted = IF opened THEN 0 ELSE 1]]
    /\ UNCHANGED <<cookies, up, latest>>

\* The next block, or the tail.
WriteNext(c) ==
    call' = [call EXCEPT ![c].at = IF call[c].left > 0 THEN "writing" ELSE "tail",
                         ![c].left = IF @ > 0 THEN @ - 1 ELSE 0]

UploadOpens(c) ==
    /\ Returns(c, "opening") /\ (PostFailure(c) \/ WriteNext(c))
    /\ UNCHANGED <<cookies, up, latest>>

BlockWritten(c) ==
    /\ Returns(c, "writing") /\ (PostFailure(c) \/ WriteNext(c))
    /\ UNCHANGED <<cookies, up, latest>>

\* Whether the tail was written is not looked at.
TailWritten(c) ==
    /\ Returns(c, "tail") /\ Goto(c, "reading")
    /\ UNCHANGED <<cookies, up, latest>>

\* The answer names the file, or is a retcode or broken; an error that comes
\* with a complete answer is given to the callback at once.
UploadReturns(c) ==
    /\ Returns(c, "reading")
    /\ Goto(c, "sending") \/ PostFailure(c) \/ CallBack(c)
    /\ UNCHANGED <<cookies, up, latest>>

\* The callback that is called at once throws, inside the try that is there for
\* the parser: the failure is posted as well.
UploadThrows(c) ==
    /\ Returns(c, "reading")
    /\ call' = [call EXCEPT ![c].at = "ended", ![c].called = @ + 1,
                            ![c].posted = @ + 1, ![c].threw = TRUE]
    /\ UNCHANGED <<cookies, up, latest>>

SendReturns(c) ==
    /\ Returns(c, "sending") /\ CallBack(c)
    /\ UNCHANGED <<cookies, up, latest>>

-----------------------------------------------------------------------------
(* The login, and the process                                              *)

\* get_verify_image saves the cookie with or without the image.
LoginImage ==
    /\ up
    /\ \E k \in Tokens \ {latest["verifysession"]} :
          \E lines \in ImageLines(k) : Save(lines, Captcha)
    /\ UNCHANGED <<call, up>>

\* check_login of login_vc_op, the password was accepted.
LoginAccepted ==
    /\ up
    /\ \E k \in Tokens : \E lines \in LoginLines(k) : Save(lines, Login)
    /\ UNCHANGED <<call, up>>

\* The main loop gives the session up.
DropSession ==
    /\ up /\ cookies' = drop_session(cookies)
    /\ latest' = [None EXCEPT !["ptui_loginuin"] = latest["ptui_loginuin"]]
    /\ UNCHANGED <<call, up>>

\* The process dies, or died, and another one starts with the same database,
\* or with none.
Restart ==
    /\ up' = TRUE /\ call' = [c \in Calls |-> Idle]
    /\ \/ UNCHANGED <<cookies, latest>>
       \/ cookies' = {} /\ latest' = None

Step(c) == \/ PostedRuns(c) \/ cb_search_group(c) \/ SearchGarbled(c)
           \/ cb_join_group(c) \/ JoinThrows(c) \/ ImageReturns(c)
           \/ ImageFails(c) \/ UploadOpens(c) \/ BlockWritten(c)
           \/ TailWritten(c) \/ UploadReturns(c) \/ UploadThrows(c)
           \/ SendReturns(c)

Next == \/ \E c \in Calls : Ask(c) \/ SendOfflineFile(c) \/ Step(c)
        \/ LoginImage \/ LoginAccepted \/ DropSession \/ Restart

Spec == Init /\ [][Next]_vars

\* Every request ends with an answer or an error, and what is posted runs.
FairSpec == Spec /\ \A c \in Calls : WF_vars(Step(c))

-----------------------------------------------------------------------------
\* The variables have their types, and a cookie has one row, although the
\* table has no unique key.
TypeOK ==
    /\ \A c \in cookies : c.name \in Names /\ c.value \in Tokens
    /\ \A c, d \in cookies : Key(c) = Key(d) => c = d
    /\ call \in [Calls -> Call] /\ up \in BOOLEAN
    /\ latest \in [Names -> Tokens \cup {NoValue}]

\* Whether a cookie of this name is meant for the host.
MeantFor(name, host) ==
    CASE name \in {"verifysession", "skey"} -> IsSuffix(qq.labels, host)
      [] name = "ptui_loginuin" -> IsSuffix(<<"ptlogin2", "qq", "com">>, host)
      [] name = "pt_login_sig" -> host = Login

\* A request carries of every cookie the value that the service gave last, if
\* it is meant for that host, and nothing else: after images of searches,
\* joins and logins in any order, after removals in the same answer before or
\* behind the new value, sessions given up, and restarts.  So a code that the
\* user types goes with the verifysession of the last image.
CookiesSent ==
    \A r \in Targets :
        get_cookie(cookies, r.host, r.path) =
            {<<n, latest[n]>> :
                n \in {m \in Names : latest[m] # NoValue /\ MeantFor(m, r.host)}}

\* A call is answered once, through images, posts and failures of any part of
\* an upload; and once more for each of two faults: the file could not be
\* opened, and a callback threw inside the try of a join or of an upload's
\* answer.  So an upload with both is answered three times, never more often,
\* and nothing is answered twice without one of them.
CallbackOnce ==
    \A c \in Calls :
        call[c].called + call[c].posted =
            (IF call[c].at = "ended" THEN 1 ELSE 0)
            + (IF call[c].opened THEN 0 ELSE 1)
            + (IF call[c].threw THEN 1 ELSE 0)

\* Every call is answered, unless the process dies.
Answered ==
    \A c \in Calls :
        call[c].at = "asked" \/ call[c].op = "file"
            ~> (call[c].at \in {"idle", "ended"} /\ call[c].posted = 0) \/ ~up
=============================================================================
