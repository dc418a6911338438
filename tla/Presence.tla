------------------------------ MODULE Presence ------------------------------
(***************************************************************************)
(* What the rest of libwebqq may rely on about the two attributes of the   *)
(* WebQQ object that say whether the account is reachable: m_status and    *)
(* whether m_psessionid is empty.  Every other loop reads them; only the   *)
(* login machinery (module Session) and stop() write them.                 *)
(*                                                                         *)
(* The promise: psessionid is never replaced in place.  It becomes         *)
(* non-empty only from empty, and a session that was left (the status is   *)
(* not ONLINE while the psessionid is still there) is not taken up again   *)
(* under the same id: the status returns to ONLINE only after the id was   *)
(* cleared.  Only a new process may begin with any session.  Nothing is    *)
(* promised about QUITTING: it may be overwritten.                         *)
(***************************************************************************)
EXTENDS Naturals

VARIABLES status,      \* WebQQ::m_status
          psessionid,  \* ~WebQQ::m_psessionid.empty()
          crashes      \* history: which process runs

vars == <<status, psessionid, crashes>>

Status == {"OFFLINE", "ONLINE", "QUITTING"}

TypeOK == status \in Status /\ psessionid \in BOOLEAN /\ crashes \in Nat

Init == /\ status \in {"OFFLINE", "ONLINE"} /\ psessionid \in BOOLEAN
        /\ crashes = 0

\* The server's answer to a poll ends the session.
Lost == status' = "OFFLINE" /\ UNCHANGED <<psessionid, crashes>>

\* A login attempt begins by forgetting the session.
Cleared == status' = "OFFLINE" /\ psessionid' = FALSE /\ UNCHANGED crashes

\* The password was accepted; the session id is not there yet.
Authenticated == /\ ~psessionid /\ status' = "ONLINE"
                 /\ UNCHANGED <<psessionid, crashes>>

\* The session id arrives.
Established == /\ ~psessionid /\ psessionid' = TRUE
               /\ status' \in {status, "ONLINE"} /\ UNCHANGED crashes

\* stop(), or a wrong password.
Quit == status' = "QUITTING" /\ UNCHANGED <<psessionid, crashes>>

\* Another process takes over from the cookie jar.
Restarted == /\ crashes' = crashes + 1
             /\ status' \in {"OFFLINE", "ONLINE"} /\ psessionid' \in BOOLEAN

Next == \/ Lost \/ Cleared \/ Authenticated \/ Established \/ Quit
        \/ Restarted

Spec == Init /\ [][Next]_vars
=============================================================================
