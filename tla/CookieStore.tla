------------------------------ MODULE CookieStore ------------------------------
(***************************************************************************)
(* The table of cookies (cookie_store): what a list of Set-Cookie lines    *)
(* does to it, and which cookies go with a request.  The operators take    *)
(* the table and give the new one; module Requests has it as a variable.   *)
(*                                                                         *)
(* A host is the sequence of its labels, and a path of its segments, "/"   *)
(* being the empty one.  A domain is a host with or without a dot before   *)
(* it; one without labels is not given.  An expiration is "session" (no    *)
(* date) or "dated": which date it is decides nothing, because the test    *)
(* for a date in the past is made only where there is no date.  The limit  *)
(* of 100 cookies for a request is left out.                               *)
(***************************************************************************)
EXTENDS Integers, Sequences

NoValue == 0  \* the empty value

Key(c) == <<c.domain, c.path, c.name>>

delete_cookie(t, key) == {c \in t : Key(c) # key}

save_one_Inserts(t, c) == t \cup {c}

\* A row is deleted and inserted, in one transaction.
save_one(t, c) == delete_cookie(t, Key(c)) \cup {c}

\* What a Set-Cookie line leaves out is the host's, and "/".
Completed(c, host) ==
    [c EXCEPT !.domain = IF c.domain.labels = <<>>
                         THEN [dot |-> FALSE, labels |-> host] ELSE c.domain]

\* A line without value deletes, unless an earlier line of the same answer
\* has set this cookie.
SaveLine_AlwaysDeletes(acc, c) ==
    IF c.value = NoValue
    THEN [acc EXCEPT !.table = delete_cookie(acc.table, Key(c))]
    ELSE [table |-> save_one(acc.table, c), inserted |-> acc.inserted \cup {Key(c)}]

SaveLine(acc, c) ==
    IF c.value = NoValue
    THEN IF Key(c) \in acc.inserted THEN acc
         ELSE [acc EXCEPT !.table = delete_cookie(acc.table, Key(c))]
    ELSE [table |-> save_one(acc.table, c), inserted |-> acc.inserted \cup {Key(c)}]

\* What the first k lines of an answer that came from host leave behind.
SaveLines(t, lines, host) ==
    LET after[k \in 0 .. Len(lines)] ==
            IF k = 0 THEN [table |-> t, inserted |-> {}]
            ELSE SaveLine(after[k - 1], Completed(lines[k], host))
    IN  after

save_cookie(t, lines, host) == SaveLines(t, lines, host)[Len(lines)].table

\* The cookies of all domains that no date keeps.
drop_session(t) == {c \in t : c.expiration # "session"}

\* The host and its ends of two labels and more, with and without a dot.
build_domain_conditions(host) ==
    LET suffixes == {SubSeq(host, k, Len(host)) : k \in 1 .. Len(host) - 1}
    IN  [dot : BOOLEAN, labels : suffixes \cup {host}]

\* The path and its beginnings, down to "/".
build_path_conditions(path) == {SubSeq(path, 1, k) : k \in 0 .. Len(path)}

\* The names and values that go with a request.
get_cookie(t, host, path) ==
    {<<c.name, c.value>> :
        c \in {d \in t : /\ d.domain \in build_domain_conditions(host)
                         /\ d.path \in build_path_conditions(path)}}
=============================================================================
