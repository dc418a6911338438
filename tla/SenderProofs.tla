----------------------------- MODULE SenderProofs -----------------------------
(***************************************************************************)
(* Proofs about the group message sender, for a queue of any capacity, any *)
(* number of messages and of crashes, and any behaviour of the main loop   *)
(* that Presence allows: its types, that messages leave in order and once, *)
(* that none disappears but by overwriting, that the newest are kept, and  *)
(* that donecb follows the messages.                                       *)
(***************************************************************************)
EXTENDS Sender, SequenceTheorems, TLAPS

-----------------------------------------------------------------------------
(* The inductive invariant                                                 *)

\* Later items of the queue are younger by at least their distance: the calls
\* between two of them are between them in the queue, or were overwritten.
Spread(s) == \A k, n \in DOMAIN s : k < n => s[n] - s[k] >= n - k

\* Every message of s was sent by the application before all those of t.
Before(s, t) == \A k \in DOMAIN s, n \in DOMAIN t : s[k] < t[n]

\* The queue holds calls in their order, all younger than the messages posted.
QueueInv ==
    /\ Spread(sendq) /\ \A n \in DOMAIN sendq : sendq[n] < nextId
    /\ Increasing(sent) /\ \A n \in DOMAIN sent : sent[n] < nextId
    /\ Before(sent, sendq)

\* A message in hand that was not posted yet is between the two.
HandInv ==
    spc \in {"got", "waitLogin"} =>
        /\ hand < nextId
        /\ Before(sent, <<hand>>) /\ Before(<<hand>>, sendq)

\* A sender waits in async_pop only while there is nothing in the queue, and
\* holds a message everywhere between two waits.
WaitInv ==
    /\ spc = "pop" => sendq = <<>>
    /\ spc \in {"got", "waitLogin", "sending"} => hand \in Messages

IInv == /\ TypeOK /\ QueueInv /\ HandInv /\ WaitInv
        /\ NoSilentLoss /\ NewestKept /\ CallbackIffSent
-----------------------------------------------------------------------------
(* Facts about sequences of messages and the queue                         *)

\* Messages are natural numbers.
LEMMA MessagesNat == Messages \subseteq Nat \ {0}
  BY MaxMsgsAssumption DEF Messages

\* The range of a sequence, by positions.
LEMMA RangeMember ==
    ASSUME NEW s, NEW x
    PROVE  x \in Range(s) <=> \E n \in DOMAIN s : s[n] = x
  BY DEF Range

\* An appended message is last, and is added to the range.
LEMMA AppendMessage ==
    ASSUME NEW s \in Seq(Messages), NEW x \in Messages
    PROVE  /\ Append(s, x) \in Seq(Messages)
           /\ DOMAIN Append(s, x) = DOMAIN s \cup {Len(s) + 1}
           /\ Len(Append(s, x)) = Len(s) + 1
           /\ \A n \in DOMAIN s : Append(s, x)[n] = s[n]
           /\ Append(s, x)[Len(s) + 1] = x
           /\ Range(Append(s, x)) = Range(s) \cup {x}
<1>1. /\ Append(s, x) \in Seq(Messages)
      /\ Len(Append(s, x)) = Len(s) + 1
      /\ \A n \in 1..Len(s) : Append(s, x)[n] = s[n]
      /\ Append(s, x)[Len(s) + 1] = x
  BY AppendProperties
<1>2. DOMAIN s = 1..Len(s) /\ Len(s) \in Nat
  BY LenProperties
<1>3. DOMAIN Append(s, x) = 1..(Len(s) + 1)
  BY <1>1
<1>4. DOMAIN Append(s, x) = DOMAIN s \cup {Len(s) + 1}
  BY <1>2, <1>3
<1>5. Range(Append(s, x)) = Range(s) \cup {x}
  BY <1>1, <1>2, <1>4 DEF Range
<1> QED
  BY <1>1, <1>2, <1>4, <1>5

\* A sequence that is not empty is its head and its tail.
LEMMA HeadAndTail ==
    ASSUME NEW s \in Seq(Messages), s # <<>>
    PROVE  /\ Head(s) = s[1] /\ Head(s) \in Messages
           /\ 1 \in DOMAIN s
           /\ Tail(s) \in Seq(Messages) /\ Len(Tail(s)) = Len(s) - 1
           /\ \A n \in DOMAIN Tail(s) :
                 n + 1 \in DOMAIN s /\ Tail(s)[n] = s[n + 1]
           /\ Range(s) = {Head(s)} \cup Range(Tail(s))
<1>1. /\ Head(s) \in Messages /\ Tail(s) \in Seq(Messages)
      /\ Len(Tail(s)) = Len(s) - 1
      /\ \A n \in 1..Len(Tail(s)) : Tail(s)[n] = s[n + 1]
  BY HeadTailProperties
<1>2. Head(s) = s[1]
  OBVIOUS
<1>3. /\ DOMAIN s = 1..Len(s) /\ Len(s) \in Nat \ {0}
      /\ DOMAIN Tail(s) = 1..(Len(s) - 1)
  BY <1>1
<1>4. \A n \in DOMAIN s : n = 1 \/ (n - 1 \in DOMAIN Tail(s))
  BY <1>3
<1>5. \A n \in DOMAIN Tail(s) : n + 1 \in DOMAIN s /\ Tail(s)[n] = s[n + 1]
  BY <1>1, <1>3
<1>6. Range(s) = {Head(s)} \cup Range(Tail(s))
  <2>1. ASSUME NEW x \in Range(s) PROVE x = Head(s) \/ x \in Range(Tail(s))
    <3>1. PICK n \in DOMAIN s : x = s[n]
      BY DEF Range
    <3>2. CASE n # 1
      <4>1. n - 1 \in DOMAIN Tail(s) /\ (n - 1) + 1 = n
        BY <1>3, <1>4, <3>2
      <4>2. Tail(s)[n - 1] = x
        BY <1>5, <3>1, <4>1
      <4> QED
        BY <4>1, <4>2, RangeMember
    <3> QED
      BY <1>2, <3>1, <3>2
  <2>2. ASSUME NEW x \in Range(Tail(s)) PROVE x \in Range(s)
    BY <1>5 DEF Range
  <2>3. Head(s) \in Range(s)
    BY <1>2, <1>3 DEF Range
  <2> QED
    BY <2>1, <2>2, <2>3
<1> QED
  BY <1>1, <1>2, <1>3, <1>5, <1>6

\* A push keeps the queue within its capacity, the distances of its messages
\* and their age; and what was in the queue is still there or is given up.
LEMMA PushMessage ==
    ASSUME NEW s \in Seq(Messages), Len(s) <= QueueCap, NEW x \in Messages,
           Spread(s), \A n \in DOMAIN s : s[n] < x
    PROVE  LET t == PushBack(s, x, QueueCap)
               o == Overwritten(s, QueueCap)
           IN  /\ t \in Seq(Messages) /\ Len(t) <= QueueCap
               /\ Spread(t) /\ \A n \in DOMAIN t : t[n] < x + 1
               /\ \A n \in DOMAIN t :
                     t[n] = x \/ \E k \in DOMAIN s : t[n] = s[k]
               /\ Range(t) \cup Range(o) = Range(s) \cup {x}
               /\ \A m \in Range(o) : m \in Messages /\ m + QueueCap < x + 1
<1> USE MessagesNat
<1> DEFINE t == PushBack(s, x, QueueCap)
           o == Overwritten(s, QueueCap)
<1>0. DOMAIN s = 1..Len(s) /\ Len(s) \in Nat /\ x \in Nat
      /\ \A n \in DOMAIN s : s[n] \in Nat
  BY LenProperties
<1>c. QueueCap \in Nat /\ QueueCap # 0
  BY QueueCapAssumption
<1>1. CASE Len(s) < QueueCap
  <2>1. t = Append(s, x) /\ o = <<>>
    BY <1>1 DEF PushBack, Overwritten
  <2>2. Range(o) = {}
    BY <2>1 DEF Range
  <2>3. Spread(Append(s, x))
    <3> SUFFICES ASSUME NEW k \in DOMAIN Append(s, x),
                        NEW n \in DOMAIN Append(s, x), k < n
                 PROVE  Append(s, x)[n] - Append(s, x)[k] >= n - k
      BY DEF Spread
    <3>1. k \in DOMAIN s /\ Append(s, x)[k] = s[k]
      BY <1>0, AppendMessage
    <3>2. CASE n \in DOMAIN s
      BY <3>1, <3>2, AppendMessage DEF Spread
    <3>3. CASE n = Len(s) + 1
      <4>1. Append(s, x)[n] = x
        BY <3>3, AppendMessage
      <4>2. CASE k = Len(s)
        BY <1>0, <3>1, <3>3, <4>1, <4>2
      <4>3. CASE k # Len(s)
        <5>1. k < Len(s) /\ Len(s) \in DOMAIN s
          BY <1>0, <3>1, <4>3
        <5>2. s[Len(s)] - s[k] >= Len(s) - k /\ s[Len(s)] < x
          BY <5>1, <3>1 DEF Spread
        <5> QED
          BY <1>0, <3>1, <3>3, <4>1, <5>1, <5>2
      <4> QED
        BY <4>2, <4>3
    <3> QED
      BY <3>2, <3>3, AppendMessage
  <2>4. \A n \in DOMAIN Append(s, x) : Append(s, x)[n] < x + 1
    BY <1>0, AppendMessage
  <2>5. \A n \in DOMAIN Append(s, x) :
           Append(s, x)[n] = x \/ \E k \in DOMAIN s : Append(s, x)[n] = s[k]
    BY AppendMessage
  <2>6. Len(Append(s, x)) <= QueueCap
    BY <1>0, <1>1, <1>c, AppendMessage
  <2> QED
    BY <2>1, <2>2, <2>3, <2>4, <2>5, <2>6, AppendMessage
<1>2. CASE ~(Len(s) < QueueCap)
  <2>1. t = Append(Tail(s), x) /\ o = <<Head(s)>>
    BY <1>2 DEF PushBack, Overwritten
  <2>2. Len(s) = QueueCap /\ s # <<>>
    <3>1. Len(s) = QueueCap
      <4>1. Len(s) \in Nat /\ ~(Len(s) < QueueCap) /\ Len(s) <= QueueCap
        BY <1>0, <1>2
      <4> HIDE DEF t, o
      <4> QED
        BY <4>1, <1>c, SMT
    <3>2. Len(s) # 0
      BY <3>1, <1>c
    <3> QED
      BY <3>1, <3>2
  <2> DEFINE u == Tail(s)
  <2>3. /\ Head(s) = s[1] /\ 1 \in DOMAIN s
        /\ u \in Seq(Messages) /\ Len(u) = Len(s) - 1
        /\ \A n \in DOMAIN u : n + 1 \in DOMAIN s /\ u[n] = s[n + 1]
        /\ Range(s) = {Head(s)} \cup Range(u)
    BY <2>2, HeadAndTail
  <2>4. DOMAIN u = 1..(Len(s) - 1)
    BY <2>3, LenProperties
  <2> HIDE DEF u
  <2>5. /\ Append(u, x) \in Seq(Messages)
        /\ DOMAIN Append(u, x) = DOMAIN u \cup {Len(u) + 1}
        /\ Len(Append(u, x)) = Len(u) + 1
        /\ \A n \in DOMAIN u : Append(u, x)[n] = u[n]
        /\ Append(u, x)[Len(u) + 1] = x
        /\ Range(Append(u, x)) = Range(u) \cup {x}
    BY <2>3, AppendMessage
  <2>6. Spread(Append(u, x))
    <3> SUFFICES ASSUME NEW k \in DOMAIN Append(u, x),
                        NEW n \in DOMAIN Append(u, x), k < n
                 PROVE  Append(u, x)[n] - Append(u, x)[k] >= n - k
      BY DEF Spread
    <3>1. /\ k \in DOMAIN u /\ k \in Nat /\ Append(u, x)[k] = s[k + 1]
          /\ k + 1 \in DOMAIN s
      <4>1. k \in DOMAIN u /\ k \in Nat
        BY <1>0, <2>3, <2>4, <2>5
      <4> QED
        BY <4>1, <2>3, <2>5
    <3>2. CASE n \in DOMAIN u
      <4>1. Append(u, x)[n] = s[n + 1] /\ n + 1 \in DOMAIN s /\ k + 1 < n + 1
        BY <2>3, <2>4, <2>5, <3>1, <3>2
      <4>2. s[n + 1] - s[k + 1] >= (n + 1) - (k + 1)
        BY <3>1, <4>1 DEF Spread
      <4> QED
        BY <1>0, <2>4, <3>1, <3>2, <4>1, <4>2
    <3>3. CASE n = Len(u) + 1
      <4>1. Append(u, x)[n] = x /\ n = Len(s)
        BY <1>0, <2>3, <2>5, <3>3
      <4>2. CASE k + 1 = Len(s)
        <5>1. s[k + 1] \in Nat /\ s[k + 1] < x /\ x \in Nat
          BY <1>0, <3>1
        <5>2. x - s[k + 1] >= n - k
          <6>1. n = k + 1 /\ n \in Nat
            BY <1>0, <4>1, <4>2
          <6> QED
            BY <3>1, <5>1, <6>1
        <5> QED
          BY <3>1, <4>1, <5>2
      <4>3. CASE k + 1 # Len(s)
        <5>1. k + 1 < Len(s) /\ Len(s) \in DOMAIN s
          BY <1>0, <2>2, <3>1, <4>3
        <5>2. s[Len(s)] - s[k + 1] >= Len(s) - (k + 1) /\ s[Len(s)] < x
          BY <5>1, <3>1 DEF Spread
        <5>3. /\ x \in Nat /\ s[Len(s)] \in Nat /\ s[k + 1] \in Nat
              /\ k \in Nat /\ n \in Nat /\ Len(s) \in Nat
          <6>1. Len(s) \in DOMAIN s /\ k + 1 \in DOMAIN s /\ n = Len(s)
            BY <3>1, <4>1, <5>1
          <6> QED
            BY <1>0, <3>1, <6>1
        <5>4. x - s[k + 1] >= n - k
          BY <4>1, <5>2, <5>3
        <5> QED
          BY <3>1, <4>1, <5>4
      <4> QED
        BY <4>2, <4>3
    <3> QED
      BY <2>5, <3>2, <3>3
  <2>7. \A n \in DOMAIN Append(u, x) :
           Append(u, x)[n] = x \/ \E k \in DOMAIN s : Append(u, x)[n] = s[k]
    BY <2>3, <2>5
  <2>8. \A n \in DOMAIN Append(u, x) : Append(u, x)[n] < x + 1
    BY <1>0, <2>7
  <2>9. Range(<<Head(s)>>) = {Head(s)}
    BY DEF Range
  <2>10. Head(s) \in Messages /\ Head(s) + QueueCap < x + 1
    <3>1. Len(s) \in DOMAIN s /\ s[Len(s)] < x
      BY <1>0, <2>2
    <3>2. Len(s) # 1 => s[Len(s)] - s[1] >= Len(s) - 1
      BY <1>0, <2>3, <3>1 DEF Spread
    <3> QED
      BY <1>0, <2>2, <2>3, <3>1, <3>2, ElementOfSeq
  <2>11. Len(Append(u, x)) <= QueueCap
    BY <1>0, <2>2, <2>3, <2>5
  <2>12. t = Append(u, x)
    BY <2>1 DEF u
  <2>13. Range(Append(u, x)) \cup Range(o) = Range(s) \cup {x}
    BY <2>1, <2>3, <2>5, <2>9
  <2> QED
    BY <2>1, <2>5, <2>6, <2>7, <2>8, <2>9, <2>10, <2>11, <2>12, <2>13
<1> QED
  BY <1>1, <1>2
-----------------------------------------------------------------------------
(* Every step keeps the invariant                                          *)

\* A message in hand in front of the queue, as a set.
LEMMA HandRange ==
    ASSUME NEW h \in Messages, NEW q \in Seq(Messages)
    PROVE  Range(<<h>> \o q) = {h} \cup Range(q)
<1>1. <<h>> \in Seq(Messages)
  OBVIOUS
<1>2. Range(<<h>> \o q) = Range(<<h>>) \cup Range(q)
  BY <1>1, RangeConcatenation
<1>3. Range(<<h>>) = {h}
  BY DEF Range
<1> QED
  BY <1>2, <1>3

\* What is pending, as a set.
LEMMA PendingRange ==
    ASSUME TypeOK
    PROVE  /\ spc \in {"got", "waitLogin"} /\ hand \in Messages =>
                 Range(Pending) = {hand} \cup Range(sendq)
           /\ spc \notin {"got", "waitLogin"} => Range(Pending) = Range(sendq)
<1>1. ASSUME spc \in {"got", "waitLogin"}, hand \in Messages
      PROVE  Range(Pending) = {hand} \cup Range(sendq)
  BY <1>1, HandRange DEF Pending, TypeOK
<1> QED
  BY <1>1 DEF Pending

\* What the sender shares with the other loops has its types.
OuterOK == P!TypeOK /\ crashes <= MaxCrashes /\ stopped \in BOOLEAN

\* The initial state, and that of every new process.
LEMMA IdleInv == Idle /\ OuterOK => IInv
<1> SUFFICES ASSUME Idle, OuterOK PROVE IInv
  OBVIOUS
<1> USE DEF OuterOK
<1>1. DOMAIN <<>> = {} /\ Range(<<>>) = {} /\ <<>> \in Seq(Messages)
  BY DEF Range
<1>2. TypeOK
  <2>1. /\ sendq \in Seq(Messages) /\ sent \in Seq(Messages)
        /\ called \in Seq(Messages) /\ lost \in SUBSET Messages
        /\ started \in BOOLEAN
        /\ spc \in {"pop", "got", "waitLogin", "sending", "pause", "done"}
    BY <1>1 DEF Idle
  <2>2. Len(sendq) = 0 /\ hand = 0 /\ nextId = 1
    BY DEF Idle
  <2>3. Len(sendq) <= QueueCap /\ hand \in 0..MaxMsgs /\ nextId \in 1..(MaxMsgs + 1)
    BY <2>2, MaxMsgsAssumption, QueueCapAssumption
  <2> QED
    BY <2>1, <2>3 DEF TypeOK
<1>3. QueueInv /\ HandInv /\ WaitInv /\ NewestKept /\ CallbackIffSent
  BY <1>1 DEF Idle, QueueInv, HandInv, WaitInv, NewestKept, CallbackIffSent,
              Spread, Increasing, Before
<1>4. NoSilentLoss
  <2>1. 1..(nextId - 1) = {} /\ Pending = <<>>
    BY DEF Idle, Pending
  <2> QED
    BY <1>1, <2>1 DEF Idle, NoSilentLoss
<1> QED
  BY <1>2, <1>3, <1>4 DEF IInv

\* A call of send_group_message.
LEMMA SendStep ==
    ASSUME IInv, SendGroupMessage
    PROVE  IInv'
<1> USE MessagesNat
<1>t. /\ TypeOK /\ QueueInv /\ HandInv /\ WaitInv
      /\ NoSilentLoss /\ NewestKept /\ CallbackIffSent
  BY DEF IInv
<1>0. /\ nextId \in Messages /\ nextId \in Nat /\ nextId' = nextId + 1
      /\ nextId' \in 1..(MaxMsgs + 1)
      /\ UNCHANGED <<outer, started, sent, called>>
  BY <1>t, MaxMsgsAssumption DEF SendGroupMessage, TypeOK, Messages
<1>s. \A n \in DOMAIN sent : sent[n] < nextId /\ sent[n] \in Nat
  <2>1. sent \in Seq(Messages) /\ \A n \in DOMAIN sent : sent[n] < nextId
    BY <1>t DEF TypeOK, QueueInv
  <2>2. \A n \in DOMAIN sent : sent[n] \in Messages
    BY <2>1, ElementOfSeq, LenProperties
  <2> QED
    BY <2>1, <2>2
<1>d. 1..(nextId' - 1) = (1..(nextId - 1)) \cup {nextId}
  BY <1>0
<1>1. CASE spc = "pop"
  <2>1. /\ spc' = "got" /\ hand' = nextId /\ sendq = <<>>
        /\ UNCHANGED <<sendq, lost>>
    BY <1>t, <1>1 DEF SendGroupMessage, WaitInv
  <2>2. TypeOK'
    BY <1>t, <1>0, <2>1 DEF TypeOK, P!TypeOK, outer, Messages
  <2>3. QueueInv'
    BY <1>t, <1>0, <1>s, <2>1 DEF QueueInv, Spread, Increasing, Before
  <2>4. HandInv'
    BY <1>0, <1>s, <2>1 DEF HandInv, Before
  <2>5. WaitInv'
    BY <1>0, <2>1 DEF WaitInv, Messages
  <2>6. NoSilentLoss'
    <3>1. Range(Pending) = {} /\ Range(Pending') = {nextId}
      BY <1>1, <2>1 DEF Pending, Range
    <3> QED
      BY <1>t, <1>0, <1>1, <1>d, <2>1, <3>1 DEF NoSilentLoss
  <2>7. NewestKept'
    BY <1>t, <1>0, <2>1, QueueCapAssumption DEF NewestKept, TypeOK
  <2>8. CallbackIffSent'
    BY <1>t, <1>0, <1>1, <2>1 DEF CallbackIffSent
  <2> QED
    BY <2>2, <2>3, <2>4, <2>5, <2>6, <2>7, <2>8 DEF IInv
<1>2. CASE spc # "pop"
  <2>1. /\ sendq' = PushBack(sendq, nextId, QueueCap)
        /\ lost' = lost \cup Range(Overwritten(sendq, QueueCap))
        /\ UNCHANGED <<spc, hand>>
    BY <1>2 DEF SendGroupMessage
  <2>2. /\ sendq \in Seq(Messages) /\ Len(sendq) <= QueueCap /\ Spread(sendq)
        /\ \A n \in DOMAIN sendq : sendq[n] < nextId
    BY <1>t DEF TypeOK, QueueInv
  <2>3. /\ sendq' \in Seq(Messages) /\ Len(sendq') <= QueueCap
        /\ Spread(sendq') /\ \A n \in DOMAIN sendq' : sendq'[n] < nextId'
        /\ \A n \in DOMAIN sendq' :
              sendq'[n] = nextId \/ \E k \in DOMAIN sendq : sendq'[n] = sendq[k]
        /\ Range(sendq') \cup Range(Overwritten(sendq, QueueCap))
              = Range(sendq) \cup {nextId}
        /\ \A m \in Range(Overwritten(sendq, QueueCap)) :
              m \in Messages /\ m + QueueCap < nextId'
    BY <1>0, <2>1, <2>2, PushMessage
  <2>4. TypeOK'
    BY <1>t, <1>0, <2>1, <2>3 DEF TypeOK, P!TypeOK, outer
  <2>5. QueueInv'
    <3>1. Before(sent', sendq')
      BY <1>t, <1>0, <1>s, <2>3 DEF QueueInv, Before
    <3>2. \A n \in DOMAIN sent' : sent'[n] < nextId'
      BY <1>0, <1>s
    <3>3. Spread(sendq)' /\ \A n \in DOMAIN sendq' : sendq'[n] < nextId'
      BY <2>3 DEF Spread
    <3>4. Increasing(sent)'
      BY <1>t, <1>0 DEF QueueInv, Increasing
    <3> QED
      BY <3>1, <3>2, <3>3, <3>4 DEF QueueInv, Before
  <2>6. HandInv'
    <3> SUFFICES ASSUME spc \in {"got", "waitLogin"}
                 PROVE  /\ hand < nextId' /\ Before(sent, <<hand>>)
                        /\ Before(<<hand>>, sendq')
      BY <1>0, <2>1 DEF HandInv, Before
    <3>1. /\ hand < nextId /\ Before(sent, <<hand>>) /\ Before(<<hand>>, sendq)
          /\ hand \in Messages
      BY <1>t DEF HandInv, WaitInv
    <3>2. \A n \in DOMAIN sendq : hand < sendq[n]
      BY <3>1 DEF Before
    <3>3. \A n \in DOMAIN sendq' : hand < sendq'[n]
      BY <2>3, <3>1, <3>2
    <3>4. Before(<<hand>>, sendq')
      BY <3>3 DEF Before
    <3> QED
      BY <1>0, <3>1, <3>4
  <2>7. WaitInv'
    BY <1>t, <1>2, <2>1 DEF WaitInv
  <2>8. NoSilentLoss'
    <3> SUFFICES ASSUME spc # "done"
                 PROVE  1..(nextId' - 1) =
                            Range(sent) \cup Range(Pending') \cup lost'
      BY <1>0, <2>1 DEF NoSilentLoss
    <3>1. 1..(nextId - 1) = Range(sent) \cup Range(Pending) \cup lost
      BY <1>t DEF NoSilentLoss
    <3>2. CASE spc \in {"got", "waitLogin"}
      <4>1. hand \in Messages /\ spc' \in {"got", "waitLogin"}
        BY <1>t, <2>1, <3>2 DEF WaitInv
      <4>2. Range(Pending) = {hand} \cup Range(sendq)
        BY <1>t, <3>2, <4>1, PendingRange
      <4>3. Range(Pending') = {hand} \cup Range(sendq')
        BY <2>1, <2>3, <3>2, <4>1, HandRange DEF Pending
      <4> QED
        BY <1>d, <2>1, <2>3, <3>1, <4>2, <4>3
    <3>3. CASE spc \notin {"got", "waitLogin"}
      <4>1. Pending = sendq /\ Pending' = sendq'
        BY <2>1, <3>3 DEF Pending
      <4> QED
        BY <1>d, <2>1, <2>3, <3>1, <4>1
    <3> QED
      BY <3>2, <3>3
  <2>9. NewestKept'
    BY <1>t, <1>0, <2>1, <2>3, QueueCapAssumption DEF NewestKept, TypeOK
  <2>10. CallbackIffSent'
    BY <1>t, <1>0, <2>1 DEF CallbackIffSent
  <2> QED
    BY <2>4, <2>5, <2>6, <2>7, <2>8, <2>9, <2>10 DEF IInv
<1> QED
  BY <1>1, <1>2
\* The post of the message in hand: it goes from what is pending to what was
\* sent, and stays between the older and the younger ones.
LEMMA PostStep ==
    ASSUME IInv, spc \in {"got", "waitLogin"}, Post, started' \in BOOLEAN,
           UNCHANGED <<outer, sendq, hand, called, lost, nextId>>
    PROVE  IInv'
<1> USE MessagesNat
<1>t. /\ TypeOK /\ QueueInv /\ HandInv /\ WaitInv
      /\ NoSilentLoss /\ NewestKept /\ CallbackIffSent
  BY DEF IInv
<1>0. /\ spc' = "sending" /\ sent' = Append(sent, hand)
      /\ UNCHANGED <<outer, sendq, hand, called, lost, nextId>>
  BY DEF Post
<1>1. /\ hand \in Messages /\ hand \in Nat /\ hand < nextId
      /\ sent \in Seq(Messages) /\ Len(sent) \in Nat /\ DOMAIN sent = 1..Len(sent)
  BY <1>t, LenProperties DEF TypeOK, HandInv, WaitInv
<1>2. /\ \A n \in DOMAIN sent : sent[n] < hand
      /\ \A n \in DOMAIN sendq : hand < sendq[n]
  BY <1>t DEF HandInv, Before
<1>3. /\ sent' \in Seq(Messages) /\ DOMAIN sent' = DOMAIN sent \cup {Len(sent) + 1}
      /\ \A n \in DOMAIN sent : sent'[n] = sent[n]
      /\ sent'[Len(sent) + 1] = hand
      /\ Range(sent') = Range(sent) \cup {hand}
  BY <1>0, <1>1, AppendMessage
<1>4. TypeOK'
  BY <1>t, <1>0, <1>3 DEF TypeOK, P!TypeOK, outer
<1>5. QueueInv'
  <2>1. Increasing(sent')
    <3> SUFFICES ASSUME NEW k \in DOMAIN sent', NEW n \in DOMAIN sent', k < n
                 PROVE  sent'[k] < sent'[n]
      BY DEF Increasing
    <3>1. k \in DOMAIN sent /\ sent'[k] = sent[k]
      BY <1>1, <1>3
    <3>2. CASE n \in DOMAIN sent
      BY <1>t, <1>3, <3>1, <3>2 DEF QueueInv, Increasing
    <3>3. CASE n = Len(sent) + 1
      BY <1>2, <1>3, <3>1, <3>3
    <3> QED
      BY <1>3, <3>2, <3>3
  <2>2. \A n \in DOMAIN sent' : sent'[n] < nextId'
    BY <1>t, <1>0, <1>1, <1>3 DEF QueueInv
  <2>3. Before(sent', sendq')
    BY <1>t, <1>0, <1>2, <1>3 DEF QueueInv, Before
  <2>4. Spread(sendq)' /\ \A n \in DOMAIN sendq' : sendq'[n] < nextId'
    BY <1>t, <1>0 DEF QueueInv, Spread
  <2> QED
    BY <2>1, <2>2, <2>3, <2>4 DEF QueueInv, Increasing, Before
<1>6. HandInv' /\ WaitInv'
  BY <1>0, <1>1 DEF HandInv, WaitInv
<1>7. NoSilentLoss'
  <2>1. 1..(nextId - 1) = Range(sent) \cup Range(Pending) \cup lost
    BY <1>t DEF NoSilentLoss
  <2>2. Range(Pending) = {hand} \cup Range(sendq)
    BY <1>t, <1>1, PendingRange
  <2>3. Pending' = sendq'
    BY <1>0 DEF Pending
  <2> QED
    BY <1>0, <1>3, <2>1, <2>2, <2>3 DEF NoSilentLoss
<1>8. NewestKept'
  BY <1>t, <1>0 DEF NewestKept
<1>9. CallbackIffSent'
  BY <1>t, <1>0 DEF CallbackIffSent
<1> QED
  BY <1>4, <1>5, <1>6, <1>7, <1>8, <1>9 DEF IInv

\* The next message is taken from the queue after the pause.
LEMMA TakeStep ==
    ASSUME IInv, PauseOver
    PROVE  IInv'
<1> USE MessagesNat
<1>t. /\ TypeOK /\ QueueInv /\ HandInv /\ WaitInv
      /\ NoSilentLoss /\ NewestKept /\ CallbackIffSent
  BY DEF IInv
<1>0. /\ spc = "pause" /\ UNCHANGED <<outer, started, sent, called, lost, nextId>>
  BY DEF PauseOver
<1>p. Pending = sendq
  BY <1>0 DEF Pending
<1>1. CASE sendq = <<>>
  <2>1. spc' = "pop" /\ UNCHANGED <<sendq, hand>>
    BY <1>1 DEF PauseOver
  <2>2. TypeOK'
    BY <1>t, <1>0, <2>1 DEF TypeOK, P!TypeOK, outer
  <2>3. QueueInv' /\ HandInv' /\ WaitInv'
    BY <1>t, <1>0, <1>1, <2>1
    DEF QueueInv, HandInv, WaitInv, Spread, Increasing, Before
  <2>4. NoSilentLoss'
    <3>1. Pending' = sendq
      BY <2>1 DEF Pending
    <3> QED
      BY <1>t, <1>0, <1>p, <2>1, <3>1 DEF NoSilentLoss
  <2>5. NewestKept' /\ CallbackIffSent'
    BY <1>t, <1>0, <2>1 DEF NewestKept, CallbackIffSent
  <2> QED
    BY <2>2, <2>3, <2>4, <2>5 DEF IInv
<1>2. CASE sendq # <<>>
  <2>1. /\ spc' = "got" /\ hand' = Head(sendq) /\ sendq' = Tail(sendq)
    BY <1>2 DEF PauseOver
  <2>2. /\ hand' = sendq[1] /\ hand' \in Messages /\ 1 \in DOMAIN sendq
        /\ sendq' \in Seq(Messages) /\ Len(sendq') = Len(sendq) - 1
        /\ \A n \in DOMAIN sendq' : n + 1 \in DOMAIN sendq /\ sendq'[n] = sendq[n + 1]
        /\ Range(sendq) = {hand'} \cup Range(sendq')
    BY <1>t, <1>2, <2>1, HeadAndTail DEF TypeOK
  <2>3. /\ DOMAIN sendq' \subseteq Nat \ {0}
        /\ Len(sendq) \in Nat /\ Len(sendq) <= QueueCap
        /\ \A n \in DOMAIN sendq : sendq[n] \in Nat
    <3>1. DOMAIN sendq' = 1..Len(sendq') /\ Len(sendq') \in Nat
      BY <2>2, LenProperties
    <3>2. \A n \in DOMAIN sendq : sendq[n] \in Messages
      BY <1>t, ElementOfSeq, LenProperties DEF TypeOK
    <3> QED
      <4>1. Len(sendq) \in Nat /\ Len(sendq) <= QueueCap
        BY <1>t, LenProperties DEF TypeOK
      <4>2. DOMAIN sendq' \subseteq Nat \ {0}
        BY <3>1
      <4> QED
        BY <3>2, <4>1, <4>2
  <2>4. TypeOK'
    <3>1. Len(sendq') <= QueueCap
      BY <2>2, <2>3, QueueCapAssumption
    <3>2. hand' \in 0..MaxMsgs
      BY <2>2, MaxMsgsAssumption DEF Messages
    <3> QED
      BY <1>t, <1>0, <2>1, <2>2, <3>1, <3>2 DEF TypeOK, P!TypeOK, outer
  <2>5. QueueInv'
    <3>1. Spread(sendq')
      <4> SUFFICES ASSUME NEW k \in DOMAIN sendq', NEW n \in DOMAIN sendq', k < n
                   PROVE  sendq'[n] - sendq'[k] >= n - k
        BY DEF Spread
      <4>1. /\ k + 1 \in DOMAIN sendq /\ n + 1 \in DOMAIN sendq
            /\ sendq'[k] = sendq[k + 1] /\ sendq'[n] = sendq[n + 1]
            /\ k \in Nat /\ n \in Nat
        BY <2>2, <2>3
      <4>2. sendq[n + 1] - sendq[k + 1] >= (n + 1) - (k + 1)
        BY <1>t, <4>1 DEF QueueInv, Spread
      <4> QED
        BY <4>1, <4>2
    <3>2. \A n \in DOMAIN sendq' : sendq'[n] < nextId'
      BY <1>t, <1>0, <2>2 DEF QueueInv
    <3>3. Before(sent', sendq')
      BY <1>t, <1>0, <2>2 DEF QueueInv, Before
    <3>4. Increasing(sent)' /\ \A n \in DOMAIN sent' : sent'[n] < nextId'
      BY <1>t, <1>0 DEF QueueInv, Increasing
    <3> QED
      BY <3>1, <3>2, <3>3, <3>4 DEF QueueInv, Spread, Before
  <2>6. HandInv'
    <3>1. hand' < nextId' /\ \A n \in DOMAIN sent' : sent'[n] < hand'
      BY <1>t, <1>0, <2>2 DEF QueueInv, Before
    <3>2. \A n \in DOMAIN sendq' : hand' < sendq'[n]
      <4> SUFFICES ASSUME NEW n \in DOMAIN sendq' PROVE hand' < sendq'[n]
        OBVIOUS
      <4>1. /\ n \in Nat /\ 1 < n + 1 /\ n + 1 \in DOMAIN sendq
            /\ sendq'[n] = sendq[n + 1] /\ 1 \in DOMAIN sendq
        BY <2>2, <2>3
      <4>2. sendq[n + 1] - sendq[1] >= (n + 1) - 1
        BY <1>t, <4>1 DEF QueueInv, Spread
      <4> QED
        BY <2>2, <2>3, <4>1, <4>2
    <3> QED
      BY <3>1, <3>2 DEF HandInv, Before
  <2>7. WaitInv'
    BY <2>1, <2>2 DEF WaitInv
  <2>8. NoSilentLoss'
    <3>1. Range(Pending') = {hand'} \cup Range(sendq')
      BY <2>1, <2>2, HandRange DEF Pending
    <3> QED
      BY <1>t, <1>0, <1>p, <2>1, <2>2, <3>1 DEF NoSilentLoss
  <2>9. NewestKept' /\ CallbackIffSent'
    BY <1>t, <1>0, <2>1 DEF NewestKept, CallbackIffSent
  <2> QED
    BY <2>4, <2>5, <2>6, <2>7, <2>8, <2>9 DEF IInv
<1> QED
  BY <1>1, <1>2

\* stop() and the main loop touch neither the queue nor the messages; only a
\* sender in async_pop goes, and it holds none.
LEMMA OuterStep ==
    ASSUME IInv, P!TypeOK', stopped' \in BOOLEAN, crashes' <= MaxCrashes,
           spc' = spc \/ (spc = "pop" /\ spc' = "done"),
           UNCHANGED <<sendq, started, hand, sent, called, lost, nextId>>
    PROVE  IInv'
<1>t. /\ TypeOK /\ QueueInv /\ HandInv /\ WaitInv
      /\ NoSilentLoss /\ NewestKept /\ CallbackIffSent
  BY DEF IInv
<1>1. TypeOK'
  BY <1>t DEF TypeOK
<1>2. QueueInv' /\ HandInv' /\ WaitInv'
  BY <1>t DEF QueueInv, HandInv, WaitInv, Spread, Increasing, Before
<1>3. NoSilentLoss'
  BY <1>t DEF NoSilentLoss, Pending
<1>4. NewestKept' /\ CallbackIffSent'
  BY <1>t DEF NewestKept, CallbackIffSent
<1> QED
  BY <1>1, <1>2, <1>3, <1>4 DEF IInv
\* Every step keeps the invariant.
LEMMA InvariantStep == IInv /\ [Next]_vars => IInv'
<1> SUFFICES ASSUME IInv, [Next]_vars PROVE IInv'
  OBVIOUS
<1>t. /\ TypeOK /\ QueueInv /\ HandInv /\ WaitInv
      /\ NoSilentLoss /\ NewestKept /\ CallbackIffSent
  BY DEF IInv
<1>a. P!TypeOK /\ stopped \in BOOLEAN /\ crashes <= MaxCrashes
  BY <1>t DEF TypeOK
<1>1. CASE SendGroupMessage
  BY <1>1, SendStep
<1>2. CASE MessageArrives
  <2>1. /\ spc = "got" /\ started' = TRUE
        /\ UNCHANGED <<outer, sendq, hand, called, lost, nextId>>
    BY <1>2 DEF MessageArrives
  <2>2. CASE Post
    BY <2>1, <2>2, PostStep
  <2>3. CASE spc' \in {"waitLogin", "done"} /\ UNCHANGED sent
    <3>1. TypeOK'
      BY <1>t, <2>1, <2>3 DEF TypeOK, P!TypeOK, outer
    <3>2. QueueInv' /\ HandInv' /\ WaitInv'
      BY <1>t, <2>1, <2>3
      DEF QueueInv, HandInv, WaitInv, Spread, Increasing, Before
    <3>3. NoSilentLoss'
      BY <1>t, <2>1, <2>3 DEF NoSilentLoss, Pending
    <3>4. NewestKept' /\ CallbackIffSent'
      BY <1>t, <2>1, <2>3 DEF NewestKept, CallbackIffSent
    <3> QED
      BY <3>1, <3>2, <3>3, <3>4 DEF IInv
  <2> QED
    BY <1>2, <2>2, <2>3 DEF MessageArrives
<1>3. CASE LoginSeen
  <2>1. /\ spc \in {"got", "waitLogin"} /\ started' \in BOOLEAN /\ Post
        /\ UNCHANGED <<outer, sendq, hand, called, lost, nextId>>
    BY <1>t, <1>3 DEF LoginSeen, TypeOK
  <2> QED
    BY <2>1, PostStep
<1>4. CASE PostReturns
  <2>1. /\ spc = "sending" /\ spc' = "pause" /\ called' = Append(called, hand)
        /\ UNCHANGED <<outer, sendq, started, hand, sent, lost, nextId>>
    BY <1>4 DEF PostReturns
  <2>2. called' = sent /\ sent \in Seq(Messages)
    BY <1>t, <2>1 DEF CallbackIffSent, TypeOK
  <2>3. TypeOK'
    BY <1>t, <2>1, <2>2 DEF TypeOK, P!TypeOK, outer
  <2>4. QueueInv' /\ HandInv' /\ WaitInv'
    BY <1>t, <2>1 DEF QueueInv, HandInv, WaitInv, Spread, Increasing, Before
  <2>5. NoSilentLoss'
    BY <1>t, <2>1 DEF NoSilentLoss, Pending
  <2>6. NewestKept' /\ CallbackIffSent'
    BY <1>t, <2>1, <2>2 DEF NewestKept, CallbackIffSent
  <2> QED
    BY <2>3, <2>4, <2>5, <2>6 DEF IInv
<1>5. CASE PauseOver
  BY <1>5, TakeStep
<1>6. CASE Stop
  <2>1. /\ P!TypeOK' /\ stopped' \in BOOLEAN /\ crashes' <= MaxCrashes
    BY <1>a, <1>6 DEF Stop, P!TypeOK, P!Status
  <2>2. /\ spc' = spc \/ (spc = "pop" /\ spc' = "done")
        /\ UNCHANGED <<sendq, started, hand, sent, called, lost, nextId>>
    BY <1>6 DEF Stop, Cancelled
  <2> QED
    BY <2>1, <2>2, OuterStep
<1>7. CASE Restart
  <2>1. Idle'
    BY <1>7 DEF Restart, Fresh, Idle
  <2>2. P!TypeOK' /\ stopped' \in BOOLEAN
    <3>1. /\ status' \in {"OFFLINE", "ONLINE"} /\ psessionid' \in BOOLEAN
          /\ crashes' = crashes + 1 /\ stopped' = FALSE /\ crashes \in Nat
      BY <1>a, <1>7 DEF Restart, P!Restarted, P!TypeOK
    <3>2. status' \in P!Status /\ crashes' \in Nat
      BY <3>1 DEF P!Status
    <3> QED
      BY <3>1, <3>2 DEF P!TypeOK
  <2>3. crashes' <= MaxCrashes
    BY <1>a, <1>7, SenderCrashesAssumption DEF Restart, P!Restarted, P!TypeOK
  <2> QED
    <3>1. OuterOK'
      BY <2>2, <2>3 DEF OuterOK, P!TypeOK, P!Status
    <3> QED
      BY <2>1, <3>1, IdleInv, PTL
<1>8. CASE MainLoop
  <2>1. /\ crashes' = crashes /\ stopped' = stopped
        /\ UNCHANGED <<sendq, spc, started, hand, sent, called, lost, nextId>>
    BY <1>8 DEF MainLoop, local, P!Lost, P!Cleared, P!Authenticated,
                P!Established, P!Quit
  <2>2. P!TypeOK'
    BY <1>a, <1>8 DEF MainLoop, P!Lost, P!Cleared, P!Authenticated,
                      P!Established, P!Quit, P!TypeOK, P!Status
  <2> QED
    BY <1>a, <2>1, <2>2, OuterStep
<1>9. CASE UNCHANGED vars
  BY <1>a, <1>9, OuterStep DEF vars, outer, local, P!TypeOK
<1> QED
  BY <1>1, <1>2, <1>3, <1>4, <1>5, <1>6, <1>7, <1>8, <1>9 DEF Next, Loop

LEMMA InvariantInit == Init => IInv
<1> SUFFICES ASSUME Init PROVE IInv
  OBVIOUS
<1>1. P!TypeOK /\ crashes <= MaxCrashes /\ stopped \in BOOLEAN
  <2>1. /\ status \in {"OFFLINE", "ONLINE"} /\ psessionid \in BOOLEAN
        /\ crashes = 0 /\ stopped = FALSE
    BY DEF Init, P!Init
  <2>2. status \in P!Status /\ crashes \in Nat /\ crashes <= MaxCrashes
    BY <2>1, SenderCrashesAssumption DEF P!Status
  <2> QED
    BY <2>1, <2>2 DEF P!TypeOK
<1> QED
  BY <1>1, IdleInv DEF Init, OuterOK

-----------------------------------------------------------------------------
(* The theorems                                                            *)

\* Every behaviour of the sender keeps the inductive invariant.
THEOREM Invariant == Spec => []IInv
  BY InvariantInit, InvariantStep, PTL DEF Spec

\* The variables have their types and the queue keeps its capacity.
THEOREM TypeCorrect == Spec => []TypeOK
<1>1. IInv => TypeOK
  BY DEF IInv
<1> QED
  BY <1>1, Invariant, PTL

\* Two increasing sequences, one before the other, are increasing in a row.
LEMMA IncreasingConcat ==
    ASSUME NEW s \in Seq(Messages), NEW t \in Seq(Messages),
           Increasing(s), Increasing(t), Before(s, t)
    PROVE  Increasing(s \o t)
<1> SUFFICES ASSUME NEW k \in DOMAIN (s \o t), NEW n \in DOMAIN (s \o t), k < n
             PROVE  (s \o t)[k] < (s \o t)[n]
  BY DEF Increasing
<1>1. /\ s \o t \in Seq(Messages) /\ Len(s \o t) = Len(s) + Len(t)
      /\ Len(s) \in Nat /\ Len(t) \in Nat
      /\ DOMAIN s = 1..Len(s) /\ DOMAIN t = 1..Len(t)
  BY ConcatProperties, LenProperties
<1>2. k \in 1..(Len(s) + Len(t)) /\ n \in 1..(Len(s) + Len(t))
  BY <1>1, LenProperties
<1>3. \A m \in 1..(Len(s) + Len(t)) :
         (s \o t)[m] = IF m <= Len(s) THEN s[m] ELSE t[m - Len(s)]
  BY ConcatProperties
<1>4. CASE n <= Len(s)
  <2>1. k \in DOMAIN s /\ n \in DOMAIN s /\ k <= Len(s)
    BY <1>1, <1>2, <1>4
  <2> QED
    BY <1>2, <1>3, <1>4, <2>1 DEF Increasing
<1>5. CASE k <= Len(s) /\ ~(n <= Len(s))
  <2>1. k \in DOMAIN s /\ n - Len(s) \in DOMAIN t
    BY <1>1, <1>2, <1>5
  <2> QED
    BY <1>2, <1>3, <1>5, <2>1 DEF Before
<1>6. CASE ~(k <= Len(s))
  <2>1. /\ k - Len(s) \in DOMAIN t /\ n - Len(s) \in DOMAIN t
        /\ k - Len(s) < n - Len(s) /\ ~(n <= Len(s))
    BY <1>1, <1>2, <1>6
  <2> QED
    BY <1>2, <1>3, <1>6, <2>1 DEF Increasing
<1> QED
  BY <1>1, <1>2, <1>4, <1>5, <1>6

\* Messages leave in the order of the calls and each at most once, over lost
\* sessions, overwritten messages and waits for a login.
THEOREM OrderKept == Spec => []InOrderOnce
<1>1. IInv => InOrderOnce
  <2> SUFFICES ASSUME IInv PROVE Increasing(sent \o Pending)
    BY DEF InOrderOnce
  <2>t. TypeOK /\ QueueInv /\ HandInv /\ WaitInv
    BY DEF IInv
  <2>1. /\ sent \in Seq(Messages) /\ sendq \in Seq(Messages)
        /\ Increasing(sent) /\ Before(sent, sendq)
    BY <2>t DEF TypeOK, QueueInv
  <2>2. Increasing(sendq)
    <3>1. \A n \in DOMAIN sendq : n \in Nat /\ sendq[n] \in Nat
      <4>1. DOMAIN sendq = 1..Len(sendq) /\ Len(sendq) \in Nat
        BY <2>1, LenProperties
      <4>2. \A n \in DOMAIN sendq : sendq[n] \in Messages
        BY <2>1, <4>1, ElementOfSeq
      <4> QED
        <5>1. \A n \in DOMAIN sendq : sendq[n] \in Nat
          BY <4>2, MessagesNat
        <5> QED
          BY <4>1, <5>1
    <3> QED
      BY <2>t, <3>1 DEF QueueInv, Spread, Increasing
  <2>3. CASE spc \in {"got", "waitLogin"}
    <3>1. /\ hand \in Messages /\ Before(sent, <<hand>>) /\ Before(<<hand>>, sendq)
      BY <2>3, <2>t DEF HandInv, WaitInv
    <3>2. <<hand>> \in Seq(Messages) /\ Increasing(<<hand>>)
      BY <3>1 DEF Increasing
    <3>3. /\ Pending = <<hand>> \o sendq /\ Increasing(<<hand>> \o sendq)
          /\ <<hand>> \o sendq \in Seq(Messages)
      <4>1. Increasing(<<hand>> \o sendq)
        BY <2>1, <2>2, <3>1, <3>2, IncreasingConcat
      <4>2. <<hand>> \o sendq \in Seq(Messages)
        BY <2>1, <3>2, ConcatProperties
      <4> QED
        BY <2>3, <4>1, <4>2 DEF Pending
    <3>4. Before(sent, <<hand>> \o sendq)
      <4>1. \A n \in DOMAIN (<<hand>> \o sendq) :
               (<<hand>> \o sendq)[n] = hand
               \/ \E k \in DOMAIN sendq : (<<hand>> \o sendq)[n] = sendq[k]
        <5>1. Range(<<hand>> \o sendq) = {hand} \cup Range(sendq)
          BY <2>1, <3>1, HandRange
        <5> QED
          BY <5>1 DEF Range
      <4>2. \A n \in DOMAIN sent : sent[n] < hand
        BY <3>1 DEF Before
      <4> QED
        BY <2>1, <4>1, <4>2 DEF Before
    <3> QED
      BY <2>1, <3>3, <3>4, IncreasingConcat
  <2>4. CASE spc \notin {"got", "waitLogin"}
    BY <2>1, <2>2, <2>4, IncreasingConcat DEF Pending
  <2> QED
    BY <2>3, <2>4
<1> QED
  BY <1>1, Invariant, PTL

\* Only a full queue makes a message disappear.
THEOREM NothingVanishes == Spec => []NoSilentLoss
<1>1. IInv => NoSilentLoss
  BY DEF IInv
<1> QED
  BY <1>1, Invariant, PTL

\* A message is given up only for as many newer ones as the queue holds.
THEOREM NewestStay == Spec => []NewestKept
<1>1. IInv => NewestKept
  BY DEF IInv
<1> QED
  BY <1>1, Invariant, PTL

\* donecb is called once for every message posted, in their order.
THEOREM CallbacksFollow == Spec => []CallbackIffSent
<1>1. IInv => CallbackIffSent
  BY DEF IInv
<1> QED
  BY <1>1, Invariant, PTL
===============================================================================
