---------------------------- MODULE Device_proofs ----------------------------
(* Proofs about Device for every queue length, every set of readings and any *)
(* number of commands, lost sessions and restarts.                           *)
EXTENDS Device, SequenceTheorems, WellFoundedInduction, TLAPS

(***************************************************************************)
(* The inductive invariant: where the last command is.                     *)
(***************************************************************************)

Words ==
    /\ inbox \in Seq(FanPackets)
    /\ command \in FanPackets \cup {"none"}
    /\ MOTOR_ON \in BOOLEAN
    /\ skipped \in BOOLEAN
    /\ session \in {"offline", "accepted", "subscribing", "subscribed"}

\* Before the server has spoken the device has nothing to obey.
Unspoken == command = "none" => ~MOTOR_ON /\ inbox = <<>>

\* Only a subscribed session carries commands.
Carried == session \in {"offline", "accepted"} => inbox = <<>>

\* Of the commands on their way the last is the one the broker keeps.
LastIsCommand == inbox # <<>> => inbox[Len(inbox)] = command

\* The broker has sent what it keeps with the subscription.
Resent == session = "subscribing" /\ command # "none" => inbox # <<>>

IInv == Words /\ Unspoken /\ Carried /\ LastIsCommand /\ Resent /\ DeviceFollowsServer

(***************************************************************************)
(* Every step.                                                             *)
(***************************************************************************)

LEMMA TailLast ==
    ASSUME NEW s \in Seq(FanPackets), s # <<>>
    PROVE  /\ Tail(s) \in Seq(FanPackets) /\ Head(s) \in FanPackets
           /\ Tail(s) # <<>> => Tail(s)[Len(Tail(s))] = s[Len(s)]
           /\ Tail(s) = <<>> => Head(s) = s[Len(s)]
<1>1. Len(s) \in Nat \ {0} /\ Head(s) = s[1]
  BY EmptySeq, HeadTailProperties
<1>2. Tail(s) \in Seq(FanPackets) /\ Len(Tail(s)) = Len(s) - 1 /\ Head(s) \in FanPackets
  BY HeadTailProperties
<1>3. \A n \in 1 .. Len(Tail(s)) : Tail(s)[n] = s[n + 1]
  BY HeadTailProperties
<1>4. ASSUME Tail(s) # <<>> PROVE Tail(s)[Len(Tail(s))] = s[Len(s)]
  <2>1. Len(Tail(s)) # 0
    BY <1>2, <1>4, EmptySeq
  <2>2. Len(Tail(s)) \in 1 .. Len(Tail(s))
    BY <1>1, <1>2, <2>1
  <2> QED BY <1>1, <1>2, <1>3, <2>2
<1>5. Len(s) # 1 => Tail(s) # <<>>
  <2>1. Len(s) # 1 => Len(Tail(s)) # 0
    BY <1>1, <1>2
  <2>2. Len(<<>>) = 0
    BY EmptySeq, Zenon
  <2> QED BY <2>1, <2>2, Zenon
<1> QED BY <1>1, <1>2, <1>4, <1>5

LEMMA AppendLast ==
    ASSUME NEW s \in Seq(FanPackets), NEW c \in FanPackets
    PROVE  /\ Append(s, c) \in Seq(FanPackets)
           /\ Append(s, c) # <<>>
           /\ Append(s, c)[Len(Append(s, c))] = c
BY AppendProperties

LEMMA InitIInv == Init => IInv
<1> SUFFICES ASSUME Init PROVE IInv
  OBVIOUS
<1>1. MOTOR_ON = FALSE /\ session = "offline" /\ inbox = <<>> /\ skipped = FALSE
      /\ command = "none"
  BY DEF Init, F!Init, S!Init
<1>2. inbox \in Seq(FanPackets)
  BY <1>1, EmptySeq
<1> QED BY <1>1, <1>2 DEF IInv, Words, Unspoken, Carried, LastIsCommand, Resent,
                         DeviceFollowsServer

\* Nothing the fan control decides touches a command.
LEMMA TickStep == IInv /\ (GoodTick \/ BadTick) => IInv'
<1> SUFFICES ASSUME IInv, GoodTick \/ BadTick PROVE IInv'
  OBVIOUS
<1>1. UNCHANGED <<MOTOR_ON, session, command, inbox, skipped>>
  BY DEF GoodTick, BadTick, Tick, F!read_DHT, F!settings, broker
<1> QED BY <1>1 DEF IInv, Words, Unspoken, Carried, LastIsCommand, Resent,
                    DeviceFollowsServer

LEMMA SessionStep ==
    IInv /\ (Accept \/ Refuse \/ Lose \/ Subscribed \/ SessionEnds) => IInv'
<1> SUFFICES ASSUME IInv, Accept \/ Refuse \/ Lose \/ Subscribed \/ SessionEnds
             PROVE  IInv'
  OBVIOUS
<1> USE DEF IInv, Words, Unspoken, Carried, LastIsCommand, Resent, DeviceFollowsServer,
            broker, fan, history
<1>1. CASE Accept
  BY <1>1 DEF Accept, SessionStarts, S!Accept
<1>5. CASE Refuse
  BY <1>5 DEF Refuse, SessionStarts, S!Refuse
<1>2. CASE Lose
  BY <1>2 DEF Lose, S!Lose
<1>3. CASE Subscribed
  BY <1>3 DEF Subscribed, S!Subscribed
<1>4. CASE SessionEnds
  BY <1>4 DEF SessionEnds, S!End
<1> QED BY <1>1, <1>2, <1>3, <1>4, <1>5

LEMMA DeliverStep == IInv /\ Deliver => IInv'
<1> SUFFICES ASSUME IInv, Deliver PROVE IInv'
  OBVIOUS
<1>1. /\ UNCHANGED <<MOTOR_ON, command, skipped>>
      /\ session # "offline"
      /\ session' = IF Head(queue) = "SUBSCRIBE" /\ session = "accepted"
                    THEN "subscribing" ELSE session
      /\ inbox' = IF Head(queue) = "SUBSCRIBE" /\ command # "none"
                  THEN Append(inbox, command) ELSE inbox
  BY DEF Deliver, S!Deliver, fan
<1> USE <1>1 DEF IInv, Words, Unspoken, Carried, LastIsCommand, Resent, DeviceFollowsServer
<1>2. CASE Head(queue) = "SUBSCRIBE" /\ command # "none"
  BY <1>2, AppendLast
<1>3. CASE ~(Head(queue) = "SUBSCRIBE" /\ command # "none")
  BY <1>3
<1> QED BY <1>2, <1>3

LEMMA ReceiveStep == IInv /\ (Receive \/ Skip) => IInv'
<1> SUFFICES ASSUME IInv, Receive \/ Skip PROVE IInv'
  OBVIOUS
<1>1. /\ session = "subscribed" /\ session' = session
      /\ inbox # <<>> /\ inbox' = Tail(inbox) /\ command' = command
      /\ \/ MOTOR_ON' = (Head(inbox) = "on") /\ skipped' = FALSE
         \/ MOTOR_ON' = MOTOR_ON /\ skipped' = TRUE
  BY DEF Receive, Skip, F!SetMotorOn, client, fan
<1> USE <1>1 DEF IInv, Words, Unspoken, Carried, LastIsCommand, Resent, DeviceFollowsServer
<1>2. Words' /\ LastIsCommand'
  BY TailLast
<1>3. Unspoken' /\ Carried' /\ Resent'
  OBVIOUS
<1>4. DeviceFollowsServer'
  BY TailLast
<1> QED BY <1>2, <1>3, <1>4

LEMMA CommandStep == IInv /\ ServerCommands => IInv'
<1> SUFFICES ASSUME IInv, ServerCommands PROVE IInv'
  OBVIOUS
<1>1. /\ UNCHANGED <<MOTOR_ON, session, skipped>>
      /\ command' \in FanPackets
      /\ inbox' = IF session \in {"subscribing", "subscribed"}
                  THEN Append(inbox, command') ELSE inbox
  BY DEF ServerCommands, fan, client, history
<1>2. command' # "none"
  BY <1>1 DEF FanPackets
<1> USE <1>1, <1>2 DEF IInv, Words, Unspoken, Carried, LastIsCommand, Resent,
                       DeviceFollowsServer
<1>3. CASE session \in {"subscribing", "subscribed"}
  BY <1>3, AppendLast
<1>4. CASE session \notin {"subscribing", "subscribed"}
  BY <1>4
<1> QED BY <1>3, <1>4

LEMMA RestartStep == IInv /\ Restart => IInv'
<1> SUFFICES ASSUME IInv, Restart PROVE IInv'
  OBVIOUS
<1>1. MOTOR_ON' = FALSE /\ session' = "offline" /\ inbox' = <<>> /\ skipped' = FALSE
      /\ command' = command
  BY DEF Restart, F!init_done_cb, S!Restart
<1>2. inbox' \in Seq(FanPackets)
  BY <1>1, EmptySeq
<1> QED BY <1>1, <1>2 DEF IInv, Words, Unspoken, Carried, LastIsCommand, Resent,
                         DeviceFollowsServer

\* At any time of any run, a session that is up with nothing on its way has
\* left the device under the command given last, whatever outages and
\* restarts came between (user_main.c:163-167, 217-232, 258).
THEOREM CommandsArrive == Spec => []DeviceFollowsServer
<1>1. Init => IInv
  BY InitIInv
<1>2. IInv /\ [Next]_vars => IInv'
  <2> SUFFICES ASSUME IInv, [Next]_vars PROVE IInv'
    OBVIOUS
  <2>1. CASE Next
    BY <2>1, TickStep, SessionStep, DeliverStep, ReceiveStep, CommandStep, RestartStep
       DEF Next
  <2>2. CASE UNCHANGED vars
    BY <2>2 DEF IInv, Words, Unspoken, Carried, LastIsCommand, Resent, DeviceFollowsServer,
                vars, fan, client, broker, history
  <2> QED BY <2>1, <2>2
<1>3. IInv => DeviceFollowsServer
  BY DEF IInv
<1> QED BY <1>1, <1>2, <1>3, PTL DEF Spec

(***************************************************************************)
(* The queue after a callback has published: AfterPublishing, a fold, runs *)
(* packet by packet.                                                       *)
(***************************************************************************)

\* A set with 0 that is closed under + 1 has every natural number.
LEMMA NatInd == ASSUME NEW T, 0 \in T, \A n \in Nat : n \in T => n + 1 \in T
                PROVE  \A n \in Nat : n \in T
<1> DEFINE U == Nat \ T
<1> SUFFICES ASSUME U # {} PROVE FALSE
  OBVIOUS
<1>1. PICK x \in U : \A y \in U : <<y, x>> \notin OpToRel(<, Nat)
  BY WFMin, NatLessThanWellFounded
<1>2. x \in Nat /\ x # 0 /\ x - 1 \in Nat
  OBVIOUS
<1>3. <<x - 1, x>> \in OpToRel(<, Nat)
  BY <1>2 DEF OpToRel
<1>4. x - 1 \in T
  BY <1>1, <1>2, <1>3
<1> QED
  BY <1>2, <1>4

\* The recursion that FoldLeft runs over the sets of indices.
IsFold(iter, I, base, seq) ==
  iter = [s \in SUBSET I |->
            IF s = {} THEN base ELSE AllEnqueued(iter[s \ {Max(s)}], seq[Max(s)])]

LEMMA FoldDef ==
  ASSUME NEW seq
  PROVE  AfterPublishing(seq) =
           (CHOOSE iter : IsFold(iter, DOMAIN seq, {queue}, seq))[DOMAIN seq]
BY DEF AfterPublishing, FoldLeft, MapThenFoldSet, IsFold

LEMMA MaxOf ==
  ASSUME NEW A, NEW n \in Int, A \subseteq Int, n \in A, \A i \in A : i <= n
  PROVE  Max(A) = n
<1>1. \E x \in A : \A y \in A : x >= y
  OBVIOUS
<1>2. Max(A) \in A /\ \A y \in A : Max(A) >= y
  BY <1>1 DEF Max
<1>3. Max(A) \in Int /\ Max(A) >= n /\ Max(A) <= n
  BY <1>2
<1> QED BY <1>3

\* The recursion has a solution.
LEMMA FoldExists ==
  ASSUME NEW base, NEW seq, NEW n \in Nat
  PROVE  \E iter : IsFold(iter, 1 .. n, base, seq)
<1> DEFINE T == {k \in Nat : \E iter : IsFold(iter, 1 .. k, base, seq)}
<1>1. 0 \in T
  <2> DEFINE it == [s \in SUBSET (1 .. 0) |-> base]
  <2>1. \A s \in SUBSET (1 .. 0) : s = {}
    OBVIOUS
  <2>2. it = [s \in SUBSET (1 .. 0) |->
            IF s = {} THEN base ELSE AllEnqueued(it[s \ {Max(s)}], seq[Max(s)])]
    BY <2>1
  <2> QED BY <2>2 DEF IsFold
<1>2. ASSUME NEW k \in Nat, k \in T PROVE k + 1 \in T
  <2>1. PICK h : IsFold(h, 1 .. k, base, seq)
    BY <1>2
  <2> DEFINE g == [s \in SUBSET (1 .. k + 1) |->
                     IF k + 1 \in s THEN AllEnqueued(h[s \ {k + 1}], seq[k + 1])
                     ELSE h[s]]
  <2>2. ASSUME NEW s \in SUBSET (1 .. k + 1)
        PROVE  g[s] = IF s = {} THEN base
                      ELSE AllEnqueued(g[s \ {Max(s)}], seq[Max(s)])
    <3>1. CASE k + 1 \in s
      <4>1. Max(s) = k + 1
        <5>1. s \subseteq Int /\ k + 1 \in Int /\ \A i \in s : i <= k + 1
          OBVIOUS
        <5> QED BY <3>1, <5>1, MaxOf
      <4>2. s \ {k + 1} \in SUBSET (1 .. k + 1) /\ k + 1 \notin s \ {k + 1}
        OBVIOUS
      <4>3. g[s \ {k + 1}] = h[s \ {k + 1}]
        BY <4>2
      <4> QED BY <3>1, <4>1, <4>3
    <3>2. CASE k + 1 \notin s
      <4>1. s \in SUBSET (1 .. k)
        BY <3>2
      <4>2. h[s] = IF s = {} THEN base ELSE AllEnqueued(h[s \ {Max(s)}], seq[Max(s)])
        BY <4>1, <2>1 DEF IsFold
      <4>3. s \ {Max(s)} \in SUBSET (1 .. k + 1) /\ k + 1 \notin s \ {Max(s)}
        BY <3>2, Zenon
      <4>4. g[s] = h[s] /\ g[s \ {Max(s)}] = h[s \ {Max(s)}]
        BY <3>2, <4>3
      <4> QED BY <4>2, <4>4
    <3> QED BY <3>1, <3>2
  <2>3. g = [s \in SUBSET (1 .. k + 1) |-> g[s]]
    OBVIOUS
  <2> HIDE DEF g
  <2>4. g = [s \in SUBSET (1 .. k + 1) |->
            IF s = {} THEN base ELSE AllEnqueued(g[s \ {Max(s)}], seq[Max(s)])]
    BY <2>2, <2>3
  <2>5. IsFold(g, 1 .. k + 1, base, seq)
    BY <2>4 DEF IsFold
  <2> QED BY <2>5
<1> HIDE DEF T
<1>3. n \in T
  BY <1>1, <1>2, NatInd
<1> QED BY <1>3 DEF T

\* What may be in the queue.
Queueable == FanPackets \cup {"data", "SUBSCRIBE"}

QueueOK(q) == q \in Seq(Queueable) /\ Len(q) <= QueueLen

\* What is left of x once its first packets are gone.
LeftOf(q, x) ==
    \E n \in 0 .. Len(x) : /\ Len(q) = Len(x) - n
                           /\ \A i \in 1 .. Len(q) : q[i] = x[n + i]

\* On overflow a queue loses packets at its front, never at its end.
LEMMA EnqueuedLeaves ==
    ASSUME NEW q, QueueOK(q), NEW p \in Queueable, NEW s \in S!Enqueued(q, p)
    PROVE  QueueOK(s) /\ LeftOf(s, Append(q, p))
<1>1. /\ q \in Seq(Queueable) /\ Len(q) \in Nat /\ Len(q) <= QueueLen
      /\ \A i \in 1 .. Len(q) : q[i] \in Queueable
  BY LenProperties, ElementOfSeq DEF QueueOK
<1>2. QueueLen \in Nat /\ QueueLen >= 1
  BY BoundsAssumption
<1>3. /\ Append(q, p) \in Seq(Queueable) /\ Len(Append(q, p)) = Len(q) + 1
      /\ \A i \in 1 .. Len(q) : Append(q, p)[i] = q[i]
      /\ Append(q, p)[Len(q) + 1] = p
  BY <1>1, AppendProperties
<1>4. CASE Len(q) < QueueLen
  <2>1. s = Append(q, p)
    BY <1>4 DEF S!Enqueued
  <2>2. 0 \in 0 .. Len(s) /\ \A i \in 1 .. Len(s) : 0 + i = i
    BY <1>1, <1>3, <2>1
  <2> QED BY <1>1, <1>2, <1>3, <1>4, <2>1, <2>2 DEF QueueOK, LeftOf
<1>5. CASE s = <<>>
  <2>1. s \in Seq(Queueable) /\ Len(s) = 0
    BY <1>5, EmptySeq
  <2>2. LeftOf(s, Append(q, p))
    <3>1. Len(q) + 1 \in 0 .. Len(Append(q, p))
      BY <1>1, <1>3
    <3>2. Len(s) = Len(Append(q, p)) - (Len(q) + 1)
      BY <1>1, <1>3, <2>1
    <3>3. \A i \in 1 .. Len(s) : s[i] = Append(q, p)[(Len(q) + 1) + i]
      BY <2>1
    <3> QED BY <3>1, <3>2, <3>3 DEF LeftOf
  <2> QED BY <1>2, <2>1, <2>2 DEF QueueOK
<1>6. ASSUME NEW n \in 2 .. QueueLen + 1, ~(Len(q) < QueueLen),
             s = Append(SubSeq(q, n, QueueLen), p)
      PROVE  QueueOK(s) /\ LeftOf(s, Append(q, p))
  <2> DEFINE u == SubSeq(q, n, QueueLen)
             m == n - 1
  <2>1. Len(q) = QueueLen /\ m \in 1 .. QueueLen /\ n \in Nat /\ n = m + 1
    BY <1>1, <1>2, <1>6
  <2>2. /\ u \in Seq(Queueable) /\ Len(u) = QueueLen - m
        /\ \A i \in 1 .. QueueLen - m : u[i] = q[m + i]
    <3>1. \A i \in n .. QueueLen : q[i] \in Queueable
      BY <1>1, <1>2, <2>1
    <3>2. /\ u \in Seq(Queueable)
          /\ Len(u) = IF n <= QueueLen THEN QueueLen - n + 1 ELSE 0
          /\ \A i \in 1 .. QueueLen - n + 1 : u[i] = q[n + i - 1]
      BY <1>2, <2>1, <3>1, SubSeqProperties
    <3>3. \A i \in 1 .. QueueLen - m : n + i - 1 = m + i
      BY <1>2, <2>1
    <3>4. QueueLen - n + 1 = QueueLen - m
      BY <1>2, <2>1
    <3>5. Len(u) = QueueLen - m
      BY <1>2, <2>1, <3>2
    <3> QED BY <3>2, <3>3, <3>4, <3>5
  <2> HIDE DEF u
  <2>3. /\ s \in Seq(Queueable) /\ Len(s) = QueueLen - m + 1
        /\ \A i \in 1 .. QueueLen - m : s[i] = u[i]
        /\ s[QueueLen - m + 1] = p
    BY <1>6, <2>2, AppendProperties DEF u
  <2> HIDE DEF m
  <2>4. \A i \in 1 .. Len(s) : s[i] = Append(q, p)[m + i]
    <3> SUFFICES ASSUME NEW i \in 1 .. Len(s) PROVE s[i] = Append(q, p)[m + i]
      OBVIOUS
    <3>1. CASE i = QueueLen - m + 1
      BY <1>2, <1>3, <2>1, <2>3, <3>1
    <3>2. CASE i # QueueLen - m + 1
      <4>1. i \in 1 .. QueueLen - m /\ m + i \in 1 .. Len(q)
        BY <1>2, <2>1, <2>3, <3>2
      <4> QED BY <1>3, <2>2, <2>3, <4>1
    <3> QED BY <3>1, <3>2
  <2>5. m \in 0 .. Len(Append(q, p)) /\ Len(s) = Len(Append(q, p)) - m
        /\ Len(s) <= QueueLen
    BY <1>2, <1>3, <2>1, <2>3
  <2> QED BY <2>3, <2>4, <2>5 DEF QueueOK, LeftOf
<1> QED BY <1>4, <1>5, <1>6 DEF S!Enqueued

LEMMA LeftOfLeft ==
    ASSUME NEW q \in Seq(Queueable), NEW x \in Seq(Queueable), NEW p \in Queueable,
           NEW s, LeftOf(q, x), LeftOf(s, Append(q, p))
    PROVE  LeftOf(s, Append(x, p))
<1>1. PICK n \in 0 .. Len(x) : /\ Len(q) = Len(x) - n
                               /\ \A i \in 1 .. Len(q) : q[i] = x[n + i]
  BY DEF LeftOf
<1>2. PICK m \in 0 .. Len(Append(q, p)) :
          /\ Len(s) = Len(Append(q, p)) - m
          /\ \A i \in 1 .. Len(s) : s[i] = Append(q, p)[m + i]
  BY DEF LeftOf
<1>3. /\ Len(Append(q, p)) = Len(q) + 1 /\ Len(q) \in Nat
      /\ \A i \in 1 .. Len(q) : Append(q, p)[i] = q[i]
      /\ Append(q, p)[Len(q) + 1] = p
  BY AppendProperties, LenProperties
<1>4. /\ Len(Append(x, p)) = Len(x) + 1 /\ Len(x) \in Nat
      /\ \A i \in 1 .. Len(x) : Append(x, p)[i] = x[i]
      /\ Append(x, p)[Len(x) + 1] = p
  BY AppendProperties, LenProperties
<1>5. n + m \in 0 .. Len(Append(x, p)) /\ Len(s) = Len(Append(x, p)) - (n + m)
  BY <1>1, <1>2, <1>3, <1>4
<1>6. ASSUME NEW i \in 1 .. Len(s) PROVE s[i] = Append(x, p)[(n + m) + i]
  <2>1. s[i] = Append(q, p)[m + i] /\ m + i \in 1 .. Len(q) + 1
    BY <1>2, <1>3
  <2>2. CASE m + i = Len(q) + 1
    <3>1. (n + m) + i = Len(x) + 1
      <4>1. n \in Int /\ m \in Int /\ i \in Int /\ Len(x) \in Int /\ Len(q) \in Int
        BY <1>3, <1>4
      <4> QED BY <1>1, <2>2, <4>1
    <3> QED BY <1>3, <1>4, <2>1, <2>2, <3>1
  <2>3. CASE m + i # Len(q) + 1
    <3>1. m + i \in 1 .. Len(q) /\ (n + m) + i = n + (m + i)
          /\ (n + m) + i \in 1 .. Len(x)
      BY <1>1, <1>2, <1>3, <1>4, <2>1, <2>3
    <3>2. Append(q, p)[m + i] = x[n + (m + i)]
      BY <1>1, <1>3, <3>1
    <3> QED BY <1>4, <2>1, <3>1, <3>2
  <2> QED BY <2>2, <2>3
<1> QED BY <1>5, <1>6 DEF LeftOf

\* So what a callback leaves in the queue are the last of the packets that
\* were there and that it published.
LEMMA PublishingLeaves ==
    ASSUME QueueOK(queue), NEW packets \in Seq(Queueable),
           NEW q \in AfterPublishing(packets)
    PROVE  QueueOK(q) /\ LeftOf(q, queue \o packets)
<1> DEFINE n == Len(packets)
           iter == CHOOSE it : IsFold(it, 1 .. n, {queue}, packets)
           x(k) == queue \o SubSeq(packets, 1, k)
           T == {k \in Nat : k <= n =>
                   \A s \in iter[1 .. k] : QueueOK(s) /\ LeftOf(s, x(k))}
<1>1. n \in Nat /\ DOMAIN packets = 1 .. n /\ queue \in Seq(Queueable)
      /\ \A i \in 1 .. n : packets[i] \in Queueable
  BY LenProperties, ElementOfSeq DEF QueueOK
<1> HIDE DEF n
<1>2. IsFold(iter, 1 .. n, {queue}, packets)
  <2>1. \E it : IsFold(it, 1 .. n, {queue}, packets)
    BY <1>1, FoldExists
  <2> QED BY <2>1, Zenon
<1>3. AfterPublishing(packets) = iter[1 .. n]
  BY <1>1, FoldDef
<1> HIDE DEF iter
<1>4. ASSUME NEW k \in 0 .. n
      PROVE  SubSeq(packets, 1, k) \in Seq(Queueable) /\ x(k) \in Seq(Queueable)
  <2>1. \A i \in 1 .. k : packets[i] \in Queueable
    BY <1>1
  <2>2. SubSeq(packets, 1, k) \in Seq(Queueable)
    BY <1>1, <2>1, SubSeqProperties
  <2> QED BY <1>1, <2>2, ConcatProperties
<1>5. 0 \in T
  <2>1. 1 .. 0 = {} /\ 1 .. 0 \in SUBSET (1 .. n)
    BY <1>1
  <2>2. iter[1 .. 0] = {queue}
    BY <1>2, <2>1 DEF IsFold
  <2>3. x(0) = queue
    <3>1. SubSeq(packets, 1, 0) = <<>>
      BY <1>1, SubSeqEmpty
    <3> QED BY <1>1, <3>1, ConcatEmptySeq
  <2>4. LeftOf(queue, queue)
    <3>1. Len(queue) \in Nat
      BY <1>1
    <3>2. 0 \in 0 .. Len(queue) /\ Len(queue) = Len(queue) - 0
          /\ \A i \in 1 .. Len(queue) : queue[i] = queue[0 + i]
      BY <3>1
    <3> QED BY <3>2 DEF LeftOf
  <2> QED BY <2>2, <2>3, <2>4
<1>6. ASSUME NEW k \in Nat, k \in T PROVE k + 1 \in T
  <2> SUFFICES ASSUME k + 1 <= n, NEW s \in iter[1 .. k + 1]
               PROVE  QueueOK(s) /\ LeftOf(s, x(k + 1))
    OBVIOUS
  <2>1. k + 1 \in 1 .. n /\ k \in 0 .. n /\ packets[k + 1] \in Queueable
    BY <1>1
  <2>2. Max(1 .. k + 1) = k + 1
    <3>1. 1 .. k + 1 \subseteq Int /\ k + 1 \in Int /\ k + 1 \in 1 .. k + 1
          /\ \A i \in 1 .. k + 1 : i <= k + 1
      OBVIOUS
    <3> QED BY <3>1, MaxOf
  <2>3. iter[1 .. k + 1] = AllEnqueued(iter[1 .. k], packets[k + 1])
    <3>1. 1 .. k + 1 \in SUBSET (1 .. n) /\ 1 .. k + 1 # {}
          /\ (1 .. k + 1) \ {k + 1} = 1 .. k
      <4>1. (1 .. k + 1) \ {k + 1} = 1 .. k /\ k + 1 \in 1 .. k + 1
        OBVIOUS
      <4>2. 1 .. k + 1 \in SUBSET (1 .. n)
        BY <1>1, <2>1
      <4> QED BY <4>1, <4>2
    <3>2. iter[1 .. k + 1] = IF 1 .. k + 1 = {} THEN {queue}
                             ELSE AllEnqueued(iter[(1 .. k + 1) \ {Max(1 .. k + 1)}],
                                              packets[Max(1 .. k + 1)])
      BY <1>2, <3>1, Zenon DEF IsFold
    <3> QED BY <2>2, <3>1, <3>2, Zenon
  <2>4. PICK q0 \in iter[1 .. k] : s \in S!Enqueued(q0, packets[k + 1])
    BY <2>3 DEF AllEnqueued
  <2>5. QueueOK(q0) /\ LeftOf(q0, x(k))
    BY <1>6, <2>1, <2>4
  <2>6. QueueOK(s) /\ LeftOf(s, Append(q0, packets[k + 1]))
    BY <2>1, <2>4, <2>5, EnqueuedLeaves
  <2>7. x(k) \in Seq(Queueable)
    BY <1>4, <2>1
  <2>8. LeftOf(s, Append(x(k), packets[k + 1]))
    BY <2>1, <2>5, <2>6, <2>7, LeftOfLeft DEF QueueOK
  <2>9. x(k + 1) = Append(x(k), packets[k + 1])
    <3>1. SubSeq(packets, 1, k + 1) = SubSeq(packets, 1, k) \o <<packets[k + 1]>>
      <4>1. 1 \in 1 .. Len(packets) /\ k + 1 \in 1 .. Len(packets) /\ (k + 1) - 1 = k
        BY <2>1 DEF n
      <4> QED BY <4>1, SubSeqRecursiveSecond
    <3>2. SubSeq(packets, 1, k) \in Seq(Queueable)
      BY <1>4, <2>1
    <3> QED BY <1>1, <2>1, <3>1, <3>2
  <2> QED BY <2>6, <2>8, <2>9
<1> HIDE DEF T
<1>7. n \in T
  BY <1>1, <1>5, <1>6, NatInd
<1>8. x(n) = queue \o packets
  BY <1>1, SubSeqFull DEF n
<1>9. \A s \in iter[1 .. n] : QueueOK(s) /\ LeftOf(s, x(n))
  BY <1>1, <1>7 DEF T
<1> QED BY <1>3, <1>8, <1>9

(***************************************************************************)
(* The inductive invariant of ServerFollowsFan: the last of the reports in *)
(* the queue is the state of the fan, and a lost report is made good by    *)
(* the next one that is put there.                                         *)
(***************************************************************************)

ReportTypes ==
    /\ QueueOK(queue)
    /\ motorIsOn \in BOOLEAN
    /\ reportLost \in BOOLEAN

\* The report that will reach the broker last, of those that wait in q.
LastWaiting(q) == q[Max(Waiting(q))]

LastWaitingTrue == Waiting(queue) # {} => (LastWaiting(queue) = "on" <=> motorIsOn)

LostMeansNoneWaits == reportLost => Waiting(queue) = {}

RetainedTrue ==
    ~reportLost /\ Waiting(queue) = {} => (retained = "on" <=> motorIsOn)

RInv == ReportTypes /\ LastWaitingTrue /\ LostMeansNoneWaits /\ RetainedTrue

\* The position of the last report, where there is one.
LEMMA LastReportAt ==
    ASSUME NEW q \in Seq(Queueable), Waiting(q) # {}
    PROVE  /\ Max(Waiting(q)) \in Waiting(q)
           /\ Max(Waiting(q)) \in 1 .. Len(q)
           /\ \A i \in Waiting(q) : i <= Max(Waiting(q))
<1> DEFINE W == Waiting(q)
<1>1. W \subseteq 1 .. Len(q) /\ Len(q) \in Nat
  BY LenProperties DEF Waiting
<1> HIDE DEF W
<1>2. \E x \in W : \A y \in W : x >= y
  <2> DEFINE U == {k \in Nat : (\E i \in W : i <= k) =>
                        \E x \in W : x <= k /\ \A y \in W : y <= k => x >= y}
  <2>1. 0 \in U
    BY <1>1
  <2>2. ASSUME NEW k \in Nat, k \in U PROVE k + 1 \in U
    <3>1. CASE k + 1 \in W
      BY <1>1, <3>1
    <3>2. CASE k + 1 \notin W
      <4>1. \A i \in W : i <= k + 1 <=> i <= k
        BY <1>1, <3>2
      <4> QED BY <2>2, <4>1
    <3> QED BY <3>1, <3>2
  <2> HIDE DEF U
  <2>3. Len(q) \in U
    BY <1>1, <2>1, <2>2, NatInd
  <2> QED BY <1>1, <2>3 DEF U, W
<1>3. Max(W) \in W /\ \A y \in W : Max(W) >= y
  BY <1>2 DEF Max
<1>4. \A i \in W : i <= Max(W)
  BY <1>1, <1>3
<1> QED BY <1>1, <1>3, <1>4 DEF W

\* Where the front of a queue is lost, its last report is the same unless no
\* report is left.
LEMMA LeftKeepsLast ==
    ASSUME NEW q \in Seq(Queueable), NEW x \in Seq(Queueable), LeftOf(q, x),
           Waiting(q) # {}
    PROVE  Waiting(x) # {} /\ LastWaiting(q) = LastWaiting(x)
<1>1. PICK n \in 0 .. Len(x) : /\ Len(q) = Len(x) - n
                               /\ \A i \in 1 .. Len(q) : q[i] = x[n + i]
  BY DEF LeftOf
<1>2. Len(x) \in Nat /\ Len(q) \in Nat /\ n \in Nat
      /\ DOMAIN q = 1 .. Len(q) /\ DOMAIN x = 1 .. Len(x)
  BY LenProperties
<1>3. PICK m \in 1 .. Len(q) : /\ m = Max(Waiting(q)) /\ m \in Waiting(q)
                               /\ \A i \in Waiting(q) : i <= m
  BY LastReportAt
<1>4. n + m \in Waiting(x)
  BY <1>1, <1>2, <1>3 DEF Waiting
<1>5. ASSUME NEW i \in Waiting(x) PROVE i <= n + m
  <2>1. i \in 1 .. Len(x) /\ IsReport(x[i])
    BY <1>2 DEF Waiting
  <2>2. CASE i <= n
    BY <1>2, <1>3, <2>1, <2>2
  <2>3. CASE i > n
    <3>1. i - n \in 1 .. Len(q) /\ n + (i - n) = i
      BY <1>1, <1>2, <2>1, <2>3
    <3>2. i - n \in Waiting(q)
      BY <1>1, <1>2, <2>1, <3>1 DEF Waiting
    <3>3. i - n <= m
      BY <1>3, <3>2
    <3> QED BY <1>2, <1>3, <2>1, <3>3
  <2> QED BY <1>2, <2>1, <2>2, <2>3
<1>6. Max(Waiting(x)) = n + m
  <2>1. Waiting(x) \subseteq Int /\ n + m \in Int
    BY <1>2, <1>3 DEF Waiting
  <2> QED BY <1>4, <1>5, <2>1, MaxOf
<1> QED BY <1>1, <1>3, <1>4, <1>6 DEF LastWaiting

LEMMA LeftKeepsNone ==
    ASSUME NEW q \in Seq(Queueable), NEW x \in Seq(Queueable), LeftOf(q, x),
           Waiting(x) = {}
    PROVE  Waiting(q) = {}
BY LeftKeepsLast

\* Packets that are no reports put behind a queue do not change what waits.
LEMMA NoNewReport ==
    ASSUME NEW q \in Seq(Queueable), NEW p \in Seq(Queueable),
           \A i \in 1 .. Len(p) : ~IsReport(p[i])
    PROVE  /\ Waiting(q \o p) = Waiting(q)
           /\ Waiting(q) # {} => LastWaiting(q \o p) = LastWaiting(q)
<1>1. /\ Len(q \o p) = Len(q) + Len(p) /\ q \o p \in Seq(Queueable)
      /\ \A i \in 1 .. Len(q) : (q \o p)[i] = q[i]
      /\ \A i \in 1 .. Len(p) : (q \o p)[Len(q) + i] = p[i]
      /\ Len(q) \in Nat /\ Len(p) \in Nat
  BY ConcatProperties, LenProperties
<1>2. DOMAIN q = 1 .. Len(q) /\ DOMAIN (q \o p) = 1 .. Len(q) + Len(p)
  BY <1>1, LenProperties
<1>3. ASSUME NEW i \in 1 .. Len(q) + Len(p), ~(i <= Len(q))
      PROVE  ~IsReport((q \o p)[i])
  <2>1. i - Len(q) \in 1 .. Len(p) /\ Len(q) + (i - Len(q)) = i
    BY <1>1, <1>3
  <2> QED BY <1>1, <2>1
<1>4. \A i \in 1 .. Len(q) + Len(p) : i <= Len(q) => i \in 1 .. Len(q)
  BY <1>1
<1>5. \A i \in 1 .. Len(q) : i \in 1 .. Len(q) + Len(p)
  BY <1>1
<1>6. Waiting(q \o p) = Waiting(q)
  BY <1>1, <1>2, <1>3, <1>4, <1>5 DEF Waiting
<1>7. Waiting(q) # {} => Max(Waiting(q)) \in 1 .. Len(q)
  BY LastReportAt
<1> QED BY <1>1, <1>6, <1>7 DEF LastWaiting

\* Reports put behind a queue are the last.
LEMMA NewReportLast ==
    ASSUME NEW q \in Seq(Queueable), NEW p \in Seq(Queueable), p # <<>>,
           IsReport(p[Len(p)])
    PROVE  /\ Waiting(q \o p) # {}
           /\ LastWaiting(q \o p) = p[Len(p)]
<1> DEFINE x == q \o p
<1>1. /\ Len(x) = Len(q) + Len(p) /\ x \in Seq(Queueable)
      /\ \A i \in 1 .. Len(p) : x[Len(q) + i] = p[i]
      /\ Len(q) \in Nat /\ Len(p) \in Nat /\ Len(p) # 0
  BY ConcatProperties, LenProperties, EmptySeq
<1> HIDE DEF x
<1>2. DOMAIN x = 1 .. Len(x)
  BY <1>1, LenProperties
<1>3. Len(x) \in 1 .. Len(x) /\ Len(p) \in 1 .. Len(p) /\ x[Len(x)] = p[Len(p)]
  BY <1>1
<1>4. Len(x) \in Waiting(x) /\ Waiting(x) \subseteq Int
      /\ \A i \in Waiting(x) : i <= Len(x)
  BY <1>1, <1>2, <1>3 DEF Waiting
<1>5. Max(Waiting(x)) = Len(x)
  BY <1>1, <1>4, MaxOf
<1> QED BY <1>3, <1>4, <1>5 DEF LastWaiting, x

\* What a packet that leaves the queue takes with it.
LEMMA TailReports ==
    ASSUME NEW q \in Seq(Queueable), q # <<>>
    PROVE  /\ Tail(q) \in Seq(Queueable) /\ Len(Tail(q)) <= Len(q)
           /\ Waiting(Tail(q)) # {} =>
                 Waiting(q) # {} /\ LastWaiting(Tail(q)) = LastWaiting(q)
           /\ Waiting(Tail(q)) = {} /\ IsReport(Head(q)) =>
                 Waiting(q) # {} /\ LastWaiting(q) = Head(q)
           /\ Waiting(Tail(q)) = {} /\ ~IsReport(Head(q)) => Waiting(q) = {}
<1>1. /\ Tail(q) \in Seq(Queueable) /\ Len(Tail(q)) = Len(q) - 1
      /\ \A i \in 1 .. Len(Tail(q)) : Tail(q)[i] = q[i + 1]
      /\ Head(q) = q[1] /\ Len(q) \in Nat /\ Len(q) # 0
  BY HeadTailProperties, LenProperties, EmptySeq
<1>2. DOMAIN q = 1 .. Len(q) /\ DOMAIN Tail(q) = 1 .. Len(q) - 1
  BY <1>1, LenProperties
<1>3. LeftOf(Tail(q), q)
  <2>1. 1 \in 0 .. Len(q) /\ \A i \in 1 .. Len(Tail(q)) : 1 + i = i + 1
    BY <1>1
  <2> QED BY <1>1, <2>1 DEF LeftOf
<1>4. ASSUME Waiting(Tail(q)) = {}, NEW i \in Waiting(q) PROVE i = 1
  <2>1. i \in 1 .. Len(q) /\ IsReport(q[i])
    BY <1>2 DEF Waiting
  <2> SUFFICES ASSUME i # 1 PROVE FALSE
    OBVIOUS
  <2>2. i - 1 \in 1 .. Len(q) - 1 /\ (i - 1) + 1 = i
    BY <1>1, <2>1
  <2>3. i - 1 \in Waiting(Tail(q))
    BY <1>1, <1>2, <2>1, <2>2 DEF Waiting
  <2> QED BY <1>4, <2>3
<1>5. ASSUME Waiting(Tail(q)) = {}, IsReport(Head(q))
      PROVE  Waiting(q) # {} /\ LastWaiting(q) = Head(q)
  <2>1. 1 \in Waiting(q)
    BY <1>1, <1>2, <1>5 DEF Waiting
  <2>2. Waiting(q) = {1}
    BY <1>4, <1>5, <2>1
  <2>3. Max(Waiting(q)) = 1
    <3>1. {1} \subseteq Int /\ 1 \in Int /\ 1 \in {1} /\ \A i \in {1} : i <= 1
      OBVIOUS
    <3> QED BY <2>2, <3>1, MaxOf
  <2> QED BY <1>1, <2>1, <2>3 DEF LastWaiting
<1>6. ASSUME Waiting(Tail(q)) = {}, ~IsReport(Head(q)) PROVE Waiting(q) = {}
  <2> SUFFICES ASSUME NEW i \in Waiting(q) PROVE FALSE
    OBVIOUS
  <2> QED BY <1>1, <1>4, <1>6 DEF Waiting
<1>7. Waiting(Tail(q)) # {} => Waiting(q) # {} /\ LastWaiting(Tail(q)) = LastWaiting(q)
  BY <1>1, <1>3, LeftKeepsLast
<1>8. Len(Tail(q)) <= Len(q)
  BY <1>1
<1> QED BY <1>1, <1>5, <1>6, <1>7, <1>8

LEMMA InitRInv == Init => RInv
<1> SUFFICES ASSUME Init PROVE RInv
  OBVIOUS
<1>1. /\ motorIsOn = FALSE /\ reportLost = FALSE /\ retained = "none"
      /\ queue = <<>> /\ queue \in Seq(Queueable) /\ Len(queue) = 0
  BY EmptySeq DEF Init, F!Init, S!Init
<1>2. Waiting(queue) = {}
  BY <1>1 DEF Waiting
<1>3. QueueOK(queue)
  BY <1>1, BoundsAssumption DEF QueueOK
<1> QED BY <1>1, <1>2, <1>3
        DEF RInv, ReportTypes, LastWaitingTrue, LostMeansNoneWaits, RetainedTrue

\* What a tick publishes: data, and after it the calls of the decision, if
\* any, the last of which the fan obeys.
LEMMA TickPublishes ==
    ASSUME ReportTypes, NEW indoor, NEW outdoor, F!read_DHT(indoor, outdoor)
    PROVE  /\ published' = <<>> \/ \E a, b : published' = <<a, b>>
           /\ reports' \in Seq(FanPackets)
           /\ reports' = <<>> => motorIsOn' = motorIsOn
           /\ reports' # <<>> => motorIsOn' = (reports'[Len(reports')] = "on")
<1> DEFINE ss == [s \in F!Sensors |->
                     F!dht_read(sensors[s], IF s = "indoor" THEN indoor ELSE outdoor)]
<1> HIDE DEF ss
<1>1. CASE ~F!Complete(ss)
  <2>1. published' = <<>> /\ reports' = <<>> /\ motorIsOn' = motorIsOn
    BY <1>1 DEF F!read_DHT, F!fan, ss
  <2> QED BY <2>1, EmptySeq
<1>2. CASE F!Complete(ss)
  <2>1. /\ published' = <<F!DataMsg("indoor", ss), F!DataMsg("outdoor", ss)>>
        /\ reports' = F!Decision(ss)
        /\ F!Drive(F!Decision(ss))
    BY <1>2 DEF F!read_DHT, ss
  <2>2. F!Decision(ss) \in Seq(FanPackets)
    <3>1. <<>> \in Seq(FanPackets) /\ <<"on">> \in Seq(FanPackets)
          /\ <<"off">> \in Seq(FanPackets)
      BY DEF FanPackets
    <3> DEFINE a == IF ~motorIsOn /\ F!Damp(ss) THEN <<"on">> ELSE <<>>
               b == IF (motorIsOn \/ (~motorIsOn /\ F!Damp(ss))) /\ (F!Dry(ss) \/ F!Cold(ss))
                    THEN <<"off">> ELSE <<>>
    <3>2. a \in Seq(FanPackets) /\ b \in Seq(FanPackets)
      BY <3>1
    <3>3. F!Decision(ss) \in {<<>>, <<"on">>, a \o b}
      BY DEF F!Decision
    <3> HIDE DEF a, b
    <3>4. a \o b \in Seq(FanPackets)
      BY <3>2, ConcatProperties
    <3> QED BY <3>1, <3>3, <3>4
  <2>3. /\ reports' = <<>> => motorIsOn' = motorIsOn
        /\ reports' # <<>> => motorIsOn' = (reports'[Len(reports')] = "on")
    BY <2>1 DEF F!Drive, F!fan
  <2> QED BY <2>1, <2>2, <2>3
<1> QED BY <1>1, <1>2

LEMMA HandedData ==
    ASSUME NEW readings, readings = <<>> \/ \E a, b : readings = <<a, b>>
    PROVE  /\ [i \in DOMAIN readings |-> "data"] \in Seq(Queueable)
           /\ \A i \in 1 .. Len([i \in DOMAIN readings |-> "data"]) :
                 ~IsReport([k \in DOMAIN readings |-> "data"][i])
<1>1. \E n \in Nat : DOMAIN readings = 1 .. n
  <2>1. CASE readings = <<>>
    BY <2>1
  <2>2. CASE \E a, b : readings = <<a, b>>
    BY <2>2
  <2> QED BY <2>1, <2>2
<1>2. PICK n \in Nat : DOMAIN readings = 1 .. n
  BY <1>1
<1>3. "data" \in Queueable /\ ~IsReport("data")
  BY DEF Queueable, IsReport, FanPackets
<1> DEFINE d == [i \in 1 .. n |-> "data"]
<1>4. d \in Seq(Queueable) /\ Len(d) = n /\ \A i \in 1 .. n : d[i] = "data"
  BY <1>3, IsASeq
<1> QED BY <1>2, <1>3, <1>4

\* The step of the history, common to all that may lose packets: what is left
\* of the queue and the packets put behind it tells the truth if they did.
LEMMA AccountedTrue ==
    ASSUME RInv, NEW x \in Seq(Queueable), QueueOK(queue'), LeftOf(queue', x),
           motorIsOn' \in BOOLEAN, retained' = retained,
           reportLost' = ((reportLost \/ Waiting(x) # {}) /\ Waiting(queue') = {}),
           Waiting(x) # {} => (LastWaiting(x) = "on" <=> motorIsOn'),
           Waiting(x) = {} => Waiting(queue) = {} /\ motorIsOn' = motorIsOn
    PROVE  RInv'
<1>1. queue' \in Seq(Queueable)
  BY DEF QueueOK
<1>2. LastWaitingTrue'
  <2>1. Waiting(queue') # {} => (LastWaiting(queue') = "on" <=> motorIsOn')
    BY <1>1, LeftKeepsLast
  <2> QED BY <2>1 DEF LastWaitingTrue
<1>3. LostMeansNoneWaits'
  BY DEF LostMeansNoneWaits
<1>4. RetainedTrue'
  <2>1. ASSUME ~reportLost', Waiting(queue') = {}
        PROVE  retained' = "on" <=> motorIsOn'
    <3>1. ~reportLost /\ Waiting(x) = {}
      BY <2>1
    <3> QED BY <3>1 DEF RInv, RetainedTrue
  <2> QED BY <2>1 DEF RetainedTrue
<1>5. ReportTypes'
  <2>1. reportLost' \in BOOLEAN
    OBVIOUS
  <2> QED BY <2>1 DEF ReportTypes
<1> QED BY <1>2, <1>3, <1>4, <1>5 DEF RInv

LEMMA TickReports == RInv /\ (GoodTick \/ BadTick) => RInv'
<1> SUFFICES ASSUME RInv, GoodTick \/ BadTick PROVE RInv'
  OBVIOUS
<1>1. PICK indoor : Tick(indoor)
  BY DEF GoodTick, BadTick
<1>2. PICK outdoor \in OutdoorAir : F!read_DHT(indoor, outdoor)
  BY <1>1 DEF Tick
<1> DEFINE data == [i \in DOMAIN published' |-> "data"]
           new == data \o reports'
           x == queue \o new
<1>3. /\ reports' \in Seq(FanPackets)
      /\ reports' = <<>> => motorIsOn' = motorIsOn
      /\ reports' # <<>> => motorIsOn' = (reports'[Len(reports')] = "on")
      /\ published' = <<>> \/ \E a, b : published' = <<a, b>>
  BY <1>2, TickPublishes DEF RInv
<1>4. data \in Seq(Queueable) /\ \A i \in 1 .. Len(data) : ~IsReport(data[i])
  BY <1>3, HandedData
<1>5. /\ queue' \in AfterPublishing(new)
      /\ reportLost' = ((reportLost \/ Waiting(x) # {}) /\ Waiting(queue') = {})
      /\ retained' = retained
  BY <1>1 DEF Tick, Handed, Accounted, broker
<1> HIDE DEF data
<1>6. reports' \in Seq(Queueable)
  BY <1>3 DEF Queueable
<1>7. new \in Seq(Queueable) /\ queue \in Seq(Queueable) /\ QueueOK(queue)
  BY <1>4, <1>6, ConcatProperties DEF RInv, ReportTypes, QueueOK
<1> HIDE DEF new
<1>8. x \in Seq(Queueable) /\ QueueOK(queue') /\ LeftOf(queue', x)
  BY <1>5, <1>7, PublishingLeaves, ConcatProperties
<1>9. CASE reports' = <<>>
  <2>1. new = data
    BY <1>4, <1>9, ConcatEmptySeq DEF new
  <2>2. /\ Waiting(x) = Waiting(queue)
        /\ Waiting(queue) # {} => LastWaiting(x) = LastWaiting(queue)
    BY <1>4, <1>7, <2>1, NoNewReport
  <2>3. motorIsOn' = motorIsOn /\ motorIsOn' \in BOOLEAN
    BY <1>3, <1>9 DEF RInv, ReportTypes
  <2> HIDE DEF x
  <2> QED BY <1>5, <1>8, <2>2, <2>3, AccountedTrue DEF RInv, LastWaitingTrue
<1>10. CASE reports' # <<>>
  <2>1. /\ Len(reports') \in 1 .. Len(reports') /\ Len(reports') \in Nat
        /\ reports'[Len(reports')] \in FanPackets
    BY <1>3, <1>10, EmptySeq, LenProperties, ElementOfSeq
  <2>2. new # <<>> /\ new[Len(new)] = reports'[Len(reports')]
    <3>1. /\ Len(new) = Len(data) + Len(reports') /\ Len(data) \in Nat
          /\ new[Len(data) + Len(reports')] = reports'[Len(reports')]
      BY <1>4, <1>6, <2>1, ConcatProperties, LenProperties DEF new
    <3> QED BY <2>1, <3>1, EmptySeq
  <2>3. Waiting(x) # {} /\ LastWaiting(x) = reports'[Len(reports')]
    BY <1>7, <2>1, <2>2, NewReportLast DEF IsReport
  <2>4. motorIsOn' = (reports'[Len(reports')] = "on") /\ motorIsOn' \in BOOLEAN
    BY <1>3, <1>10
  <2> HIDE DEF x
  <2> QED BY <1>5, <1>8, <2>3, <2>4, AccountedTrue
<1> QED BY <1>9, <1>10

LEMMA StartReports == RInv /\ (Accept \/ Refuse) => RInv'
<1> SUFFICES ASSUME RInv, Accept \/ Refuse PROVE RInv'
  OBVIOUS
<1> DEFINE x == Append(queue, "SUBSCRIBE")
<1>1. /\ queue' \in S!Enqueued(queue, "SUBSCRIBE")
      /\ reportLost' = ((reportLost \/ Waiting(queue) # {}) /\ Waiting(queue') = {})
      /\ retained' = retained /\ motorIsOn' = motorIsOn
  BY DEF Accept, Refuse, SessionStarts, S!Accept, S!Refuse, fan, broker
<1>2. QueueOK(queue) /\ queue \in Seq(Queueable) /\ motorIsOn \in BOOLEAN
  BY DEF RInv, ReportTypes, QueueOK
<1>3. "SUBSCRIBE" \in Queueable /\ ~IsReport("SUBSCRIBE")
  BY DEF Queueable, IsReport, FanPackets
<1>4. QueueOK(queue') /\ LeftOf(queue', x) /\ x \in Seq(Queueable)
  BY <1>1, <1>2, <1>3, EnqueuedLeaves, AppendProperties
<1>5. /\ Waiting(x) = Waiting(queue)
      /\ Waiting(queue) # {} => LastWaiting(x) = LastWaiting(queue)
  <2>1. x = queue \o <<"SUBSCRIBE">>
    BY <1>2, <1>3
  <2>2. <<"SUBSCRIBE">> \in Seq(Queueable)
        /\ \A i \in 1 .. Len(<<"SUBSCRIBE">>) : ~IsReport(<<"SUBSCRIBE">>[i])
    BY <1>3
  <2> QED BY <1>2, <2>1, <2>2, NoNewReport
<1> HIDE DEF x
<1> QED BY <1>1, <1>2, <1>4, <1>5, AccountedTrue DEF RInv, LastWaitingTrue

LEMMA LoseReports == RInv /\ Lose => RInv'
<1> SUFFICES ASSUME RInv, Lose PROVE RInv'
  OBVIOUS
<1>1. QueueOK(queue) /\ queue \in Seq(Queueable) /\ motorIsOn \in BOOLEAN
  BY DEF RInv, ReportTypes, QueueOK
<1>2. queue \o <<>> = queue
  BY <1>1, ConcatEmptySeq
<1>3. /\ queue # <<>> /\ queue' = Tail(queue)
      /\ reportLost' = ((reportLost \/ Waiting(queue) # {}) /\ Waiting(queue') = {})
      /\ retained' = retained /\ motorIsOn' = motorIsOn
  BY <1>2 DEF Lose, S!Lose, Accounted, fan, broker
<1>4. QueueOK(queue') /\ LeftOf(queue', queue)
  <2>1. /\ Tail(queue) \in Seq(Queueable) /\ Len(Tail(queue)) = Len(queue) - 1
        /\ \A i \in 1 .. Len(Tail(queue)) : Tail(queue)[i] = queue[i + 1]
        /\ Len(queue) \in Nat /\ Len(queue) # 0
    BY <1>1, <1>3, HeadTailProperties, LenProperties, EmptySeq
  <2>2. 1 \in 0 .. Len(queue) /\ \A i \in 1 .. Len(Tail(queue)) : 1 + i = i + 1
    BY <2>1
  <2>3. LeftOf(Tail(queue), queue)
    BY <2>1, <2>2 DEF LeftOf
  <2>4. Len(Tail(queue)) <= QueueLen
    BY <1>1, <2>1, BoundsAssumption DEF QueueOK
  <2> QED BY <1>3, <2>1, <2>3, <2>4 DEF QueueOK
<1> QED BY <1>1, <1>3, <1>4, AccountedTrue DEF RInv, LastWaitingTrue

LEMMA DeliverReports == RInv /\ Deliver => RInv'
<1> SUFFICES ASSUME RInv, Deliver PROVE RInv'
  OBVIOUS
<1>1. QueueOK(queue) /\ queue \in Seq(Queueable) /\ motorIsOn \in BOOLEAN
      /\ Len(queue) \in Nat
  BY LenProperties DEF RInv, ReportTypes, QueueOK
<1>2. /\ queue # <<>> /\ queue' = Tail(queue) /\ motorIsOn' = motorIsOn
      /\ retained' = IF IsReport(Head(queue)) THEN Head(queue) ELSE retained
      /\ reportLost' = (reportLost /\ ~IsReport(Head(queue)))
  BY DEF Deliver, S!Deliver, fan
<1>3. /\ queue' \in Seq(Queueable) /\ Len(queue') <= Len(queue)
      /\ Waiting(queue') # {} =>
            Waiting(queue) # {} /\ LastWaiting(queue') = LastWaiting(queue)
      /\ Waiting(queue') = {} /\ IsReport(Head(queue)) =>
            Waiting(queue) # {} /\ LastWaiting(queue) = Head(queue)
      /\ Waiting(queue') = {} /\ ~IsReport(Head(queue)) => Waiting(queue) = {}
  BY <1>1, <1>2, TailReports
<1>4. ReportTypes'
  <2>1. reportLost' \in BOOLEAN /\ motorIsOn' \in BOOLEAN
    BY <1>1, <1>2
  <2>2. Len(queue') <= QueueLen
    BY <1>1, <1>3, BoundsAssumption, LenProperties DEF QueueOK
  <2> QED BY <1>3, <2>1, <2>2 DEF ReportTypes, QueueOK
<1>5. LastWaitingTrue'
  <2>1. Waiting(queue') # {} => (LastWaiting(queue') = "on" <=> motorIsOn')
    BY <1>2, <1>3 DEF RInv, LastWaitingTrue
  <2> QED BY <2>1 DEF LastWaitingTrue
<1>6. LostMeansNoneWaits'
  <2>1. reportLost' => Waiting(queue') = {}
    BY <1>2, <1>3 DEF RInv, LostMeansNoneWaits
  <2> QED BY <2>1 DEF LostMeansNoneWaits
<1>7. RetainedTrue'
  <2>1. ASSUME ~reportLost', Waiting(queue') = {}
        PROVE  retained' = "on" <=> motorIsOn'
    <3>1. CASE IsReport(Head(queue))
      BY <1>2, <1>3, <2>1, <3>1 DEF RInv, LastWaitingTrue
    <3>2. CASE ~IsReport(Head(queue))
      BY <1>2, <1>3, <2>1, <3>2 DEF RInv, RetainedTrue
    <3> QED BY <3>1, <3>2
  <2> QED BY <2>1 DEF RetainedTrue
<1> QED BY <1>4, <1>5, <1>6, <1>7 DEF RInv

LEMMA RestartReports == RInv /\ Restart => RInv'
<1> SUFFICES ASSUME RInv, Restart PROVE RInv'
  OBVIOUS
<1>1. /\ motorIsOn' = FALSE /\ queue' = <<>> /\ retained' = retained
      /\ reportLost' = (reportLost \/ motorIsOn \/ Waiting(queue) # {})
  BY DEF Restart, F!init_done_cb, S!Restart
<1>2. queue' \in Seq(Queueable) /\ Len(queue') = 0 /\ Waiting(queue') = {}
  BY <1>1, EmptySeq DEF Waiting
<1>3. QueueOK(queue')
  BY <1>2, BoundsAssumption DEF QueueOK
<1>4. ReportTypes'
  <2>1. reportLost' \in BOOLEAN /\ motorIsOn' \in BOOLEAN
    BY <1>1 DEF RInv, ReportTypes
  <2> QED BY <1>3, <2>1 DEF ReportTypes
<1>5. RetainedTrue'
  <2>1. ~reportLost' => (retained' = "on" <=> motorIsOn')
    BY <1>1 DEF RInv, RetainedTrue
  <2> QED BY <2>1 DEF RetainedTrue
<1> QED BY <1>2, <1>4, <1>5 DEF RInv, LastWaitingTrue, LostMeansNoneWaits

\* The other steps touch neither the queue nor the fan nor its report.
LEMMA OtherReports ==
    ASSUME RInv, UNCHANGED <<queue, motorIsOn, retained, reportLost>>
    PROVE  RInv'
BY DEF RInv, ReportTypes, LastWaitingTrue, LastWaiting, LostMeansNoneWaits, RetainedTrue,
       QueueOK, Waiting

LEMMA NextReports == RInv /\ [Next]_vars => RInv'
<1> SUFFICES ASSUME RInv, [Next]_vars PROVE RInv'
  OBVIOUS
<1>1. CASE Subscribed
  BY <1>1, OtherReports DEF Subscribed, S!Subscribed, fan, broker, history
<1>2. CASE Receive
  BY <1>2, OtherReports DEF Receive, F!mqttDataCb, F!fan, client
<1>3. CASE Skip
  BY <1>3, OtherReports DEF Skip, fan, client
<1>4. CASE ServerCommands
  BY <1>4, OtherReports DEF ServerCommands, fan, client, history
<1>5. CASE SessionEnds
  BY <1>5, OtherReports DEF SessionEnds, S!End, fan, history
<1>6. CASE UNCHANGED vars
  BY <1>6, OtherReports DEF vars, fan, client, broker, history
<1> QED BY <1>1, <1>2, <1>3, <1>4, <1>5, <1>6, TickReports, StartReports,
           DeliverReports, LoseReports, RestartReports DEF Next

\* Whatever the queue gave up and however often the device restarted since,
\* what the server is told of the fan is so unless the last report was lost
\* (user_main.c:78-93, mqtt.c:397-403, 449-467).
THEOREM ReportsArrive == Spec => []ServerFollowsFan
<1>1. RInv => ServerFollowsFan
  BY DEF RInv, LastWaitingTrue, LastWaiting, RetainedTrue, ServerFollowsFan
<1> QED BY <1>1, InitRInv, NextReports, PTL DEF Spec

(***************************************************************************)
(* The device runs the fan control: what FanControl_proofs says of every   *)
(* run of FanControl holds of its fan.                                     *)
(***************************************************************************)

LEMMA FanStep == [Next]_vars => [F!Next]_(F!vars)
<1> SUFFICES ASSUME [Next]_vars PROVE [F!Next]_(F!vars)
  OBVIOUS
<1> USE DEF fan, F!vars, F!settings, F!fan
<1>1. CASE GoodTick \/ BadTick
  <2>1. PICK indoor \in Readings \cup {F!Failed}, outdoor \in OutdoorAir :
            F!read_DHT(indoor, outdoor)
    BY <1>1 DEF GoodTick, BadTick, Tick
  <2>2. outdoor \in Readings \cup {F!Failed}
    BY OutdoorAssumption
  <2>3. F!Tick
    BY <2>1, <2>2 DEF F!Tick
  <2> QED BY <2>3 DEF F!Next
<1>2. CASE Receive
  BY <1>2 DEF Receive, F!Next
<1>3. CASE Restart
  BY <1>3 DEF Restart, F!Next
<1>4. CASE Accept \/ Refuse \/ Deliver \/ Lose \/ Subscribed \/ Skip \/ ServerCommands
           \/ SessionEnds
  BY <1>4 DEF Accept, Refuse, SessionStarts, Deliver, Lose, Subscribed, Skip,
              ServerCommands, SessionEnds
<1>5. CASE UNCHANGED vars
  BY <1>5 DEF vars
<1> QED BY <1>1, <1>2, <1>3, <1>4, <1>5 DEF Next

\* The fan of the whole device is the fan of FanControl: nothing the client,
\* the broker and the server do touches it but the commands that arrive.
THEOREM DeviceRunsFanControl == Spec => F!Spec
<1>1. Init => F!Init
  BY DEF Init
<1> QED BY <1>1, FanStep, PTL DEF Spec, F!Spec

=============================================================================
