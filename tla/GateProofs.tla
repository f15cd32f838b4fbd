----------------------------- MODULE GateProofs -----------------------------
(***************************************************************************)
(* What every gate promises its sessions, for every set of them.  Both     *)
(* modes of the proxy implement Gate, so that TerminatorProofs and         *)
(* InitiatorProofs take these theorems over.                               *)
(***************************************************************************)
EXTENDS Gate, TLAPS

(* The sequence operators of the actions.                                  *)
LEMMA Appended ==
  ASSUME NEW S, NEW q \in Seq(S), NEW e \in S
  PROVE  /\ Append(q, e) \in Seq(S)
         /\ DOMAIN Append(q, e) = 1..(Len(q) + 1) /\ DOMAIN q = 1..Len(q)
         /\ Len(q) \in Nat
         /\ \A k \in 1..Len(q) : Append(q, e)[k] = q[k]
         /\ Append(q, e)[Len(q) + 1] = e
  OBVIOUS

LEMMA Headed ==
  ASSUME NEW S, NEW q \in Seq(S), q # <<>>
  PROVE  /\ Head(q) \in S /\ Head(q) = q[1]
         /\ Tail(q) \in Seq(S)
         /\ DOMAIN q = 1..Len(q) /\ DOMAIN Tail(q) = 1..(Len(q) - 1)
         /\ Len(q) \in Nat \ {0}
         /\ \A k \in 1..(Len(q) - 1) : Tail(q)[k] = q[k + 1]
  OBVIOUS

LEMMA InitGateInv == Init => GateInv
  BY DEF Init, GateInv, GateTypeOK, Phases, Lives, NoneForgotten, NoneOutlives

(* A session that neither enters nor leaves the queue.                     *)
LEMMA TurnKeeps ==
  ASSUME GateInv, NEW c \in Conns, NEW l \in Lives \ {"waiting"},
         st[c] # "waiting",
         st' = [st EXCEPT ![c] = l],
         phase = "open" \/ l \notin {"held", "admitted"},
         UNCHANGED <<phase, queue>>
  PROVE  GateInv'
  <1>1. /\ st \in [Conns -> Lives] /\ st' \in [Conns -> Lives]
        /\ st'[c] = l /\ \A d \in Conns : d # c => st'[d] = st[d]
    BY DEF GateInv, GateTypeOK
  <1>2. GateTypeOK'
    BY <1>1 DEF GateInv, GateTypeOK
  <1>3. \A d \in Conns : st'[d] = "waiting" <=> st[d] = "waiting"
    BY <1>1
  <1>4. NoneForgotten'
    BY <1>3 DEF GateInv, NoneForgotten
  <1>5. NoneOutlives'
    BY <1>1 DEF GateInv, NoneOutlives
  <1> QED
    BY <1>2, <1>4, <1>5 DEF GateInv

LEMMA ArriveKeeps ==
  ASSUME GateInv, NEW c \in Conns, Arrive(c)
  PROVE  GateInv'
  <1>1. /\ phase = "open" /\ phase' = phase /\ st[c] = "none"
        /\ queue \in Seq(Conns) /\ st \in [Conns -> Lives]
        /\ queue' = Append(queue, c)
        /\ st' = [st EXCEPT ![c] = "waiting"]
    BY DEF Arrive, GateInv, GateTypeOK
  <1>2. /\ st' \in [Conns -> Lives] /\ st'[c] = "waiting"
        /\ \A d \in Conns : d # c => st'[d] = st[d]
    BY <1>1 DEF Lives
  <1>3. /\ queue' \in Seq(Conns) /\ Len(queue) \in Nat
        /\ DOMAIN queue' = 1..(Len(queue) + 1) /\ DOMAIN queue = 1..Len(queue)
        /\ \A k \in 1..Len(queue) : queue'[k] = queue[k]
        /\ queue'[Len(queue) + 1] = c
    BY <1>1, Appended
  <1>4. \A k \in 1..Len(queue) : queue[k] \in Conns /\ queue[k] # c
    BY <1>1, <1>3 DEF GateInv, NoneForgotten
  <1>5. \A k \in DOMAIN queue' : k \in 1..Len(queue) \/ k = Len(queue) + 1
    BY <1>3
  <1>6. \A d \in Conns : st'[d] = "waiting" <=> \E k \in DOMAIN queue' : queue'[k] = d
    <2> SUFFICES ASSUME NEW d \in Conns
                 PROVE  st'[d] = "waiting" <=> \E k \in DOMAIN queue' : queue'[k] = d
      OBVIOUS
    <2>1. CASE d = c
      BY <1>2, <1>3, <2>1
    <2>2. CASE d # c
      <3>1. (\E k \in DOMAIN queue' : queue'[k] = d)
              <=> (\E k \in DOMAIN queue : queue[k] = d)
        BY <1>3, <1>5, <2>2
      <3> QED
        BY <1>2, <2>2, <3>1 DEF GateInv, NoneForgotten
    <2> QED
      BY <2>1, <2>2
  <1>7. \A j, k \in DOMAIN queue' : queue'[j] = queue'[k] => j = k
    BY <1>3, <1>4, <1>5 DEF GateInv, NoneForgotten
  <1> QED
    BY <1>1, <1>2, <1>3, <1>6, <1>7
    DEF GateInv, GateTypeOK, NoneForgotten, NoneOutlives

LEMMA TakeKeeps ==
  ASSUME GateInv, Take
  PROVE  GateInv'
  <1>1. /\ phase = "open" /\ phase' = phase /\ queue # <<>>
        /\ queue \in Seq(Conns) /\ st \in [Conns -> Lives]
        /\ queue' = Tail(queue)
        /\ st' = [st EXCEPT ![Head(queue)] = "held"]
    BY DEF Take, GateInv, GateTypeOK
  <1>2. /\ Head(queue) \in Conns /\ Head(queue) = queue[1]
        /\ queue' \in Seq(Conns) /\ Len(queue) \in Nat \ {0}
        /\ DOMAIN queue = 1..Len(queue) /\ DOMAIN queue' = 1..(Len(queue) - 1)
        /\ \A k \in 1..(Len(queue) - 1) : queue'[k] = queue[k + 1]
    BY <1>1, Headed
  <1>3. /\ st' \in [Conns -> Lives] /\ st'[queue[1]] = "held"
        /\ \A d \in Conns : d # queue[1] => st'[d] = st[d]
    BY <1>1, <1>2 DEF Lives
  <1>4. \A j, k \in 1..Len(queue) : queue[j] = queue[k] => j = k
    BY <1>2 DEF GateInv, NoneForgotten
  <1>5. \A d \in Conns : st'[d] = "waiting" <=> \E k \in DOMAIN queue' : queue'[k] = d
    <2> SUFFICES ASSUME NEW d \in Conns
                 PROVE  st'[d] = "waiting" <=> \E k \in DOMAIN queue' : queue'[k] = d
      OBVIOUS
    <2>1. st[d] = "waiting" <=> \E k \in 1..Len(queue) : queue[k] = d
      BY <1>2 DEF GateInv, NoneForgotten
    <2>2. CASE d = queue[1]
      <3>1. \A k \in 1..(Len(queue) - 1) : queue[k + 1] # queue[1]
        BY <1>2, <1>4
      <3> QED
        BY <1>2, <1>3, <2>2, <3>1
    <2>3. CASE d # queue[1]
      <3>1. ASSUME NEW k \in 1..Len(queue), queue[k] = d
            PROVE  k - 1 \in 1..(Len(queue) - 1) /\ queue'[k - 1] = d
        <4>1. k # 1 /\ k - 1 \in 1..(Len(queue) - 1) /\ (k - 1) + 1 = k
          BY <1>2, <2>3, <3>1
        <4> QED
          BY <1>2, <3>1, <4>1
      <3>2. ASSUME NEW k \in 1..(Len(queue) - 1), queue'[k] = d
            PROVE  k + 1 \in 1..Len(queue) /\ queue[k + 1] = d
        BY <1>2, <3>2
      <3> QED
        BY <1>2, <1>3, <2>1, <2>3, <3>1, <3>2
    <2> QED
      BY <2>2, <2>3
  <1>6. \A j, k \in DOMAIN queue' : queue'[j] = queue'[k] => j = k
    <2> SUFFICES ASSUME NEW j \in 1..(Len(queue) - 1), NEW k \in 1..(Len(queue) - 1),
                        queue[j + 1] = queue[k + 1]
                 PROVE  j = k
      BY <1>2
    <2>1. j + 1 \in 1..Len(queue) /\ k + 1 \in 1..Len(queue)
      BY <1>2
    <2>2. j + 1 = k + 1
      BY <1>4, <2>1
    <2> QED
      BY <2>2
  <1> QED
    BY <1>1, <1>2, <1>3, <1>5, <1>6
    DEF GateInv, GateTypeOK, NoneForgotten, NoneOutlives

LEMMA StopKeeps ==
  ASSUME GateInv, Stop
  PROVE  GateInv'
  <1>1. /\ phase' = "stopped" /\ queue' = <<>>
        /\ \A c \in Conns : st[c] \in Lives /\ st'[c] = Stopped(st[c])
        /\ st' = [c \in Conns |-> Stopped(st[c])]
    BY DEF Stop, GateInv, GateTypeOK
  <1>2. \A c \in Conns : st'[c] \in {"none", "refused", "over"}
    BY <1>1 DEF Stopped, Lives
  <1> QED
    BY <1>1, <1>2 DEF GateInv, GateTypeOK, Phases, Lives, NoneForgotten, NoneOutlives

LEMMA NextGateInv == GateInv /\ [Next]_gateVars => GateInv'
  <1> SUFFICES ASSUME GateInv, [Next]_gateVars PROVE GateInv'
    OBVIOUS
  <1>1. CASE Open
    BY <1>1 DEF Open, GateInv, GateTypeOK, Phases, NoneForgotten, NoneOutlives
  <1>2. CASE Take
    BY <1>2, TakeKeeps
  <1>3. CASE Stop
    BY <1>3, StopKeeps
  <1>4. ASSUME NEW c \in Conns, Arrive(c)
        PROVE  GateInv'
    BY <1>4, ArriveKeeps
  <1>5. ASSUME NEW c \in Conns, Admit(c) \/ Refuse(c) \/ Finish(c) \/ Forget(c)
        PROVE  GateInv'
    <2>1. PICK l \in Lives \ {"waiting"} :
            /\ st' = [st EXCEPT ![c] = l] /\ st[c] # "waiting"
            /\ phase = "open" \/ l \notin {"held", "admitted"}
            /\ UNCHANGED <<phase, queue>>
      BY <1>5 DEF Admit, Refuse, Finish, Forget, Turn, Lives
    <2> QED
      BY <2>1, TurnKeeps
  <1>6. CASE UNCHANGED gateVars
    BY <1>6 DEF gateVars, GateInv, GateTypeOK, NoneForgotten, NoneOutlives
  <1> QED
    BY <1>1, <1>2, <1>3, <1>4, <1>5, <1>6 DEF Next

(* A gate forgets nobody who waits, keeps each in its queue once, and      *)
(* nobody outlives it.                                                     *)
THEOREM GateInvariant == Spec => []GateInv
  BY InitGateInv, NextGateInv, PTL DEF Spec

-----------------------------------------------------------------------------
(* What a step may not do.                                                 *)

LEMMA NextInOrder ==
  ASSUME GateInv, [Next]_gateVars,
         NEW j \in DOMAIN queue, NEW k \in DOMAIN queue, j < k,
         phase' = "open", st'[queue[k]] # "waiting"
  PROVE  st'[queue[j]] # "waiting"
  <1>1. /\ queue \in Seq(Conns) /\ st \in [Conns -> Lives]
        /\ j \in 1..Len(queue) /\ k \in 1..Len(queue) /\ Len(queue) \in Nat
        /\ queue[j] \in Conns /\ queue[k] \in Conns
        /\ st[queue[j]] = "waiting" /\ st[queue[k]] = "waiting"
    BY DEF GateInv, GateTypeOK, NoneForgotten
  <1>2. CASE Take
    <2>1. queue # <<>> /\ Head(queue) = queue[1] /\ k # 1 /\ 1 \in DOMAIN queue
      BY <1>1
    <2>2. queue[k] # queue[1]
      BY <2>1 DEF GateInv, NoneForgotten
    <2>3. st'[queue[k]] = st[queue[k]]
      BY <1>1, <1>2, <2>1, <2>2 DEF Take
    <2> QED
      BY <1>1, <2>3
  <1>3. ASSUME NEW c \in Conns, Arrive(c)
        PROVE  st'[queue[k]] = "waiting"
    BY <1>1, <1>3 DEF Arrive
  <1>4. ASSUME NEW c \in Conns, Admit(c) \/ Refuse(c) \/ Finish(c) \/ Forget(c)
        PROVE  st'[queue[k]] = "waiting"
    BY <1>1, <1>4 DEF Admit, Refuse, Finish, Forget, Turn
  <1>5. CASE Open \/ Stop \/ UNCHANGED gateVars
    BY <1>1, <1>5 DEF Open, Stop, gateVars
  <1> QED
    BY <1>2, <1>3, <1>4, <1>5 DEF Next

(* A gate takes its sessions in the order in which they came.              *)
THEOREM GateInOrder == Spec => InOrder
  <1>1. GateInv /\ [Next]_gateVars =>
          [\A j, k \in DOMAIN queue :
             j < k /\ phase' = "open" /\ st'[queue[k]] # "waiting"
               => st'[queue[j]] # "waiting"]_gateVars
    BY NextInOrder
  <1> QED
    BY <1>1, GateInvariant, PTL DEF Spec, InOrder

LEMMA NextOnlyForward ==
  ASSUME GateInv, [Next]_gateVars, NEW c \in Conns, st'[c] # st[c]
  PROVE  <<st[c], st'[c]>> \in Goes
  <1>1. st \in [Conns -> Lives]
    BY DEF GateInv, GateTypeOK
  <1>2. CASE Take
    BY <1>1, <1>2 DEF Take, Goes
  <1>3. CASE Stop
    BY <1>1, <1>3 DEF Stop, Stopped, Goes, Lives
  <1>4. ASSUME NEW d \in Conns,
               Arrive(d) \/ Admit(d) \/ Refuse(d) \/ Finish(d) \/ Forget(d)
        PROVE  <<st[c], st'[c]>> \in Goes
    <2>1. CASE Arrive(d)
      BY <1>1, <2>1 DEF Arrive, Goes
    <2>2. CASE Admit(d) \/ Refuse(d) \/ Finish(d)
      BY <1>1, <2>2 DEF Admit, Refuse, Finish, Turn, Goes
    <2>3. CASE Forget(d)
      BY <1>1, <2>3 DEF Forget, Goes
    <2> QED
      BY <1>4, <2>1, <2>2, <2>3
  <1>5. CASE Open \/ UNCHANGED gateVars
    BY <1>5 DEF Open, gateVars
  <1> QED
    BY <1>2, <1>3, <1>4, <1>5 DEF Next

(* A gate decides on each session once: it is admitted at most once, never *)
(* after a refusal, and never without having been taken from the queue.    *)
THEOREM GateOnlyForward == Spec => OnlyForward
  <1>1. GateInv /\ [Next]_gateVars =>
          [\A c \in Conns : st'[c] # st[c] => <<st[c], st'[c]>> \in Goes]_gateVars
    BY NextOnlyForward
  <1> QED
    BY <1>1, GateInvariant, PTL DEF Spec, OnlyForward

=============================================================================
