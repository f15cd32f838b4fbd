-------------------------------- MODULE Gate --------------------------------
(***************************************************************************)
(* What either mode of the proxy is to those who connect to it: a gate that *)
(* takes sessions in the order in which they came, admits each at most     *)
(* once, and admits none that it has turned away.  When the gate stops, so *)
(* does every session.  What makes it admit one is not its business.       *)
(***************************************************************************)
EXTENDS Integers, Sequences

CONSTANT Conns

VARIABLES
  phase,  \* "closed" until it listens, "open", "stopped"
  queue,  \* the sessions that wait, in order of arrival
  st      \* each session: "none", "waiting", "held" (being looked at),
          \* "admitted" (the other side is contacted for it), "refused", "over"

gateVars == <<phase, queue, st>>

Init ==
  /\ phase = "closed" /\ queue = <<>>
  /\ st = [c \in Conns |-> "none"]

Open == phase = "closed" /\ phase' = "open" /\ UNCHANGED <<queue, st>>

Arrive(c) ==
  /\ phase = "open" /\ st[c] = "none"
  /\ queue' = Append(queue, c)
  /\ st' = [st EXCEPT ![c] = "waiting"]
  /\ UNCHANGED phase

Take ==
  /\ phase = "open" /\ queue # <<>>
  /\ st[Head(queue)] = "waiting"
  /\ queue' = Tail(queue)
  /\ st' = [st EXCEPT ![Head(queue)] = "held"]
  /\ UNCHANGED phase

Turn(c, before, after) ==
  /\ phase = "open" /\ st[c] = before
  /\ st' = [st EXCEPT ![c] = after]
  /\ UNCHANGED <<phase, queue>>

Admit(c) == Turn(c, "held", "admitted")
Refuse(c) == Turn(c, "held", "refused")
Finish(c) == Turn(c, "admitted", "over")

(* The slot of a session that is over is used for another one, also after  *)
(* the gate has stopped.                                                   *)
Forget(c) ==
  /\ st[c] \in {"refused", "over"}
  /\ st' = [st EXCEPT ![c] = "none"]
  /\ UNCHANGED <<phase, queue>>

Stopped(s) ==
  CASE s \in {"waiting", "held"} -> "refused"
    [] s = "admitted" -> "over"
    [] OTHER -> s

Stop ==
  /\ phase # "stopped" /\ phase' = "stopped"
  /\ queue' = <<>>
  /\ st' = [c \in Conns |-> Stopped(st[c])]

Next ==
  \/ Open \/ Take \/ Stop
  \/ \E c \in Conns :
       Arrive(c) \/ Admit(c) \/ Refuse(c) \/ Finish(c) \/ Forget(c)

Spec == Init /\ [][Next]_gateVars

-----------------------------------------------------------------------------
(* What follows of every gate, and so of both modes.                       *)

Phases == {"closed", "open", "stopped"}
Lives == {"none", "waiting", "held", "admitted", "refused", "over"}

GateTypeOK ==
  /\ phase \in Phases
  /\ queue \in Seq(Conns)
  /\ st \in [Conns -> Lives]

(* Nobody is forgotten: the sessions that wait are those in the queue, and *)
(* each is in it once.                                                     *)
NoneForgotten ==
  /\ \A c \in Conns : st[c] = "waiting" <=> \E k \in DOMAIN queue : queue[k] = c
  /\ \A j, k \in DOMAIN queue : queue[j] = queue[k] => j = k

(* Nobody outlives the gate: while it is not open no session waits, is     *)
(* looked at or is admitted.                                               *)
NoneOutlives ==
  phase # "open" => \A c \in Conns : st[c] \notin {"waiting", "held", "admitted"}

GateInv == GateTypeOK /\ NoneForgotten /\ NoneOutlives

(* Nobody is passed by: while the gate is open, a session is not taken     *)
(* before those that came earlier.                                         *)
InOrder ==
  [][\A j, k \in DOMAIN queue :
       j < k /\ phase' = "open" /\ st'[queue[k]] # "waiting"
         => st'[queue[j]] # "waiting"]_gateVars

(* Nobody is admitted twice, or after a refusal: from its arrival to its   *)
(* end a session only goes forward, and no stage is left out.              *)
Goes ==
  {<<"none", "waiting">>, <<"waiting", "held">>, <<"held", "admitted">>,
   <<"waiting", "refused">>, <<"held", "refused">>, <<"admitted", "over">>,
   <<"refused", "none">>, <<"over", "none">>}

OnlyForward ==
  [][\A c \in Conns : st'[c] # st[c] => <<st[c], st'[c]>> \in Goes]_gateVars

=============================================================================
