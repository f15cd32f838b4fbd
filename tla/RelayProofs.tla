---------------------------- MODULE RelayProofs ----------------------------
(***************************************************************************)
(* What every relay promises, however much its endpoints write.  One pump  *)
(* and the chain of two implement Relay, so that PumpProofs and ChainProofs*)
(* take these theorems over.                                               *)
(***************************************************************************)
EXTENDS Relay, TLAPS

LEMMA OtherSide ==
  ASSUME NEW s \in Sides
  PROVE  Other(s) \in Sides /\ Other(s) # s /\ Other(Other(s)) = s
  BY DEF Sides, Other

(* What one more byte does to a stream.                                    *)
LEMMA OneMore ==
  ASSUME NEW S, NEW q \in Seq(S), NEW e \in S
  PROVE  /\ Append(q, e) \in Seq(S)
         /\ Len(q) \in Nat /\ Len(Append(q, e)) = Len(q) + 1
         /\ DOMAIN q = 1..Len(q) /\ DOMAIN Append(q, e) = 1..(Len(q) + 1)
         /\ \A i \in 1..Len(q) : Append(q, e)[i] = q[i]
         /\ Append(q, e)[Len(q) + 1] = e
  OBVIOUS

(* An endpoint that has ended its stream does not begin another.           *)
LEMMA DoneStep ==
  ASSUME RelayTypeOK, [Next]_vars
  PROVE  /\ done' \in [Sides -> BOOLEAN]
         /\ \A s \in Sides : done[s] => done'[s]
  <1>1. \/ done' = done
        \/ \E t \in Sides : done' = [done EXCEPT ![t] = TRUE]
    BY DEF Next, vars, Send, Finish, Break, Deliver, EndComplete, EndCut
  <1> QED
    BY <1>1, Zenon DEF RelayTypeOK

(* What else a step may change at one side.                                *)
Grown(s) ==
  /\ sent'[s] \in Nat /\ sent'[s] >= sent[s] /\ (done[s] => sent'[s] = sent[s])
  /\ recv'[s] \in Seq(Sides \X Nat) /\ verdict'[s] \in Verdicts
  /\ \/ recv'[s] = recv[s]
     \/ /\ verdict[s] = "open" /\ verdict'[s] = "open"
        /\ Len(recv[s]) < sent[Other(s)]
        /\ recv'[s] = Append(recv[s], <<Other(s), Len(recv[s]) + 1>>)
  /\ \/ verdict'[s] = verdict[s]
     \/ /\ verdict[s] = "open" /\ recv'[s] = recv[s]
        /\ verdict'[s] = "complete" =>
             done[Other(s)] /\ Len(recv[s]) = sent[Other(s)]

LEMMA StepGrows ==
  ASSUME RelayTypeOK, [Next]_vars, NEW s \in Sides
  PROVE  Grown(s)
  <1>0. /\ sent[s] \in Nat /\ recv[s] \in Seq(Sides \X Nat)
        /\ verdict[s] \in Verdicts
    BY DEF RelayTypeOK
  <1>1. CASE UNCHANGED vars
    BY <1>0, <1>1 DEF vars, Grown
  <1>2. ASSUME NEW t \in Sides, Send(t) PROVE Grown(s)
    <2>1. /\ UNCHANGED <<recv, verdict>>
          /\ sent'[s] = sent[s] \/ (~done[s] /\ sent'[s] = sent[s] + 1)
      BY <1>2 DEF Send, RelayTypeOK
    <2> QED
      BY <1>0, <2>1 DEF Grown
  <1>3. ASSUME NEW t \in Sides, Finish(t) PROVE Grown(s)
    BY <1>0, <1>3 DEF Finish, Grown
  <1>4. ASSUME NEW t \in Sides, Break(t) PROVE Grown(s)
    <2>1. /\ UNCHANGED <<sent, recv>>
          /\ \/ verdict'[s] = verdict[s]
             \/ verdict[s] = "open" /\ verdict'[s] = "broken"
      BY <1>4 DEF Break, RelayTypeOK
    <2> QED
      BY <1>0, <2>1 DEF Grown, Verdicts
  <1>5. ASSUME NEW t \in Sides, Deliver(t) PROVE Grown(s)
    <2> DEFINE more == Append(recv[s], <<Other(s), Len(recv[s]) + 1>>)
    <2>1. <<Other(s), Len(recv[s]) + 1>> \in Sides \X Nat
      BY <1>0, OtherSide
    <2>2. more \in Seq(Sides \X Nat)
      BY <1>0, <2>1
    <2>3. \/ recv'[s] = recv[s]
          \/ /\ verdict[s] = "open" /\ Len(recv[s]) < sent[Other(s)]
             /\ recv'[s] = more
      BY <1>5 DEF Deliver, RelayTypeOK
    <2>4. sent' = sent /\ verdict' = verdict
      BY <1>5 DEF Deliver
    <2> HIDE DEF more
    <2>5. recv'[s] \in Seq(Sides \X Nat)
      BY <1>0, <2>2, <2>3
    <2>6. sent'[s] \in Nat /\ sent'[s] >= sent[s] /\ sent'[s] = sent[s]
      BY <1>0, <2>4
    <2> QED
      BY <1>0, <2>3, <2>4, <2>5, <2>6 DEF Grown, more
  <1>6. ASSUME NEW t \in Sides, EndComplete(t) PROVE Grown(s)
    BY <1>0, <1>6 DEF EndComplete, RelayTypeOK, Grown, Verdicts
  <1>7. ASSUME NEW t \in Sides, EndCut(t) PROVE Grown(s)
    BY <1>0, <1>7 DEF EndCut, RelayTypeOK, Grown, Verdicts
  <1> QED
    BY <1>1, <1>2, <1>3, <1>4, <1>5, <1>6, <1>7 DEF Next

(* A step keeps the types: the variables are functions on the two sides.   *)
LEMMA StepTypes ==
  ASSUME RelayTypeOK, [Next]_vars
  PROVE  RelayTypeOK'
  <1> DEFINE F(f) == f = [s \in Sides |-> f[s]]
  <1>1. F(sent) /\ F(recv) /\ F(verdict)
    BY DEF RelayTypeOK
  <1>2. F(sent')
    BY <1>1 DEF Next, vars, Send, Finish, Break, Deliver, EndComplete, EndCut
  <1>3. F(recv')
    BY <1>1 DEF Next, vars, Send, Finish, Break, Deliver, EndComplete, EndCut
  <1>4. F(verdict')
    BY <1>1 DEF Next, vars, Send, Finish, Break, Deliver, EndComplete, EndCut
  <1>5. sent' \in [Sides -> Nat]
    BY <1>2, StepGrows DEF Grown
  <1>6. recv' \in [Sides -> Seq(Sides \X Nat)]
    BY <1>3, StepGrows DEF Grown
  <1>7. verdict' \in [Sides -> Verdicts]
    BY <1>4, StepGrows DEF Grown
  <1> QED
    BY <1>5, <1>6, <1>7, DoneStep DEF RelayTypeOK

LEMMA InitRelayInv == Init => RelayInv
  <1> SUFFICES ASSUME Init PROVE RelayInv
    OBVIOUS
  <1>1. done \in [Sides -> BOOLEAN]
    BY Zenon DEF Init
  <1>2. <<>> \in Seq(Sides \X Nat)
    OBVIOUS
  <1>3. /\ sent \in [Sides -> Nat] /\ recv \in [Sides -> Seq(Sides \X Nat)]
        /\ verdict \in [Sides -> Verdicts]
    BY <1>2 DEF Init, Verdicts
  <1>4. \A s \in Sides : sent[s] = 0 /\ recv[s] = <<>> /\ verdict[s] = "open"
    BY DEF Init
  <1> QED
    BY <1>1, <1>3, <1>4, OtherSide DEF RelayInv, RelayTypeOK

LEMMA NextRelayInv ==
  ASSUME RelayInv, [Next]_vars
  PROVE  RelayInv'
  <1>0. RelayTypeOK /\ RelayTypeOK'
    BY StepTypes DEF RelayInv
  <1>1. ASSUME NEW s \in Sides
        PROVE  /\ Len(recv'[s]) <= sent'[Other(s)]
               /\ \A i \in DOMAIN recv'[s] : recv'[s][i] = <<Other(s), i>>
               /\ verdict'[s] = "complete" =>
                    done'[Other(s)] /\ Len(recv'[s]) = sent'[Other(s)]
    <2> DEFINE o == Other(s)
               e == <<o, Len(recv[s]) + 1>>
    <2>0. o \in Sides
      BY OtherSide
    <2>1. Grown(s) /\ Grown(o)
      BY <1>0, <2>0, StepGrows
    <2>2. /\ Len(recv[s]) \in Nat /\ recv[s] \in Seq(Sides \X Nat)
          /\ sent[o] \in Nat /\ sent'[o] \in Nat /\ sent[o] <= sent'[o]
      BY <1>0, <2>0, <2>1 DEF RelayTypeOK, Grown
    <2>3. /\ Len(recv[s]) <= sent[o]
          /\ \A i \in DOMAIN recv[s] : recv[s][i] = <<o, i>>
          /\ verdict[s] = "complete" => done[o] /\ Len(recv[s]) = sent[o]
      BY DEF RelayInv
    <2>4. done[o] => done'[o] /\ sent'[o] = sent[o]
      BY <1>0, <2>0, <2>1, DoneStep DEF Grown, RelayInv
    <2>5. CASE recv'[s] = recv[s]
      BY <2>1, <2>2, <2>3, <2>4, <2>5 DEF Grown
    <2>6. CASE recv'[s] # recv[s]
      <3>1. /\ recv'[s] = Append(recv[s], e)
            /\ Len(recv[s]) < sent[o] /\ verdict'[s] = "open"
        BY <2>1, <2>6 DEF Grown
      <3>2. e \in Sides \X Nat
        BY <2>0, <2>2
      <3>3. /\ Len(recv'[s]) = Len(recv[s]) + 1
            /\ DOMAIN recv[s] = 1..Len(recv[s])
            /\ DOMAIN recv'[s] = 1..(Len(recv[s]) + 1)
            /\ \A i \in 1..Len(recv[s]) : recv'[s][i] = recv[s][i]
            /\ recv'[s][Len(recv[s]) + 1] = e
        BY <2>2, <3>1, <3>2, OneMore
      <3> QED
        BY <2>2, <2>3, <3>1, <3>3
    <2> QED
      BY <2>5, <2>6
  <1> QED
    BY <1>0, <1>1 DEF RelayInv

(* Each endpoint has read a prefix of what the other one wrote, and all of *)
(* it if its stream was called complete.                                   *)
THEOREM RelayInvariant == Spec => []RelayInv
  BY InitRelayInv, NextRelayInv, PTL DEF Spec

(* Nothing that an endpoint has read or was told is ever taken back.       *)
THEOREM RelayIrrevocable == Spec => Irrevocable
  <1>1. RelayInv /\ [Next]_vars =>
          [\A s \in Sides :
             /\ \/ recv'[s] = recv[s]
                \/ recv'[s] = Append(recv[s], <<Other(s), Len(recv[s]) + 1>>)
             /\ verdict[s] # "open" => verdict'[s] = verdict[s] /\ recv'[s] = recv[s]
             /\ done[s] => done'[s] /\ sent'[s] = sent[s]]_vars
    BY StepGrows, DoneStep DEF RelayInv, Grown
  <1> QED
    BY <1>1, RelayInvariant, PTL DEF Spec, Irrevocable

=============================================================================
