-------------------------------- MODULE Relay --------------------------------
(***************************************************************************)
(* What the proxy promises the two endpoints it connects, whatever is      *)
(* between them: one forward::pump, or the pumps of an initiator and a      *)
(* terminator in a row.  Each endpoint reads a growing prefix of what the  *)
(* other one writes, and then learns how its stream ended:                 *)
(*   "complete"  it has everything the other endpoint ever wrote;          *)
(*   "cut"       an ordinary end of stream, with no such promise;          *)
(*   "broken"    a reset.                                                  *)
(* Bytes are their positions: <<s, i>> is the i-th byte written by s.      *)
(***************************************************************************)
EXTENDS Integers, Sequences

Sides == {"source", "destination"}

Other(s) == IF s = "source" THEN "destination" ELSE "source"

VARIABLES
  sent,     \* how many bytes each endpoint wrote
  done,     \* the endpoint writes no more
  recv,     \* the bytes each endpoint read
  verdict   \* how its stream ended, or "open"

vars == <<sent, done, recv, verdict>>

Init ==
  /\ sent = [s \in Sides |-> 0]
  /\ done = [s \in Sides |-> FALSE]
  /\ recv = [s \in Sides |-> <<>>]
  /\ verdict = [s \in Sides |-> "open"]

Send(s) ==
  /\ ~done[s]
  /\ sent' = [sent EXCEPT ![s] = @ + 1]
  /\ UNCHANGED <<done, recv, verdict>>

Finish(s) ==
  /\ ~done[s]
  /\ done' = [done EXCEPT ![s] = TRUE]
  /\ UNCHANGED <<sent, recv, verdict>>

(* The connection of s breaks: it writes no more, and reads no more.       *)
Break(s) ==
  /\ done' = [done EXCEPT ![s] = TRUE]
  /\ verdict' = [verdict EXCEPT ![s] = IF @ = "open" THEN "broken" ELSE @]
  /\ UNCHANGED <<sent, recv>>

Deliver(s) ==
  /\ verdict[s] = "open"
  /\ Len(recv[s]) < sent[Other(s)]
  /\ recv' = [recv EXCEPT ![s] = Append(@, <<Other(s), Len(@) + 1>>)]
  /\ UNCHANGED <<sent, done, verdict>>

EndComplete(s) ==
  /\ verdict[s] = "open"
  /\ done[Other(s)] /\ Len(recv[s]) = sent[Other(s)]
  /\ verdict' = [verdict EXCEPT ![s] = "complete"]
  /\ UNCHANGED <<sent, done, recv>>

EndCut(s) ==
  /\ verdict[s] = "open"
  /\ verdict' = [verdict EXCEPT ![s] = "cut"]
  /\ UNCHANGED <<sent, done, recv>>

Next ==
  \E s \in Sides :
    \/ Send(s) \/ Finish(s) \/ Break(s)
    \/ Deliver(s) \/ EndComplete(s) \/ EndCut(s)

Spec == Init /\ [][Next]_vars

-----------------------------------------------------------------------------
(* What follows of every relay, and so of one pump and of two.             *)

Verdicts == {"open", "complete", "cut", "broken"}

RelayTypeOK ==
  /\ sent \in [Sides -> Nat]
  /\ done \in [Sides -> BOOLEAN]
  /\ recv \in [Sides -> Seq(Sides \X Nat)]
  /\ verdict \in [Sides -> Verdicts]

(* What an endpoint has read is the beginning of what the other one wrote, *)
(* and all of it, for ever, once it was told that its stream is complete.  *)
RelayInv ==
  /\ RelayTypeOK
  /\ \A s \in Sides :
       /\ Len(recv[s]) <= sent[Other(s)]
       /\ \A i \in DOMAIN recv[s] : recv[s][i] = <<Other(s), i>>
       /\ verdict[s] = "complete" =>
            done[Other(s)] /\ Len(recv[s]) = sent[Other(s)]

(* Nothing is taken back: an endpoint reads its stream byte by byte, reads *)
(* nothing after its end, and is not told of another end; one that has     *)
(* ended its own writes no more.                                           *)
Irrevocable ==
  [][\A s \in Sides :
       /\ \/ recv'[s] = recv[s]
          \/ recv'[s] = Append(recv[s], <<Other(s), Len(recv[s]) + 1>>)
       /\ verdict[s] # "open" => verdict'[s] = verdict[s] /\ recv'[s] = recv[s]
       /\ done[s] => done'[s] /\ sent'[s] = sent[s]]_vars

=============================================================================
