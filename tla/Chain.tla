-------------------------------- MODULE Chain --------------------------------
(***************************************************************************)
(* One session through both proxies: a client, the initiator that accepted *)
(* it, the TCP-AO connection (the wire), the terminator at its other end   *)
(* and the backend.                                                        *)
(*                                                                         *)
(* Each half is an instance of Pump.  The initiator runs pump(plain, wire) *)
(* and the terminator pump(wire, plain), so that the "destination" of the  *)
(* one and the "source" of the other are the two ends of the wire: what    *)
(* one end receives of the other is what the other pump's endpoint sends.  *)
(* Before its pump a half is in handle_connection, and may fail there; and *)
(* at any moment its process may exit, with all its sessions.              *)
(***************************************************************************)
EXTENDS Integers, Sequences

CONSTANTS
  BufSize, InCap, OutCap,         \* as in Pump
  MaxBytes,                       \* as in Pump, of client and backend
  InitiatorIdle, TerminatorIdle   \* the two idle timeouts

(* The client is the source of both pumps, and what it writes the wire     *)
(* brings to the second; the backend is their destination.                 *)
Sides == {"source", "destination"}

ASSUME BufSizeAssumption == BufSize \in Nat \ {0}
ASSUME InCapAssumption == InCap \in Nat \ {0}
ASSUME OutCapAssumption == OutCap \in Nat \ {0}
ASSUME MaxBytesAssumption == MaxBytes \in [Sides -> Nat]
ASSUME IdleAssumption == InitiatorIdle \in Nat /\ TerminatorIdle \in Nat

VARIABLES
  stage,   \* "dial": the initiator is in connect(); "accepted": the wire is
           \* up and the terminator in its handle_connection; "joined": the
           \* terminator has its connection to the backend
  iPc, iFrom, iBuf, iCount, iForwarded, iResult, iTimer, iInq, iTail, iOutq,
  iShut, iDead, iSent, iRecv, iEof, iQuiet,
  tPc, tFrom, tBuf, tCount, tForwarded, tResult, tTimer, tInq, tTail, tOutq,
  tShut, tDead, tSent, tRecv, tEof, tQuiet

I == INSTANCE Pump WITH
       IdleSecs <- InitiatorIdle, pc <- iPc, from <- iFrom, buf <- iBuf,
       count <- iCount, forwarded <- iForwarded, result <- iResult,
       timer <- iTimer, inq <- iInq, tail <- iTail, outq <- iOutq,
       shut <- iShut, dead <- iDead, sent <- iSent, recv <- iRecv,
       eof <- iEof, quiet <- iQuiet

T == INSTANCE Pump WITH
       IdleSecs <- TerminatorIdle, pc <- tPc, from <- tFrom, buf <- tBuf,
       count <- tCount, forwarded <- tForwarded, result <- tResult,
       timer <- tTimer, inq <- tInq, tail <- tTail, outq <- tOutq,
       shut <- tShut, dead <- tDead, sent <- tSent, recv <- tRecv,
       eof <- tEof, quiet <- tQuiet

iVars == <<iPc, iFrom, iBuf, iCount, iForwarded, iResult, iTimer, iInq, iTail,
           iOutq, iShut, iDead, iSent, iRecv, iEof, iQuiet>>
tVars == <<tPc, tFrom, tBuf, tCount, tForwarded, tResult, tTimer, tInq, tTail,
           tOutq, tShut, tDead, tSent, tRecv, tEof, tQuiet>>
vars == <<stage, iVars, tVars>>

Init == stage = "dial" /\ I!Init /\ T!Init

-----------------------------------------------------------------------------
(* The two tasks.                                                          *)

(* connect() to remote_ao succeeds, and the initiator starts its pump.     *)
Dial ==
  /\ stage = "dial" /\ iPc = "select"
  /\ stage' = "accepted"
  /\ UNCHANGED <<iVars, tVars>>

(* handle_connection returns an error before its pump, at the latest from  *)
(* a keepalive option when the wire is already up.                         *)
DialFails ==
  /\ stage = "dial" /\ iPc = "select"
  /\ stage' \in {"dial", "accepted"}
  /\ I!Return("Error", {})
  /\ UNCHANGED tVars

(* Policy, verification, connect() to the backend: the terminator starts   *)
(* its pump, or drops the wire on which bytes may already wait, and the    *)
(* connection to the backend if it has one.                                *)
Join ==
  /\ stage = "accepted" /\ tPc = "select"
  /\ stage' = "joined"
  /\ UNCHANGED <<iVars, tVars>>

JoinFails ==
  /\ stage = "accepted" /\ tPc = "select"
  /\ stage' \in {"accepted", "joined"}
  /\ T!Return("Error", {})
  /\ UNCHANGED iVars

InitiatorStep ==
  /\ stage # "dial"
  /\ I!PumpStep
  /\ UNCHANGED <<stage, tVars>>

(* Slip: bytes are forwarded before the session is verified.               *)
TerminatorEager ==
  /\ stage # "dial"
  /\ T!PumpStep
  /\ UNCHANGED <<stage, iVars>>

TerminatorStep ==
  /\ stage = "joined"
  /\ T!PumpStep
  /\ UNCHANGED <<stage, iVars>>

(* The process of one half exits with all its sessions, because accept()   *)
(* failed or a signal ended it: the kernel closes the sockets of this one, *)
(* in the backlog, in handle_connection or in its pump, and nobody reports *)
(* its end.                                                                *)
InitiatorExit == I!Exit /\ UNCHANGED <<stage, tVars>>
TerminatorExit == stage # "dial" /\ T!Exit /\ UNCHANGED <<stage, iVars>>

-----------------------------------------------------------------------------
(* The wire.  What reaches one end of it has left the other.               *)

CarryUp ==
  /\ stage # "dial"
  /\ I!Receive("destination") /\ T!Send("source")
  /\ UNCHANGED stage

CarryDown ==
  /\ T!Receive("source") /\ I!Send("destination")
  /\ UNCHANGED stage

FinUp ==
  /\ stage # "dial"
  /\ I!SeeEof("destination") /\ T!Finish("source")
  /\ UNCHANGED stage

FinDown ==
  /\ T!SeeEof("source") /\ I!Finish("destination")
  /\ UNCHANGED stage

(* An end that was closed over unread bytes resets the wire, or the network*)
(* fails; the other end learns of it later, if at all.                     *)
ResetInitiatorEnd ==
  /\ stage # "dial"
  /\ I!LateReset("destination") \/ I!Abort("destination")
  /\ UNCHANGED <<stage, tVars>>

ResetTerminatorEnd ==
  /\ stage # "dial"
  /\ T!LateReset("source") \/ T!Abort("source")
  /\ UNCHANGED <<stage, iVars>>

Wire ==
  \/ CarryUp \/ CarryDown \/ FinUp \/ FinDown
  \/ ResetInitiatorEnd \/ ResetTerminatorEnd

-----------------------------------------------------------------------------
(* The client and the backend, and the clocks of the two pumps.            *)

ClientReads == (I!Receive("source") \/ I!SeeEof("source")) /\ UNCHANGED <<stage, tVars>>
ClientReset == I!LateReset("source") /\ UNCHANGED <<stage, tVars>>
ClientWrites ==
  /\ I!Send("source") \/ I!Finish("source") \/ I!Abort("source")
  /\ UNCHANGED <<stage, tVars>>

BackendReads ==
  /\ stage = "joined"
  /\ T!Receive("destination") \/ T!SeeEof("destination")
  /\ UNCHANGED <<stage, iVars>>
BackendReset ==
  stage = "joined" /\ T!LateReset("destination") /\ UNCHANGED <<stage, iVars>>
BackendWrites ==
  /\ stage = "joined"
  /\ T!Send("destination") \/ T!Finish("destination") \/ T!Abort("destination")
  /\ UNCHANGED <<stage, iVars>>

InitiatorTick == stage # "dial" /\ I!Tick /\ UNCHANGED <<stage, tVars>>
TerminatorTick == stage = "joined" /\ T!Tick /\ UNCHANGED <<stage, iVars>>

Next ==
  \/ Dial \/ DialFails \/ Join \/ JoinFails
  \/ InitiatorStep \/ TerminatorStep \/ InitiatorTick \/ TerminatorTick
  \/ InitiatorExit \/ TerminatorExit
  \/ Wire
  \/ ClientReads \/ ClientReset \/ ClientWrites
  \/ BackendReads \/ BackendReset \/ BackendWrites

Spec == Init /\ [][Next]_vars

(* An end of the wire does not outlive the other for ever: its next        *)
(* segment is answered by a reset, or keepalive gives it up, which the     *)
(* configuration must ask for (tcp_keepalive).                             *)
Notice ==
  \/ tDead["source"] /\ I!Abort("destination") /\ UNCHANGED <<stage, tVars>>
  \/ iDead["destination"] /\ T!Abort("source") /\ UNCHANGED <<stage, iVars>>

Carry ==
  \/ CarryUp \/ CarryDown \/ FinUp \/ FinDown \/ Notice
  \/ I!LateReset("destination") /\ UNCHANGED <<stage, tVars>>
  \/ T!LateReset("source") /\ UNCHANGED <<stage, iVars>>

(* handle_connection gets to its pump or fails and tokio polls both pumps; *)
(* the kernels carry and deliver what they hold; client and backend read.  *)
FairSpec ==
  /\ Spec
  /\ WF_vars(Dial \/ DialFails \/ InitiatorStep)
  /\ WF_vars(Join \/ JoinFails \/ TerminatorStep)
  /\ WF_vars(Carry)
  /\ WF_vars(ClientReads \/ ClientReset)
  /\ WF_vars(BackendReads \/ BackendReset)

-----------------------------------------------------------------------------
(* Properties.                                                             *)

(* The client's i-th byte, as the bytes that the backend read name it: the *)
(* i-th byte of the terminator's source is the i-th one the wire took from *)
(* the initiator.  And the other way.                                      *)
BackendRecv == [j \in DOMAIN tRecv["destination"] |->
                  iRecv["destination"][tRecv["destination"][j][2]]]
ClientRecv == [j \in DOMAIN iRecv["source"] |->
                 tRecv["source"][iRecv["source"][j][2]]]

(* End to end, whatever the two pumps, the wire and the endpoints do, each *)
(* endpoint reads the bytes the other wrote, from the first on and in      *)
(* order; and if both halves report the end of the same side and the other *)
(* side then reads the end of its stream, it has all of it.                *)
EndToEnd ==
  /\ \A j \in DOMAIN tRecv["destination"] : BackendRecv[j] = <<"source", j>>
  /\ \A j \in DOMAIN iRecv["source"] : ClientRecv[j] = <<"destination", j>>
  /\ Len(tRecv["destination"]) <= iSent["source"]
  /\ Len(iRecv["source"]) <= tSent["destination"]
  /\ tEof["destination"] /\ tResult = "SourceEof" /\ iResult = "SourceEof" =>
       Len(tRecv["destination"]) = iSent["source"]
  /\ iEof["source"] /\ iResult = "DestinationEof" /\ tResult = "DestinationEof" =>
       Len(iRecv["source"]) = tSent["destination"]

(* Before the terminator has an entry for the session, has verified it and *)
(* reached the backend, and for ever if it refuses, nothing crosses: the   *)
(* client's bytes may already wait at the terminator, but none is on its   *)
(* way to the backend, and the client reads nothing.                       *)
NothingCrosses ==
  stage # "joined" =>
    /\ tOutq["destination"] = <<>> /\ tRecv["destination"] = <<>>
    /\ iRecv["source"] = <<>>

(* Two reports never blame each other.  A half that reports the end of the *)
(* wire does so after the other half is over, and if that one made a report*)
(* it names a cause of its own: its endpoint, its idle timer or an error.  *)
(* Only where its process exited is there no second report, and then the   *)
(* cause of the end is in neither.                                         *)
OneNamesCause ==
  /\ iResult = "DestinationEof" =>
       tResult \in {"DestinationEof", "IdleTimeout", "Error", "Killed"}
  /\ tResult = "SourceEof" =>
       iResult \in {"SourceEof", "IdleTimeout", "Error", "Killed"}

(* Backpressure crosses the wire: however much an endpoint writes, what is *)
(* between it and a slow reader fits in the two pumps and their sockets.   *)
BoundedInChain ==
  /\ iSent["source"] - Len(tRecv["destination"]) <= 2 * (InCap + BufSize + OutCap)
  /\ tSent["destination"] - Len(iRecv["source"]) <= 2 * (InCap + BufSize + OutCap)

(* The chain is a relay.  An endpoint's end of stream counts as complete   *)
(* only if both pumps report that the other endpoint ended: the half next  *)
(* to it reports the same EOF when the far half hit an error, an idle      *)
(* timeout or a refusal, or its process exited, and the wire was closed.   *)
ClientEnd ==
  CASE iEof["source"] /\ iResult = "DestinationEof" /\ tResult = "DestinationEof" -> "complete"
    [] iEof["source"] /\ ~(iResult = "DestinationEof" /\ tResult = "DestinationEof") -> "cut"
    [] ~iEof["source"] /\ iDead["source"] -> "broken"
    [] OTHER -> "open"
BackendEnd ==
  CASE tEof["destination"] /\ tResult = "SourceEof" /\ iResult = "SourceEof" -> "complete"
    [] tEof["destination"] /\ ~(tResult = "SourceEof" /\ iResult = "SourceEof") -> "cut"
    [] ~tEof["destination"] /\ tDead["destination"] -> "broken"
    [] OTHER -> "open"

Ends(client, backend) ==
  [s \in Sides |-> IF s = "source" THEN client ELSE backend]

R == INSTANCE Relay WITH
       sent <- Ends(iSent["source"], tSent["destination"]),
       done <- Ends(iTail["source"] # "open", tTail["destination"] # "open"),
       recv <- Ends(ClientRecv, BackendRecv),
       verdict <- Ends(ClientEnd, BackendEnd)

(* Every step of the two proxies and of the wire is a step of Relay, or    *)
(* changes nothing that client or backend can see.                         *)
RelaySpec == R!Spec

(* What ends one half ends everything, across both: once a pump is over or *)
(* an endpoint has ended or broken its stream, for whatever reason, both   *)
(* pumps return, and client and backend each read an end of stream or get  *)
(* a reset.                                                                *)
Ending ==
  \/ stage # "dial" /\ iPc = "returned"
  \/ tPc = "returned"
  \/ stage = "joined" /\ (iTail["source"] # "open" \/ tTail["destination"] # "open")

AllOver ==
  /\ iPc = "returned" /\ tPc = "returned"
  /\ iEof["source"] \/ iDead["source"]
  /\ stage = "joined" => tEof["destination"] \/ tDead["destination"]

EndTogether == Ending ~> AllOver

-----------------------------------------------------------------------------
(* The inductive invariant, with the one of each pump (their types are in  *)
(* it).  What one end of the wire has taken is what the other was given.   *)
WireInv ==
  /\ tSent["source"] = Len(iRecv["destination"])
  /\ iSent["destination"] = Len(tRecv["source"])
  /\ tTail["source"] = "fin" \/ tResult = "SourceEof" => iEof["destination"]
  /\ iTail["destination"] = "fin" \/ iResult = "DestinationEof" => tEof["source"]

(* What cannot have happened yet.                                          *)
StageInv ==
  /\ stage = "dial" => /\ ~iEof["destination"] /\ iResult \in {"none", "Error", "Killed"}
                       /\ tPc = "select"
  /\ stage # "joined" => tResult \in {"none", "Error", "Killed"} /\ tTail["destination"] = "open"

ChainInv ==
  /\ stage \in {"dial", "accepted", "joined"}
  /\ I!BoundInv /\ T!BoundInv
  /\ WireInv /\ StageInv

=============================================================================
