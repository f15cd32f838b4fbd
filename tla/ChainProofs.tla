---------------------------- MODULE ChainProofs ----------------------------
(***************************************************************************)
(* Theorems about Chain, for every size of the buffers and queues and all  *)
(* idle timeouts of the two proxies.  IP and TP bring in what is proved of *)
(* one pump; the lemmas on I and T follow, and then those on the wire.      *)
(***************************************************************************)
EXTENDS Chain, TLAPS

IP == INSTANCE PumpProofs WITH
       IdleSecs <- InitiatorIdle, pc <- iPc, from <- iFrom, buf <- iBuf,
       count <- iCount, forwarded <- iForwarded, result <- iResult,
       timer <- iTimer, inq <- iInq, tail <- iTail, outq <- iOutq,
       shut <- iShut, dead <- iDead, sent <- iSent, recv <- iRecv,
       eof <- iEof, quiet <- iQuiet

TP == INSTANCE PumpProofs WITH
       IdleSecs <- TerminatorIdle, pc <- tPc, from <- tFrom, buf <- tBuf,
       count <- tCount, forwarded <- tForwarded, result <- tResult,
       timer <- tTimer, inq <- tInq, tail <- tTail, outq <- tOutq,
       shut <- tShut, dead <- tDead, sent <- tSent, recv <- tRecv,
       eof <- tEof, quiet <- tQuiet

(* The stream from s to o through one pump, rep being its report of the    *)
(* end of s.                                                               *)
Ends2 == {"source", "destination"}

StreamView(s, o, rep, pc, result, tail, outq, dead, sent, recv, eof) ==
  /\ \A j \in 1..Len(recv[o]) : recv[o][j] = <<s, j>>
  /\ Len(recv[o]) \in Nat /\ sent[s] \in Nat
  /\ Len(recv[o]) <= sent[s]
  /\ sent[s] <= Len(recv[o]) + InCap + BufSize + OutCap
  /\ outq[o] # <<>> => Head(outq[o]) = <<s, Len(recv[o]) + 1>> \/ dead[o]
  /\ outq[o] # <<>> => ~eof[o] /\ Len(recv[o]) < sent[s]
  /\ eof[s] => pc = "returned"
  /\ result = "none" <=> pc # "returned"
  /\ result = rep => tail[s] # "open"
  /\ result = rep /\ eof[o] => Len(recv[o]) = sent[s]
  /\ result = rep /\ ~dead[o] /\ outq[o] = <<>> => Len(recv[o]) = sent[s]

(* What is proved of a pump is proved of the initiator's.                   *)
LEMMA InitiatorSame ==
  /\ I!Init <=> IP!Init
  /\ I!BoundInv <=> IP!BoundInv
  /\ I!BoundInv' <=> IP!BoundInv'
  /\ [I!Next]_(I!vars) <=> [IP!Next]_(IP!vars)
  /\ I!PumpStep <=> IP!PumpStep
  /\ I!Exit <=> IP!Exit
  /\ I!Return("Error", {}) <=> IP!Return("Error", {})
  BY DEF
     IP!BoundInv, I!BoundInv, IP!PumpInv, I!PumpInv, IP!TypeOK, I!TypeOK,
     IP!ControlInv, I!ControlInv, IP!TimerInv, I!TimerInv,
     IP!StreamInv, I!StreamInv, IP!CountInv, I!CountInv,
     IP!WindowInv, I!WindowInv, IP!Sides, I!Sides, IP!Other, I!Other,
     IP!Bytes, I!Bytes, IP!CloseReason, I!CloseReason, IP!EofOf, I!EofOf,
     IP!IsStream, I!IsStream, IP!Hand, I!Hand, IP!Passed, I!Passed,
     IP!Chunk, I!Chunk, IP!Init, I!Init, IP!Next, I!Next,
     IP!PumpStep, I!PumpStep, IP!ReadSome, I!ReadSome, IP!ReadEof, I!ReadEof,
     IP!ReadErr, I!ReadErr, IP!IdleFire, I!IdleFire,
     IP!WriteSome, I!WriteSome, IP!WriteErr, I!WriteErr, IP!Exit, I!Exit,
     IP!Return, I!Return,
     IP!CloseSockets, I!CloseSockets, IP!EndpointStep, I!EndpointStep,
     IP!Send, I!Send, IP!Finish, I!Finish, IP!Abort, I!Abort,
     IP!Receive, I!Receive, IP!SeeEof, I!SeeEof, IP!LateReset, I!LateReset,
     IP!Tick, I!Tick, IP!vars, I!vars, IP!pumpVars, I!pumpVars,
     IP!wireVars, I!wireVars, IP!endVars, I!endVars, IP!timeVars, I!timeVars

LEMMA InitiatorInv ==
  /\ I!Init => I!BoundInv
  /\ I!BoundInv /\ [I!Next]_(I!vars) => I!BoundInv'
  /\ I!BoundInv /\ iPc # "returned" /\ I!Return("Error", {}) => I!BoundInv'
  <1> USE BufSizeAssumption, InCapAssumption, OutCapAssumption,
          MaxBytesAssumption, IdleAssumption
      DEF Sides, IP!Sides
  <1>1. I!Init => I!BoundInv
    BY InitiatorSame, IP!InitBoundInv
  <1>2. I!BoundInv /\ [I!Next]_(I!vars) => I!BoundInv'
    BY InitiatorSame, IP!NextBoundInv
  <1>3. I!BoundInv /\ iPc # "returned" /\ I!Return("Error", {}) => I!BoundInv'
    BY InitiatorSame, IP!ErrorBoundInv
  <1> QED
    BY <1>1, <1>2, <1>3

LEMMA InitiatorView ==
  ASSUME I!BoundInv
  PROVE  /\ StreamView("source", "destination", "SourceEof",
                      iPc, iResult, iTail, iOutq, iDead, iSent,
                      iRecv, iEof)
         /\ StreamView("destination", "source", "DestinationEof",
                      iPc, iResult, iTail, iOutq, iDead, iSent,
                      iRecv, iEof)
         /\ iSent \in [Ends2 -> Nat] /\ iEof \in [Ends2 -> BOOLEAN]
         /\ iDead \in [Ends2 -> BOOLEAN]
         /\ iTail \in [Ends2 -> {"open", "fin", "rst"}]
         /\ iInq \in [Ends2 -> Seq(Ends2 \X Nat)]
         /\ iOutq \in [Ends2 -> Seq(Ends2 \X Nat)]
         /\ iRecv \in [Ends2 -> Seq(Ends2 \X Nat)]
  <1> USE BufSizeAssumption, InCapAssumption, OutCapAssumption,
          MaxBytesAssumption, IdleAssumption
      DEF Sides, IP!Sides
  <1>1. /\ "source" \in IP!Sides /\ "destination" \in IP!Sides
        /\ IP!Other("source") = "destination" /\ IP!Other("destination") = "source"
        /\ IP!EofOf("source") = "SourceEof"
        /\ IP!EofOf("destination") = "DestinationEof"
    BY DEF IP!Sides, IP!Other, IP!EofOf
  <1>2. IP!BoundInv
    BY InitiatorSame
  <1>3. StreamView("source", "destination", "SourceEof",
                      iPc, iResult, iTail, iOutq, iDead, iSent,
                      iRecv, iEof)
    BY <1>1, <1>2, IP!PumpView DEF StreamView
  <1>4. StreamView("destination", "source", "DestinationEof",
                      iPc, iResult, iTail, iOutq, iDead, iSent,
                      iRecv, iEof)
    BY <1>1, <1>2, IP!PumpView DEF StreamView
  <1> QED
    BY <1>3, <1>4 DEF I!BoundInv, I!PumpInv, I!TypeOK, I!Sides, I!Bytes, Ends2

LEMMA InitiatorStepView ==
  ASSUME I!BoundInv, I!PumpStep \/ I!Exit
  PROVE  /\ iPc # "returned"
         /\ UNCHANGED <<iSent, iRecv, iTail, iEof, iDead>>
         /\ \/ iResult' = iResult
            \/ iResult' \in {"Error", "Killed", "IdleTimeout"}
            \/ iResult' = "SourceEof" /\ iTail["source"] = "fin"
            \/ iResult' = "DestinationEof" /\ iTail["destination"] = "fin"
  <1>1. IP!BoundInv /\ (IP!PumpStep \/ IP!Exit)
    BY InitiatorSame
  <1> QED
    BY <1>1, IP!PumpStepView, BufSizeAssumption, InCapAssumption,
       OutCapAssumption, MaxBytesAssumption, IdleAssumption
    DEF Sides, IP!Sides, IP!EofOf

(* What is proved of a pump is proved of the terminator's.                  *)
LEMMA TerminatorSame ==
  /\ T!Init <=> TP!Init
  /\ T!BoundInv <=> TP!BoundInv
  /\ T!BoundInv' <=> TP!BoundInv'
  /\ [T!Next]_(T!vars) <=> [TP!Next]_(TP!vars)
  /\ T!PumpStep <=> TP!PumpStep
  /\ T!Exit <=> TP!Exit
  /\ T!Return("Error", {}) <=> TP!Return("Error", {})
  BY DEF
     TP!BoundInv, T!BoundInv, TP!PumpInv, T!PumpInv, TP!TypeOK, T!TypeOK,
     TP!ControlInv, T!ControlInv, TP!TimerInv, T!TimerInv,
     TP!StreamInv, T!StreamInv, TP!CountInv, T!CountInv,
     TP!WindowInv, T!WindowInv, TP!Sides, T!Sides, TP!Other, T!Other,
     TP!Bytes, T!Bytes, TP!CloseReason, T!CloseReason, TP!EofOf, T!EofOf,
     TP!IsStream, T!IsStream, TP!Hand, T!Hand, TP!Passed, T!Passed,
     TP!Chunk, T!Chunk, TP!Init, T!Init, TP!Next, T!Next,
     TP!PumpStep, T!PumpStep, TP!ReadSome, T!ReadSome, TP!ReadEof, T!ReadEof,
     TP!ReadErr, T!ReadErr, TP!IdleFire, T!IdleFire,
     TP!WriteSome, T!WriteSome, TP!WriteErr, T!WriteErr, TP!Exit, T!Exit,
     TP!Return, T!Return,
     TP!CloseSockets, T!CloseSockets, TP!EndpointStep, T!EndpointStep,
     TP!Send, T!Send, TP!Finish, T!Finish, TP!Abort, T!Abort,
     TP!Receive, T!Receive, TP!SeeEof, T!SeeEof, TP!LateReset, T!LateReset,
     TP!Tick, T!Tick, TP!vars, T!vars, TP!pumpVars, T!pumpVars,
     TP!wireVars, T!wireVars, TP!endVars, T!endVars, TP!timeVars, T!timeVars

LEMMA TerminatorInv ==
  /\ T!Init => T!BoundInv
  /\ T!BoundInv /\ [T!Next]_(T!vars) => T!BoundInv'
  /\ T!BoundInv /\ tPc # "returned" /\ T!Return("Error", {}) => T!BoundInv'
  <1> USE BufSizeAssumption, InCapAssumption, OutCapAssumption,
          MaxBytesAssumption, IdleAssumption
      DEF Sides, TP!Sides
  <1>1. T!Init => T!BoundInv
    BY TerminatorSame, TP!InitBoundInv
  <1>2. T!BoundInv /\ [T!Next]_(T!vars) => T!BoundInv'
    BY TerminatorSame, TP!NextBoundInv
  <1>3. T!BoundInv /\ tPc # "returned" /\ T!Return("Error", {}) => T!BoundInv'
    BY TerminatorSame, TP!ErrorBoundInv
  <1> QED
    BY <1>1, <1>2, <1>3

LEMMA TerminatorView ==
  ASSUME T!BoundInv
  PROVE  /\ StreamView("source", "destination", "SourceEof",
                      tPc, tResult, tTail, tOutq, tDead, tSent,
                      tRecv, tEof)
         /\ StreamView("destination", "source", "DestinationEof",
                      tPc, tResult, tTail, tOutq, tDead, tSent,
                      tRecv, tEof)
         /\ tSent \in [Ends2 -> Nat] /\ tEof \in [Ends2 -> BOOLEAN]
         /\ tDead \in [Ends2 -> BOOLEAN]
         /\ tTail \in [Ends2 -> {"open", "fin", "rst"}]
         /\ tInq \in [Ends2 -> Seq(Ends2 \X Nat)]
         /\ tOutq \in [Ends2 -> Seq(Ends2 \X Nat)]
         /\ tRecv \in [Ends2 -> Seq(Ends2 \X Nat)]
  <1> USE BufSizeAssumption, InCapAssumption, OutCapAssumption,
          MaxBytesAssumption, IdleAssumption
      DEF Sides, TP!Sides
  <1>1. /\ "source" \in TP!Sides /\ "destination" \in TP!Sides
        /\ TP!Other("source") = "destination" /\ TP!Other("destination") = "source"
        /\ TP!EofOf("source") = "SourceEof"
        /\ TP!EofOf("destination") = "DestinationEof"
    BY DEF TP!Sides, TP!Other, TP!EofOf
  <1>2. TP!BoundInv
    BY TerminatorSame
  <1>3. StreamView("source", "destination", "SourceEof",
                      tPc, tResult, tTail, tOutq, tDead, tSent,
                      tRecv, tEof)
    BY <1>1, <1>2, TP!PumpView DEF StreamView
  <1>4. StreamView("destination", "source", "DestinationEof",
                      tPc, tResult, tTail, tOutq, tDead, tSent,
                      tRecv, tEof)
    BY <1>1, <1>2, TP!PumpView DEF StreamView
  <1> QED
    BY <1>3, <1>4 DEF T!BoundInv, T!PumpInv, T!TypeOK, T!Sides, T!Bytes, Ends2

LEMMA TerminatorStepView ==
  ASSUME T!BoundInv, T!PumpStep \/ T!Exit
  PROVE  /\ tPc # "returned"
         /\ UNCHANGED <<tSent, tRecv, tTail, tEof, tDead>>
         /\ \/ tResult' = tResult
            \/ tResult' \in {"Error", "Killed", "IdleTimeout"}
            \/ tResult' = "SourceEof" /\ tTail["source"] = "fin"
            \/ tResult' = "DestinationEof" /\ tTail["destination"] = "fin"
  <1>1. TP!BoundInv /\ (TP!PumpStep \/ TP!Exit)
    BY TerminatorSame
  <1> QED
    BY <1>1, TP!PumpStepView, BufSizeAssumption, InCapAssumption,
       OutCapAssumption, MaxBytesAssumption, IdleAssumption
    DEF Sides, TP!Sides, TP!EofOf

-----------------------------------------------------------------------------
(* Every step of the chain is, for each pump, one of its own steps, a step *)
(* of its environment, an error before it starts, or none.                 *)

LEMMA PumpsStep ==
  ASSUME [Next]_vars
  PROVE  /\ [I!Next]_(I!vars) \/ (iPc = "select" /\ I!Return("Error", {}))
         /\ [T!Next]_(T!vars) \/ (tPc = "select" /\ T!Return("Error", {}))
  <1>1. UNCHANGED iVars => UNCHANGED I!vars
    BY DEF iVars, I!vars, I!pumpVars, I!wireVars, I!endVars, I!timeVars
  <1>2. UNCHANGED tVars => UNCHANGED T!vars
    BY DEF tVars, T!vars, T!pumpVars, T!wireVars, T!endVars, T!timeVars
  <1>3. /\ I!Sides = {"source", "destination"}
        /\ T!Sides = {"source", "destination"}
    BY DEF I!Sides, T!Sides
  <1>4. \A s \in {"source", "destination"} :
          /\ I!Send(s) \/ I!Finish(s) \/ I!Abort(s) \/ I!Receive(s) \/ I!SeeEof(s)
               \/ I!LateReset(s) => I!Next
          /\ T!Send(s) \/ T!Finish(s) \/ T!Abort(s) \/ T!Receive(s) \/ T!SeeEof(s)
               \/ T!LateReset(s) => T!Next
    BY <1>3 DEF I!Next, I!EndpointStep, T!Next, T!EndpointStep
  <1>5. /\ I!PumpStep \/ I!Exit \/ I!Tick => I!Next
        /\ T!PumpStep \/ T!Exit \/ T!Tick => T!Next
    BY DEF I!Next, T!Next
  <1>6. CASE Dial \/ DialFails \/ Join \/ JoinFails
    BY <1>1, <1>2, <1>6 DEF Dial, DialFails, Join, JoinFails
  <1>7. CASE InitiatorStep \/ TerminatorStep \/ InitiatorTick \/ TerminatorTick
    BY <1>1, <1>2, <1>5, <1>7
    DEF InitiatorStep, TerminatorStep, InitiatorTick, TerminatorTick
  <1>11. CASE InitiatorExit \/ TerminatorExit
    BY <1>1, <1>2, <1>5, <1>11 DEF InitiatorExit, TerminatorExit
  <1>8. CASE Wire
    BY <1>1, <1>2, <1>4, <1>8
    DEF Wire, CarryUp, CarryDown, FinUp, FinDown, ResetInitiatorEnd,
        ResetTerminatorEnd
  <1>9. CASE ClientReads \/ ClientReset \/ ClientWrites \/ BackendReads
             \/ BackendReset \/ BackendWrites
    BY <1>1, <1>2, <1>4, <1>9
    DEF ClientReads, ClientReset, ClientWrites, BackendReads, BackendReset,
        BackendWrites
  <1>10. CASE UNCHANGED vars
    BY <1>1, <1>2, <1>10 DEF vars
  <1> QED
    BY <1>6, <1>7, <1>8, <1>9, <1>10, <1>11 DEF Next

LEMMA PumpsKept ==
  ChainInv /\ [Next]_vars => I!BoundInv' /\ T!BoundInv'
  <1> SUFFICES ASSUME ChainInv, [Next]_vars PROVE I!BoundInv' /\ T!BoundInv'
    OBVIOUS
  <1>1. I!BoundInv /\ T!BoundInv
    BY DEF ChainInv
  <1>2. I!BoundInv'
    BY <1>1, PumpsStep, InitiatorInv
  <1>3. T!BoundInv'
    BY <1>1, PumpsStep, TerminatorInv
  <1> QED
    BY <1>2, <1>3

(* A step that moves nothing over the wire.                                *)
LEMMA WireKept ==
  ASSUME WireInv, StageInv, UNCHANGED stage,
         tSent'["source"] = tSent["source"],
         iSent'["destination"] = iSent["destination"],
         iRecv'["destination"] = iRecv["destination"],
         tRecv'["source"] = tRecv["source"],
         iEof'["destination"] = iEof["destination"],
         tEof'["source"] = tEof["source"],
         tTail'["source"] = "fin" => tTail["source"] = "fin",
         iTail'["destination"] = "fin" => iTail["destination"] = "fin",
         stage # "joined" => tTail'["destination"] = tTail["destination"],
         tResult' = "SourceEof" => tResult = "SourceEof" \/ tTail["source"] = "fin",
         iResult' = "DestinationEof" =>
           iResult = "DestinationEof" \/ iTail["destination"] = "fin",
         stage = "dial" => iResult' = iResult /\ tPc' = tPc,
         stage # "joined" => tResult' = tResult
  PROVE  WireInv' /\ StageInv'
  BY DEF WireInv, StageInv

LEMMA WireStep ==
  ChainInv /\ [Next]_vars =>
    WireInv' /\ StageInv' /\ stage' \in {"dial", "accepted", "joined"}
  <1> SUFFICES ASSUME ChainInv, [Next]_vars
               PROVE  WireInv' /\ StageInv'
                      /\ stage' \in {"dial", "accepted", "joined"}
    OBVIOUS
  <1>1. /\ I!BoundInv /\ T!BoundInv /\ WireInv /\ StageInv
        /\ stage \in {"dial", "accepted", "joined"}
    BY DEF ChainInv
  <1>2. /\ iSent \in [Ends2 -> Nat] /\ iEof \in [Ends2 -> BOOLEAN]
        /\ iTail \in [Ends2 -> {"open", "fin", "rst"}]
        /\ iRecv \in [Ends2 -> Seq(Ends2 \X Nat)]
        /\ iOutq \in [Ends2 -> Seq(Ends2 \X Nat)]
    BY <1>1, InitiatorView
  <1>3. /\ tSent \in [Ends2 -> Nat] /\ tEof \in [Ends2 -> BOOLEAN]
        /\ tTail \in [Ends2 -> {"open", "fin", "rst"}]
        /\ tRecv \in [Ends2 -> Seq(Ends2 \X Nat)]
        /\ tOutq \in [Ends2 -> Seq(Ends2 \X Nat)]
    BY <1>1, TerminatorView
  <1>4. "source" \in Ends2 /\ "destination" \in Ends2
    BY DEF Ends2
  <1>5. CASE Dial \/ Join \/ UNCHANGED vars
    BY <1>1, <1>5 DEF Dial, Join, vars, iVars, tVars, WireInv, StageInv
  <1>6. CASE DialFails
    BY <1>1, <1>6 DEF DialFails, I!Return, I!endVars, tVars, WireInv, StageInv
  <1>7. CASE JoinFails
    BY <1>1, <1>7 DEF JoinFails, T!Return, T!endVars, iVars, WireInv, StageInv
  <1>8. CASE InitiatorStep
    <2>1. /\ stage # "dial" /\ I!PumpStep /\ UNCHANGED <<stage, tVars>>
      BY <1>8 DEF InitiatorStep
    <2>2. /\ UNCHANGED <<iSent, iRecv, iTail, iEof>>
          /\ iResult' = "DestinationEof" =>
               iResult = "DestinationEof" \/ iTail["destination"] = "fin"
      BY <1>1, <2>1, InitiatorStepView
    <2> QED
      BY <1>1, <2>1, <2>2, WireKept DEF tVars
  <1>9. CASE TerminatorStep
    <2>1. /\ stage = "joined" /\ T!PumpStep /\ UNCHANGED <<stage, iVars>>
      BY <1>9 DEF TerminatorStep
    <2>2. /\ UNCHANGED <<tSent, tRecv, tTail, tEof>>
          /\ tResult' = "SourceEof" => tResult = "SourceEof" \/ tTail["source"] = "fin"
      BY <1>1, <2>1, TerminatorStepView
    <2> QED
      BY <1>1, <2>1, <2>2, WireKept DEF iVars
  <1>10. CASE InitiatorTick \/ TerminatorTick
    <2>1. UNCHANGED <<stage, iSent, iRecv, iTail, iEof, iResult, iPc,
                      tSent, tRecv, tTail, tEof, tResult, tPc>>
      BY <1>10 DEF InitiatorTick, TerminatorTick, I!Tick, T!Tick, iVars, tVars,
                   I!pumpVars, I!wireVars, I!endVars, T!pumpVars, T!wireVars,
                   T!endVars
    <2> QED
      BY <1>1, <2>1, WireKept
  <1>11. CASE CarryUp
    <2>1. /\ stage # "dial" /\ UNCHANGED stage
          /\ iRecv' = [iRecv EXCEPT !["destination"] =
                         Append(@, Head(iOutq["destination"]))]
          /\ iOutq["destination"] # <<>>
          /\ UNCHANGED <<iSent, iTail, iEof, iResult, iPc>>
      BY <1>11 DEF CarryUp, I!Receive, I!pumpVars
    <2>2. /\ tSent' = [tSent EXCEPT !["source"] = @ + 1]
          /\ UNCHANGED <<tRecv, tTail, tEof, tResult, tPc>>
      BY <1>11 DEF CarryUp, T!Send, T!pumpVars
    <2>3. Len(iRecv'["destination"]) = Len(iRecv["destination"]) + 1
      <3>1. Head(iOutq["destination"]) \in Ends2 \X Nat
        BY <1>2, <1>4, <2>1
      <3> QED
        BY <1>2, <1>4, <2>1, <3>1
    <2>4. tSent'["source"] = tSent["source"] + 1
      BY <1>3, <1>4, <2>2
    <2> QED
      BY <1>1, <2>1, <2>2, <2>3, <2>4 DEF WireInv, StageInv
  <1>12. CASE CarryDown
    <2>1. /\ UNCHANGED stage
          /\ tRecv' = [tRecv EXCEPT !["source"] = Append(@, Head(tOutq["source"]))]
          /\ tOutq["source"] # <<>>
          /\ UNCHANGED <<tSent, tTail, tEof, tResult, tPc>>
      BY <1>12 DEF CarryDown, T!Receive, T!pumpVars
    <2>2. /\ iSent' = [iSent EXCEPT !["destination"] = @ + 1]
          /\ UNCHANGED <<iRecv, iTail, iEof, iResult, iPc>>
      BY <1>12 DEF CarryDown, I!Send, I!pumpVars
    <2>3. Len(tRecv'["source"]) = Len(tRecv["source"]) + 1
      <3>1. Head(tOutq["source"]) \in Ends2 \X Nat
        BY <1>3, <1>4, <2>1
      <3> QED
        BY <1>3, <1>4, <2>1, <3>1
    <2>4. iSent'["destination"] = iSent["destination"] + 1
      BY <1>2, <1>4, <2>2
    <2> QED
      BY <1>1, <2>1, <2>2, <2>3, <2>4 DEF WireInv, StageInv
  <1>13. CASE FinUp
    <2>1. /\ stage # "dial" /\ UNCHANGED stage
          /\ iEof' = [iEof EXCEPT !["destination"] = TRUE]
          /\ UNCHANGED <<iSent, iRecv, iTail, iResult, iPc>>
      BY <1>13 DEF FinUp, I!SeeEof, I!pumpVars, I!wireVars
    <2>2. /\ tTail' = [tTail EXCEPT !["source"] = "fin"]
          /\ UNCHANGED <<tSent, tRecv, tEof, tResult, tPc>>
      BY <1>13 DEF FinUp, T!Finish, T!pumpVars, T!endVars
    <2>3. iEof'["destination"] /\ tTail'["destination"] = tTail["destination"]
      BY <1>2, <1>3, <1>4, <2>1, <2>2
    <2> QED
      BY <1>1, <2>1, <2>2, <2>3 DEF WireInv, StageInv
  <1>14. CASE FinDown
    <2>1. /\ UNCHANGED stage
          /\ tEof' = [tEof EXCEPT !["source"] = TRUE]
          /\ UNCHANGED <<tSent, tRecv, tTail, tResult, tPc>>
      BY <1>14 DEF FinDown, T!SeeEof, T!pumpVars, T!wireVars
    <2>2. /\ iTail' = [iTail EXCEPT !["destination"] = "fin"]
          /\ UNCHANGED <<iSent, iRecv, iEof, iResult, iPc>>
      BY <1>14 DEF FinDown, I!Finish, I!pumpVars, I!endVars
    <2>3. tEof'["source"]
      BY <1>3, <1>4, <2>1
    <2> QED
      BY <1>1, <2>1, <2>2, <2>3 DEF WireInv, StageInv
  <1>15. CASE ResetInitiatorEnd
    <2>1. /\ UNCHANGED <<stage, tVars, iSent, iRecv, iEof, iResult, iPc>>
          /\ iTail'["destination"] = "fin" => iTail["destination"] = "fin"
      BY <1>2, <1>4, <1>15
      DEF ResetInitiatorEnd, I!LateReset, I!Abort, I!pumpVars, I!endVars
    <2> QED
      BY <1>1, <2>1, WireKept DEF tVars
  <1>16. CASE ResetTerminatorEnd
    <2>1. /\ UNCHANGED <<stage, iVars, tSent, tRecv, tEof, tResult, tPc>>
          /\ tTail'["source"] = "fin" => tTail["source"] = "fin"
          /\ tTail'["destination"] = tTail["destination"]
      BY <1>3, <1>4, <1>16
      DEF ResetTerminatorEnd, T!LateReset, T!Abort, T!pumpVars, T!endVars
    <2> QED
      BY <1>1, <2>1, WireKept DEF iVars
  <1>17. CASE ClientReads \/ ClientReset \/ ClientWrites
    <2>1. /\ UNCHANGED <<stage, tVars, iResult, iPc>>
          /\ iSent'["destination"] = iSent["destination"]
          /\ iRecv'["destination"] = iRecv["destination"]
          /\ iEof'["destination"] = iEof["destination"]
          /\ iTail'["destination"] = iTail["destination"]
      <3>1. CASE ClientReads
        BY <1>2, <1>4, <3>1
        DEF ClientReads, I!Receive, I!SeeEof, I!pumpVars, I!wireVars
      <3>2. CASE ClientReset \/ ClientWrites
        BY <1>2, <1>4, <3>2
        DEF ClientReset, ClientWrites, I!LateReset, I!Send, I!Finish, I!Abort,
            I!pumpVars, I!endVars
      <3> QED
        BY <1>17, <3>1, <3>2
    <2> QED
      BY <1>1, <2>1, WireKept DEF tVars
  <1>18. CASE BackendReads \/ BackendReset \/ BackendWrites
    <2>1. /\ stage = "joined" /\ UNCHANGED <<stage, iVars, tResult, tPc>>
          /\ tSent'["source"] = tSent["source"]
          /\ tRecv'["source"] = tRecv["source"]
          /\ tEof'["source"] = tEof["source"]
          /\ tTail'["source"] = tTail["source"]
      <3>1. CASE BackendReads
        BY <1>3, <1>4, <3>1
        DEF BackendReads, T!Receive, T!SeeEof, T!pumpVars, T!wireVars
      <3>2. CASE BackendReset \/ BackendWrites
        BY <1>3, <1>4, <3>2
        DEF BackendReset, BackendWrites, T!LateReset, T!Send, T!Finish, T!Abort,
            T!pumpVars, T!endVars
      <3> QED
        BY <1>18, <3>1, <3>2
    <2> QED
      BY <1>1, <2>1, WireKept DEF iVars
  <1>19. CASE InitiatorExit
    BY <1>1, <1>19
    DEF InitiatorExit, I!Exit, I!Return, I!endVars, tVars, WireInv, StageInv
  <1>20. CASE TerminatorExit
    BY <1>1, <1>20
    DEF TerminatorExit, T!Exit, T!Return, T!endVars, iVars, WireInv, StageInv
  <1> QED
    BY <1>5, <1>6, <1>7, <1>8, <1>9, <1>10, <1>11, <1>12, <1>13, <1>14, <1>15,
       <1>16, <1>17, <1>18, <1>19, <1>20
    DEF Next, Wire

LEMMA InitChainInv == Init => ChainInv
  <1> SUFFICES ASSUME Init PROVE ChainInv
    OBVIOUS
  <1>1. I!BoundInv /\ T!BoundInv
    BY InitiatorInv, TerminatorInv DEF Init
  <1>2. WireInv /\ StageInv
    BY DEF Init, I!Init, T!Init, WireInv, StageInv, I!Sides, T!Sides
  <1> QED
    BY <1>1, <1>2 DEF Init, ChainInv

LEMMA NextChainInv == ChainInv /\ [Next]_vars => ChainInv'
  BY PumpsKept, WireStep DEF ChainInv

(* ChainInv holds in every state of a session, whatever the two proxies,   *)
(* the wire and the two endpoints do.                                      *)
THEOREM ChainInvariant == Spec => []ChainInv
  BY InitChainInv, NextChainInv, PTL DEF Spec

-----------------------------------------------------------------------------
(* End to end.                                                             *)

(* The first n bytes of s.                                                 *)
Pieces(s, n) == [j \in 1..n |-> <<s, j>>]

(* What the endpoints have read, in terms of each other's bytes.           *)
LEMMA Composed ==
  ASSUME ChainInv
  PROVE  /\ BackendRecv = Pieces("source", Len(tRecv["destination"]))
         /\ ClientRecv = Pieces("destination", Len(iRecv["source"]))
         /\ Len(tRecv["destination"]) \in Nat /\ iSent["source"] \in Nat
         /\ Len(tRecv["destination"]) <= tSent["source"]
         /\ tSent["source"] = Len(iRecv["destination"])
         /\ Len(iRecv["destination"]) <= iSent["source"]
         /\ Len(iRecv["source"]) \in Nat /\ tSent["destination"] \in Nat
         /\ Len(iRecv["source"]) <= iSent["destination"]
         /\ iSent["destination"] = Len(tRecv["source"])
         /\ Len(tRecv["source"]) <= tSent["destination"]
  <1>1. I!BoundInv /\ T!BoundInv /\ WireInv
    BY DEF ChainInv
  <1>2. /\ \A j \in 1..Len(iRecv["destination"]) : iRecv["destination"][j] = <<"source", j>>
        /\ \A j \in 1..Len(iRecv["source"]) : iRecv["source"][j] = <<"destination", j>>
        /\ Len(iRecv["destination"]) \in Nat /\ Len(iRecv["source"]) \in Nat
        /\ iSent["source"] \in Nat /\ Len(iRecv["destination"]) <= iSent["source"]
        /\ iSent["destination"] \in Nat /\ Len(iRecv["source"]) <= iSent["destination"]
    BY <1>1, InitiatorView DEF StreamView
  <1>3. /\ \A j \in 1..Len(tRecv["destination"]) : tRecv["destination"][j] = <<"source", j>>
        /\ \A j \in 1..Len(tRecv["source"]) : tRecv["source"][j] = <<"destination", j>>
        /\ Len(tRecv["destination"]) \in Nat /\ Len(tRecv["source"]) \in Nat
        /\ tSent["source"] \in Nat /\ Len(tRecv["destination"]) <= tSent["source"]
        /\ tSent["destination"] \in Nat /\ Len(tRecv["source"]) <= tSent["destination"]
    BY <1>1, TerminatorView DEF StreamView
  <1>4. /\ tSent["source"] = Len(iRecv["destination"])
        /\ iSent["destination"] = Len(tRecv["source"])
    BY <1>1 DEF WireInv
  <1>5. /\ DOMAIN tRecv["destination"] = 1..Len(tRecv["destination"])
        /\ DOMAIN iRecv["source"] = 1..Len(iRecv["source"])
    <2>1. tRecv["destination"] \in Seq(Ends2 \X Nat) /\ iRecv["source"] \in Seq(Ends2 \X Nat)
      BY <1>1, InitiatorView, TerminatorView DEF Ends2
    <2> QED
      BY <2>1
  <1>6. ASSUME NEW j \in 1..Len(tRecv["destination"])
        PROVE  iRecv["destination"][tRecv["destination"][j][2]] = <<"source", j>>
    <2>1. tRecv["destination"][j][2] = j /\ j \in 1..Len(iRecv["destination"])
      BY <1>2, <1>3, <1>4
    <2> QED
      BY <1>2, <2>1
  <1>7. ASSUME NEW j \in 1..Len(iRecv["source"])
        PROVE  tRecv["source"][iRecv["source"][j][2]] = <<"destination", j>>
    <2>1. iRecv["source"][j][2] = j /\ j \in 1..Len(tRecv["source"])
      BY <1>2, <1>3, <1>4
    <2> QED
      BY <1>3, <2>1
  <1>8. BackendRecv = Pieces("source", Len(tRecv["destination"]))
    BY <1>5, <1>6 DEF BackendRecv, Pieces
  <1>9. ClientRecv = Pieces("destination", Len(iRecv["source"]))
    BY <1>5, <1>7 DEF ClientRecv, Pieces
  <1> QED
    BY <1>2, <1>3, <1>4, <1>8, <1>9

ReadPieces ==
  /\ BackendRecv = Pieces("source", Len(tRecv["destination"]))
  /\ ClientRecv = Pieces("destination", Len(iRecv["source"]))

LEMMA AfterPieces == (ChainInv => ReadPieces)'
  <1>1. ChainInv => ReadPieces
    BY Composed DEF ReadPieces
  <1> QED
    BY <1>1, PTL

LEMMA PrimedComposed ==
  ASSUME ChainInv'
  PROVE  /\ BackendRecv' = Pieces("source", Len(tRecv'["destination"]))
         /\ ClientRecv' = Pieces("destination", Len(iRecv'["source"]))
  BY AfterPieces DEF ReadPieces, Pieces

(* An end of stream that both halves blame on the other side has brought   *)
(* all of it.                                                              *)
LEMMA Complete ==
  ASSUME ChainInv
  PROVE  /\ tResult = "SourceEof" /\ iResult = "SourceEof"
              /\ (tEof["destination"] \/ (~tDead["destination"] /\ tOutq["destination"] = <<>>))
              => Len(tRecv["destination"]) = iSent["source"] /\ iTail["source"] # "open"
         /\ iResult = "DestinationEof" /\ tResult = "DestinationEof"
              /\ (iEof["source"] \/ (~iDead["source"] /\ iOutq["source"] = <<>>))
              => Len(iRecv["source"]) = tSent["destination"] /\ tTail["destination"] # "open"
  <1>1. I!BoundInv /\ T!BoundInv /\ WireInv
    BY DEF ChainInv
  <1>2. /\ StreamView("source", "destination", "SourceEof", iPc, iResult, iTail,
                      iOutq, iDead, iSent, iRecv, iEof)
        /\ StreamView("destination", "source", "DestinationEof", iPc, iResult, iTail,
                      iOutq, iDead, iSent, iRecv, iEof)
    BY <1>1, InitiatorView
  <1>3. /\ StreamView("source", "destination", "SourceEof", tPc, tResult, tTail,
                      tOutq, tDead, tSent, tRecv, tEof)
        /\ StreamView("destination", "source", "DestinationEof", tPc, tResult, tTail,
                      tOutq, tDead, tSent, tRecv, tEof)
    BY <1>1, TerminatorView
  <1>4. /\ tSent["source"] = Len(iRecv["destination"])
        /\ iSent["destination"] = Len(tRecv["source"])
        /\ tResult = "SourceEof" => iEof["destination"]
        /\ iResult = "DestinationEof" => tEof["source"]
    BY <1>1 DEF WireInv
  <1> QED
    BY <1>2, <1>3, <1>4 DEF StreamView

(* Across both proxies, each endpoint reads what the other wrote, from the *)
(* first byte on and in order, and an end that both halves report as the   *)
(* other side's comes after all of it.                                     *)
THEOREM ChainEndToEnd == Spec => []EndToEnd
  <1>1. ChainInv => EndToEnd
    <2> SUFFICES ASSUME ChainInv PROVE EndToEnd
      OBVIOUS
    <2>1. /\ \A j \in DOMAIN tRecv["destination"] : BackendRecv[j] = <<"source", j>>
          /\ \A j \in DOMAIN iRecv["source"] : ClientRecv[j] = <<"destination", j>>
      <3>1. /\ DOMAIN BackendRecv = DOMAIN tRecv["destination"]
            /\ DOMAIN ClientRecv = DOMAIN iRecv["source"]
        BY DEF BackendRecv, ClientRecv
      <3>2. /\ \A j \in DOMAIN BackendRecv : BackendRecv[j] = <<"source", j>>
            /\ \A j \in DOMAIN ClientRecv : ClientRecv[j] = <<"destination", j>>
        BY Composed DEF Pieces
      <3> QED
        BY <3>1, <3>2
    <2>2. /\ Len(tRecv["destination"]) <= iSent["source"]
          /\ Len(iRecv["source"]) <= tSent["destination"]
      BY Composed
    <2> QED
      BY <2>1, <2>2, Complete DEF EndToEnd
  <1> QED
    BY <1>1, ChainInvariant, PTL

(* Backpressure across the wire: a writer at one end of the chain is never *)
(* further ahead of its reader at the other than two pumps hold.           *)
THEOREM ChainBounded == Spec => []BoundedInChain
  <1>1. ChainInv => BoundedInChain
    <2> SUFFICES ASSUME ChainInv PROVE BoundedInChain
      OBVIOUS
    <2> DEFINE w == InCap + BufSize + OutCap
    <2>1. w \in Nat
      BY BufSizeAssumption, InCapAssumption, OutCapAssumption
    <2>2. /\ iSent["source"] <= Len(iRecv["destination"]) + InCap + BufSize + OutCap
          /\ iSent["destination"] <= Len(iRecv["source"]) + InCap + BufSize + OutCap
          /\ iSent["destination"] \in Nat /\ Len(iRecv["destination"]) \in Nat
      BY InitiatorView DEF ChainInv, StreamView
    <2>3. /\ tSent["source"] <= Len(tRecv["destination"]) + InCap + BufSize + OutCap
          /\ tSent["destination"] <= Len(tRecv["source"]) + InCap + BufSize + OutCap
          /\ tSent["source"] \in Nat /\ Len(tRecv["source"]) \in Nat
      BY TerminatorView DEF ChainInv, StreamView
    <2>4. iSent["source"] - Len(tRecv["destination"]) <= 2 * w
      BY <2>1, <2>2, <2>3, Composed, BufSizeAssumption, InCapAssumption,
         OutCapAssumption
    <2>5. tSent["destination"] - Len(iRecv["source"]) <= 2 * w
      BY <2>1, <2>2, <2>3, Composed, BufSizeAssumption, InCapAssumption,
         OutCapAssumption
    <2> QED
      BY <2>4, <2>5 DEF BoundedInChain
  <1> QED
    BY <1>1, ChainInvariant, PTL

-----------------------------------------------------------------------------
(* What the two halves report.                                             *)

(* No step makes two reports, and a report that is made stays as it is.    *)
LEMMA ResultStep ==
  ASSUME ChainInv, [Next]_vars
  PROVE  /\ iResult' = iResult \/ (iResult = "none" /\ tResult' = tResult)
         /\ tResult' = tResult \/ (tResult = "none" /\ iResult' = iResult)
  <1>1. /\ I!BoundInv /\ T!BoundInv
        /\ (iPc # "returned" => iResult = "none")
        /\ (tPc # "returned" => tResult = "none")
    BY InitiatorView, TerminatorView DEF ChainInv, StreamView
  <1>2. CASE DialFails \/ JoinFails
    BY <1>1, <1>2 DEF DialFails, JoinFails, iVars, tVars
  <1>3. CASE InitiatorStep \/ InitiatorExit
    BY <1>1, <1>3, InitiatorStepView DEF InitiatorStep, InitiatorExit, tVars
  <1>4. CASE TerminatorStep \/ TerminatorExit
    BY <1>1, <1>4, TerminatorStepView DEF TerminatorStep, TerminatorExit, iVars
  <1>5. CASE Dial \/ Join \/ InitiatorTick \/ TerminatorTick \/ UNCHANGED vars
    BY <1>5
    DEF Dial, Join, InitiatorTick, TerminatorTick, I!Tick, T!Tick, I!pumpVars,
        T!pumpVars, vars, iVars, tVars
  <1>6. CASE Wire
    BY <1>6
    DEF Wire, CarryUp, CarryDown, FinUp, FinDown, ResetInitiatorEnd,
        ResetTerminatorEnd, I!Receive, I!Send, I!SeeEof, I!Finish, I!LateReset,
        I!Abort, T!Receive, T!Send, T!SeeEof, T!Finish, T!LateReset, T!Abort,
        I!pumpVars, T!pumpVars, iVars, tVars
  <1>7. CASE ClientReads \/ ClientReset \/ ClientWrites
    BY <1>7
    DEF ClientReads, ClientReset, ClientWrites, I!Receive, I!Send, I!SeeEof,
        I!Finish, I!LateReset, I!Abort, I!pumpVars, tVars
  <1>8. CASE BackendReads \/ BackendReset \/ BackendWrites
    BY <1>8
    DEF BackendReads, BackendReset, BackendWrites, T!Receive, T!Send, T!SeeEof,
        T!Finish, T!LateReset, T!Abort, T!pumpVars, iVars
  <1> QED
    BY <1>2, <1>3, <1>4, <1>5, <1>6, <1>7, <1>8 DEF Next

(* What ChainInv says of the reports: one that names the end of the wire   *)
(* was made after the other half had returned.                             *)
Reports == {"none", "SourceEof", "DestinationEof", "IdleTimeout", "Error",
            "Killed"}

WireEnds ==
  /\ iResult \in Reports /\ tResult \in Reports
  /\ iResult = "DestinationEof" => tResult # "none"
  /\ tResult = "SourceEof" => iResult # "none"

LEMMA WireEndReported == ChainInv => WireEnds
  <1> SUFFICES ASSUME ChainInv PROVE WireEnds
    OBVIOUS
  <1>1. I!BoundInv /\ T!BoundInv /\ WireInv
    BY DEF ChainInv
  <1>2. iResult \in Reports /\ tResult \in Reports
    BY <1>1 DEF I!BoundInv, I!PumpInv, I!TypeOK, I!CloseReason,
                T!BoundInv, T!PumpInv, T!TypeOK, T!CloseReason, Reports
  <1>3. /\ iEof["destination"] => iResult # "none"
        /\ tEof["source"] => tResult # "none"
    BY <1>1, InitiatorView, TerminatorView DEF StreamView
  <1> QED
    BY <1>1, <1>2, <1>3 DEF WireInv, WireEnds

(* A half that reports the end of the wire does so after the other half is *)
(* over, by a report that names a cause of its own or because its process  *)
(* exited: the two never both take the wire for the cause.                 *)
THEOREM ChainOneNamesCause == Spec => []OneNamesCause
  <1>1. Init => OneNamesCause
    BY DEF Init, I!Init, T!Init, OneNamesCause
  <1>2. ChainInv /\ ChainInv' /\ OneNamesCause /\ [Next]_vars => OneNamesCause'
    <2> SUFFICES ASSUME ChainInv, ChainInv', OneNamesCause, [Next]_vars
                 PROVE  OneNamesCause'
      OBVIOUS
    <2>1. WireEnds'
      <3>1. (ChainInv => WireEnds)'
        BY WireEndReported, PTL
      <3> QED
        BY <3>1
    <2>2. ~(iResult' = "DestinationEof" /\ tResult' = "SourceEof")
      BY ResultStep DEF OneNamesCause
    <2> QED
      BY <2>1, <2>2 DEF WireEnds, Reports, OneNamesCause
  <1> QED
    BY <1>1, <1>2, ChainInvariant, PTL DEF Spec

-----------------------------------------------------------------------------
(* Before the session is joined.                                           *)

HeldBack ==
  stage # "joined" =>
    /\ tOutq["destination"] = <<>> /\ tRecv["destination"] = <<>>
    /\ tSent["destination"] = 0

LEMMA HeldBackStep ==
  ASSUME ChainInv, HeldBack, [Next]_vars
  PROVE  HeldBack'
  <1>1. /\ tOutq \in [Ends2 -> Seq(Ends2 \X Nat)]
        /\ tRecv \in [Ends2 -> Seq(Ends2 \X Nat)]
        /\ tSent \in [Ends2 -> Nat]
        /\ stage \in {"dial", "accepted", "joined"}
    BY TerminatorView DEF ChainInv
  <1>2. "source" \in Ends2 /\ "destination" \in Ends2
    BY DEF Ends2
  <1>3. CASE \/ Dial \/ DialFails \/ Join \/ InitiatorStep \/ InitiatorTick
             \/ InitiatorExit \/ UNCHANGED vars
    BY <1>3
    DEF Dial, DialFails, Join, InitiatorStep, InitiatorTick, InitiatorExit, vars,
        tVars, HeldBack
  <1>4. CASE JoinFails \/ TerminatorExit
    BY <1>4 DEF JoinFails, TerminatorExit, T!Exit, T!Return, T!endVars, iVars, HeldBack
  <1>5. CASE TerminatorStep \/ BackendReads \/ BackendReset \/ BackendWrites
    BY <1>5 DEF TerminatorStep, BackendReads, BackendReset, BackendWrites, HeldBack
  <1>6. CASE TerminatorTick \/ ClientReads \/ ClientReset \/ ClientWrites
    BY <1>6 DEF TerminatorTick, ClientReads, ClientReset, ClientWrites, tVars, HeldBack
  <1>7. CASE Wire
    <2>1. UNCHANGED stage
      BY <1>7
      DEF Wire, CarryUp, CarryDown, FinUp, FinDown, ResetInitiatorEnd, ResetTerminatorEnd
    <2>2. /\ tOutq'["destination"] = tOutq["destination"]
          /\ tRecv'["destination"] = tRecv["destination"]
          /\ tSent'["destination"] = tSent["destination"]
      <3>1. CASE CarryUp
        BY <1>1, <1>2, <3>1 DEF CarryUp, T!Send
      <3>2. CASE CarryDown
        BY <1>1, <1>2, <3>2 DEF CarryDown, T!Receive
      <3>3. CASE FinUp
        BY <3>3 DEF FinUp, T!Finish, T!endVars
      <3>4. CASE FinDown
        BY <3>4 DEF FinDown, T!SeeEof, T!wireVars
      <3>5. CASE ResetInitiatorEnd
        BY <3>5 DEF ResetInitiatorEnd, tVars
      <3>6. CASE ResetTerminatorEnd
        BY <1>1, <1>2, <3>6 DEF ResetTerminatorEnd, T!LateReset, T!Abort, T!endVars
      <3> QED
        BY <1>7, <3>1, <3>2, <3>3, <3>4, <3>5, <3>6 DEF Wire
    <2> QED
      BY <2>1, <2>2 DEF HeldBack
  <1> QED
    BY <1>3, <1>4, <1>5, <1>6, <1>7 DEF Next

(* Nothing of a session crosses the terminator before it has verified the  *)
(* session and reached the backend, nor after it has refused it.           *)
THEOREM ChainNothingCrosses == Spec => []NothingCrosses
  <1>1. Init => HeldBack
    BY DEF Init, T!Init, T!Sides, HeldBack
  <1>2. ChainInv /\ HeldBack /\ [Next]_vars => HeldBack'
    BY HeldBackStep
  <1>3. ChainInv /\ HeldBack => NothingCrosses
    <2> SUFFICES ASSUME ChainInv, HeldBack, stage # "joined" PROVE NothingCrosses
      BY DEF NothingCrosses
    <2>1. Len(iRecv["source"]) = 0 /\ iRecv["source"] \in Seq(Ends2 \X Nat)
      <3>1. iRecv["source"] \in Seq(Ends2 \X Nat) /\ Len(iRecv["source"]) \in Nat
        BY InitiatorView DEF ChainInv, Ends2
      <3> QED
        BY <3>1, Composed DEF HeldBack
    <2>2. iRecv["source"] = <<>>
      BY <2>1
    <2> QED
      BY <2>2 DEF HeldBack, NothingCrosses
  <1> QED
    BY <1>1, <1>2, <1>3, ChainInvariant, PTL DEF Spec

-----------------------------------------------------------------------------
(* The chain implements Relay.                                             *)

LEMMA EndsFacts ==
  ASSUME NEW a, NEW b, NEW x
  PROVE  /\ Ends(a, b)["source"] = a /\ Ends(a, b)["destination"] = b
         /\ [Ends(a, b) EXCEPT !["source"] = x] = Ends(x, b)
         /\ [Ends(a, b) EXCEPT !["destination"] = x] = Ends(a, x)
  BY DEF Ends, Sides

LEMMA PiecesFacts ==
  ASSUME NEW s, NEW n \in Nat
  PROVE  /\ Len(Pieces(s, n)) = n
         /\ Append(Pieces(s, n), <<s, n + 1>>) = Pieces(s, n + 1)
  <1>1. Pieces(s, n) \in Seq({s} \X Nat) /\ Len(Pieces(s, n)) = n
    BY DEF Pieces
  <1> QED
    BY <1>1 DEF Pieces

(* What an endpoint was told of its end stays, when neither its connection *)
(* nor a pump that has returned changes.                                   *)
LEMMA VerdictKept ==
  ASSUME ChainInv,
         iEof'["source"] = iEof["source"], tEof'["destination"] = tEof["destination"],
         iDead'["source"] = iDead["source"],
         tDead'["destination"] = tDead["destination"],
         iResult' = iResult \/ (iPc # "returned" /\ tResult' = tResult),
         tResult' = tResult \/ (tPc # "returned" /\ iResult' = iResult)
  PROVE  ClientEnd' = ClientEnd /\ BackendEnd' = BackendEnd
  <1>1. I!BoundInv /\ T!BoundInv /\ WireInv
    BY DEF ChainInv
  <1>2. /\ iEof["source"] \/ iEof["destination"] => iPc = "returned"
        /\ tEof["source"] \/ tEof["destination"] => tPc = "returned"
    BY <1>1, InitiatorView, TerminatorView DEF StreamView
  <1>3. /\ tResult = "SourceEof" => iPc = "returned"
        /\ iResult = "DestinationEof" => tPc = "returned"
    BY <1>1, <1>2 DEF WireInv
  <1>4. CASE iResult' = iResult /\ tResult' = tResult
    BY <1>4 DEF ClientEnd, BackendEnd
  <1>5. CASE iPc # "returned" /\ tResult' = tResult
    BY <1>2, <1>3, <1>5 DEF ClientEnd, BackendEnd
  <1>6. CASE tPc # "returned" /\ iResult' = iResult
    BY <1>2, <1>3, <1>6 DEF ClientEnd, BackendEnd
  <1> QED
    BY <1>4, <1>5, <1>6

(* A step that neither endpoint sees.                                      *)
LEMMA Unseen ==
  ASSUME ChainInv, ChainInv',
         iSent'["source"] = iSent["source"],
         tSent'["destination"] = tSent["destination"],
         iTail'["source"] = iTail["source"],
         tTail'["destination"] = tTail["destination"],
         iRecv'["source"] = iRecv["source"],
         tRecv'["destination"] = tRecv["destination"],
         ClientEnd' = ClientEnd, BackendEnd' = BackendEnd
  PROVE  UNCHANGED R!vars
  <1>1. ClientRecv' = ClientRecv /\ BackendRecv' = BackendRecv
    <2>1. /\ BackendRecv = Pieces("source", Len(tRecv["destination"]))
          /\ ClientRecv = Pieces("destination", Len(iRecv["source"]))
      BY Composed
    <2>2. /\ BackendRecv' = Pieces("source", Len(tRecv'["destination"]))
          /\ ClientRecv' = Pieces("destination", Len(iRecv'["source"]))
      BY PrimedComposed
    <2> QED
      BY <2>1, <2>2
  <1> QED
    BY <1>1 DEF R!vars, Ends

(* The same, for a step that touches neither of the two endpoints'         *)
(* connections, nor the report of a pump that has returned.                *)
LEMMA UnseenStep ==
  ASSUME ChainInv, ChainInv',
         iSent'["source"] = iSent["source"],
         tSent'["destination"] = tSent["destination"],
         iTail'["source"] = iTail["source"],
         tTail'["destination"] = tTail["destination"],
         iRecv'["source"] = iRecv["source"],
         tRecv'["destination"] = tRecv["destination"],
         iEof'["source"] = iEof["source"], tEof'["destination"] = tEof["destination"],
         iDead'["source"] = iDead["source"],
         tDead'["destination"] = tDead["destination"],
         iResult' = iResult \/ (iPc # "returned" /\ tResult' = tResult),
         tResult' = tResult \/ (tPc # "returned" /\ iResult' = iResult)
  PROVE  UNCHANGED R!vars
  <1>1. ClientEnd' = ClientEnd /\ BackendEnd' = BackendEnd
    BY VerdictKept
  <1> QED
    BY <1>1, Unseen

(* The two tasks and their clocks.                                         *)
LEMMA TasksUnseen ==
  ASSUME ChainInv, ChainInv',
         \/ Dial \/ DialFails \/ Join \/ JoinFails
         \/ InitiatorStep \/ TerminatorStep \/ InitiatorTick \/ TerminatorTick
         \/ InitiatorExit \/ TerminatorExit
  PROVE  UNCHANGED R!vars
  <1>1. CASE Dial \/ Join
    BY <1>1, UnseenStep DEF Dial, Join, iVars, tVars
  <1>2. CASE DialFails
    BY <1>2, UnseenStep DEF DialFails, I!Return, I!endVars, tVars
  <1>3. CASE JoinFails
    BY <1>3, UnseenStep DEF JoinFails, T!Return, T!endVars, iVars
  <1>4. CASE InitiatorStep \/ InitiatorExit
    <2>1. I!BoundInv /\ (I!PumpStep \/ I!Exit) /\ UNCHANGED tVars
      BY <1>4 DEF InitiatorStep, InitiatorExit, ChainInv
    <2> QED
      BY <2>1, InitiatorStepView, UnseenStep DEF tVars
  <1>5. CASE TerminatorStep \/ TerminatorExit
    <2>1. T!BoundInv /\ (T!PumpStep \/ T!Exit) /\ UNCHANGED iVars
      BY <1>5 DEF TerminatorStep, TerminatorExit, ChainInv
    <2> QED
      BY <2>1, TerminatorStepView, UnseenStep DEF iVars
  <1>6. CASE InitiatorTick
    BY <1>6, UnseenStep
    DEF InitiatorTick, I!Tick, I!pumpVars, I!wireVars, I!endVars, tVars
  <1>7. CASE TerminatorTick
    BY <1>7, UnseenStep
    DEF TerminatorTick, T!Tick, T!pumpVars, T!wireVars, T!endVars, iVars
  <1> QED
    BY <1>1, <1>2, <1>3, <1>4, <1>5, <1>6, <1>7

(* The wire.                                                               *)
LEMMA WireUnseen ==
  ASSUME ChainInv, ChainInv', Wire
  PROVE  UNCHANGED R!vars
  <1>1. /\ iSent \in [Ends2 -> Nat] /\ iRecv \in [Ends2 -> Seq(Ends2 \X Nat)]
        /\ iEof \in [Ends2 -> BOOLEAN] /\ iDead \in [Ends2 -> BOOLEAN]
        /\ iTail \in [Ends2 -> {"open", "fin", "rst"}]
        /\ tSent \in [Ends2 -> Nat] /\ tRecv \in [Ends2 -> Seq(Ends2 \X Nat)]
        /\ tEof \in [Ends2 -> BOOLEAN] /\ tDead \in [Ends2 -> BOOLEAN]
        /\ tTail \in [Ends2 -> {"open", "fin", "rst"}]
    BY InitiatorView, TerminatorView DEF ChainInv
  <1>2. CASE CarryUp
    BY <1>1, <1>2, UnseenStep
    DEF CarryUp, I!Receive, T!Send, I!pumpVars, T!pumpVars, Ends2
  <1>3. CASE CarryDown
    BY <1>1, <1>3, UnseenStep
    DEF CarryDown, T!Receive, I!Send, I!pumpVars, T!pumpVars, Ends2
  <1>4. CASE FinUp
    BY <1>1, <1>4, UnseenStep
    DEF FinUp, I!SeeEof, T!Finish, I!pumpVars, T!pumpVars, I!wireVars, T!endVars, Ends2
  <1>5. CASE FinDown
    BY <1>1, <1>5, UnseenStep
    DEF FinDown, T!SeeEof, I!Finish, I!pumpVars, T!pumpVars, T!wireVars, I!endVars, Ends2
  <1>6. CASE ResetInitiatorEnd
    BY <1>1, <1>6, UnseenStep
    DEF ResetInitiatorEnd, I!LateReset, I!Abort, I!pumpVars, I!endVars, tVars, Ends2
  <1>7. CASE ResetTerminatorEnd
    BY <1>1, <1>7, UnseenStep
    DEF ResetTerminatorEnd, T!LateReset, T!Abort, T!pumpVars, T!endVars, iVars, Ends2
  <1> QED
    BY <1>2, <1>3, <1>4, <1>5, <1>6, <1>7 DEF Wire

(* The steps of the client.                                                *)
LEMMA ClientStep ==
  ASSUME ChainInv, ChainInv', ClientReads \/ ClientReset \/ ClientWrites
  PROVE  [R!Next]_(R!vars)
  <1>1. /\ iSent \in [Ends2 -> Nat] /\ iRecv \in [Ends2 -> Seq(Ends2 \X Nat)]
        /\ iEof \in [Ends2 -> BOOLEAN] /\ iDead \in [Ends2 -> BOOLEAN]
        /\ iTail \in [Ends2 -> {"open", "fin", "rst"}]
        /\ iOutq \in [Ends2 -> Seq(Ends2 \X Nat)]
    BY InitiatorView DEF ChainInv
  <1>2. UNCHANGED tVars /\ UNCHANGED I!pumpVars
    BY DEF ClientReads, ClientReset, ClientWrites, I!Receive, I!SeeEof,
           I!LateReset, I!Send, I!Finish, I!Abort
  <1>3. /\ BackendEnd' = BackendEnd
        /\ UNCHANGED <<tSent, tTail, tRecv, iResult, tResult>>
    BY <1>2 DEF BackendEnd, tVars, I!pumpVars
  <1>4. BackendRecv' = BackendRecv
    BY <1>3, Composed, PrimedComposed
  <1>5. "source" \in R!Sides /\ R!Other("source") = "destination"
    BY DEF R!Sides, R!Other
  <1>6. ASSUME iRecv'["source"] = iRecv["source"]
        PROVE  ClientRecv' = ClientRecv
    BY <1>6, Composed, PrimedComposed
  <1>7. CASE I!Receive("source")
    <2> DEFINE n == Len(iRecv["source"])
    <2>1. iRecv'["source"] = Append(iRecv["source"], Head(iOutq["source"]))
      BY <1>1, <1>7 DEF I!Receive, Ends2
    <2>2. n \in Nat /\ Len(iRecv'["source"]) = n + 1
      <3>1. iRecv["source"] \in Seq(Ends2 \X Nat)
        BY <1>1 DEF Ends2
      <3> QED
        BY <2>1, <3>1
    <2>3. ClientRecv = Pieces("destination", n)
          /\ ClientRecv' = Pieces("destination", n + 1)
      BY <2>2, Composed, PrimedComposed
    <2>4. /\ Len(ClientRecv) = n
          /\ ClientRecv' = Append(ClientRecv, <<"destination", Len(ClientRecv) + 1>>)
      BY <2>2, <2>3, PiecesFacts
    <2>5. ~iEof["source"] /\ ~iDead["source"] /\ n < iSent["destination"]
      BY <1>7, InitiatorView DEF ChainInv, StreamView, I!Receive
    <2>6. n < tSent["destination"]
      BY <2>2, <2>5, Composed
    <2>7. ClientEnd = "open" /\ ClientEnd' = "open"
      BY <1>3, <1>7, <2>5 DEF ClientEnd, I!Receive
    <2>8. UNCHANGED <<iSent, iTail>>
      BY <1>7 DEF I!Receive
    <2>9. R!Deliver("source")
      BY <1>3, <1>4, <1>5, <2>4, <2>6, <2>7, <2>8 DEF R!Deliver, Ends, Sides, R!Sides
    <2> QED
      BY <1>5, <2>9 DEF R!Next
  <1>8. CASE I!SeeEof("source")
    <2>1. /\ ~iDead["source"] /\ iOutq["source"] = <<>> /\ ~iEof["source"]
          /\ iEof'["source"] = TRUE
          /\ UNCHANGED <<iSent, iTail, iRecv, iDead>>
      BY <1>1, <1>8 DEF I!SeeEof, I!wireVars, Ends2
    <2>2. ClientEnd = "open" /\ ClientRecv' = ClientRecv
      BY <1>6, <2>1 DEF ClientEnd
    <2>3. CASE iResult = "DestinationEof" /\ tResult = "DestinationEof"
      <3>1. ClientEnd' = "complete"
        BY <1>3, <2>1, <2>3 DEF ClientEnd
      <3>2. Len(ClientRecv) = tSent["destination"] /\ tTail["destination"] # "open"
        <4>1. Len(iRecv["source"]) = tSent["destination"] /\ tTail["destination"] # "open"
          BY <2>1, <2>3, Complete
        <4>2. Len(iRecv["source"]) \in Nat /\ ClientRecv = Pieces("destination", Len(iRecv["source"]))
          BY Composed
        <4> QED
          BY <4>1, <4>2, PiecesFacts
      <3>3. R!EndComplete("source")
        BY <1>3, <1>4, <1>5, <2>1, <2>2, <3>1, <3>2 DEF R!EndComplete, Ends, Sides, R!Sides
      <3> QED
        BY <1>5, <3>3 DEF R!Next
    <2>4. CASE ~(iResult = "DestinationEof" /\ tResult = "DestinationEof")
      <3>1. ClientEnd' = "cut"
        BY <1>3, <2>1, <2>4 DEF ClientEnd
      <3>2. R!EndCut("source")
        BY <1>3, <1>4, <1>5, <2>1, <2>2, <3>1 DEF R!EndCut, Ends, Sides, R!Sides
      <3> QED
        BY <1>5, <3>2 DEF R!Next
    <2> QED
      BY <2>3, <2>4
  <1>9. CASE I!LateReset("source") \/ I!Abort("source")
    <2>1. /\ iDead'["source"] = TRUE /\ ~iDead["source"]
          /\ iTail'["source"] # "open"
          /\ UNCHANGED <<iSent, iRecv, iEof>>
      BY <1>1, <1>9 DEF I!LateReset, I!Abort, I!endVars, Ends2
    <2>2. /\ ClientRecv' = ClientRecv
          /\ ClientEnd' = IF ClientEnd = "open" THEN "broken" ELSE ClientEnd
      BY <1>3, <1>6, <2>1 DEF ClientEnd
    <2>3. R!Break("source")
      BY <1>3, <1>4, <2>1, <2>2 DEF R!Break, Ends, Sides, R!Sides
    <2> QED
      BY <1>5, <2>3 DEF R!Next
  <1>10. CASE I!Send("source")
    <2>1. /\ iTail["source"] = "open" /\ iSent'["source"] = iSent["source"] + 1
          /\ UNCHANGED <<iTail, iRecv, iEof, iDead>>
      BY <1>1, <1>10 DEF I!Send, Ends2
    <2>2. ClientRecv' = ClientRecv /\ ClientEnd' = ClientEnd
      BY <1>3, <1>6, <2>1 DEF ClientEnd
    <2>3. R!Send("source")
      BY <1>3, <1>4, <2>1, <2>2 DEF R!Send, Ends, Sides, R!Sides
    <2> QED
      BY <1>5, <2>3 DEF R!Next
  <1>11. CASE I!Finish("source")
    <2>1. /\ iTail["source"] = "open" /\ iTail'["source"] = "fin"
          /\ UNCHANGED <<iSent, iRecv, iEof, iDead>>
      BY <1>1, <1>11 DEF I!Finish, I!endVars, Ends2
    <2>2. ClientRecv' = ClientRecv /\ ClientEnd' = ClientEnd
      BY <1>3, <1>6, <2>1 DEF ClientEnd
    <2>3. R!Finish("source")
      BY <1>3, <1>4, <2>1, <2>2 DEF R!Finish, Ends, Sides, R!Sides
    <2> QED
      BY <1>5, <2>3 DEF R!Next
  <1> QED
    BY <1>7, <1>8, <1>9, <1>10, <1>11 DEF ClientReads, ClientReset, ClientWrites

(* The steps of the backend.                                               *)
LEMMA BackendStep ==
  ASSUME ChainInv, ChainInv', BackendReads \/ BackendReset \/ BackendWrites
  PROVE  [R!Next]_(R!vars)
  <1>1. /\ tSent \in [Ends2 -> Nat] /\ tRecv \in [Ends2 -> Seq(Ends2 \X Nat)]
        /\ tEof \in [Ends2 -> BOOLEAN] /\ tDead \in [Ends2 -> BOOLEAN]
        /\ tTail \in [Ends2 -> {"open", "fin", "rst"}]
        /\ tOutq \in [Ends2 -> Seq(Ends2 \X Nat)]
    BY TerminatorView DEF ChainInv
  <1>2. UNCHANGED iVars /\ UNCHANGED T!pumpVars
    BY DEF BackendReads, BackendReset, BackendWrites, T!Receive, T!SeeEof,
           T!LateReset, T!Send, T!Finish, T!Abort
  <1>3. /\ ClientEnd' = ClientEnd
        /\ UNCHANGED <<iSent, iTail, iRecv, tResult, iResult>>
    BY <1>2 DEF ClientEnd, iVars, T!pumpVars
  <1>4. ClientRecv' = ClientRecv
    BY <1>3, Composed, PrimedComposed
  <1>5. "destination" \in R!Sides /\ R!Other("destination") = "source"
    BY DEF R!Sides, R!Other
  <1>6. ASSUME tRecv'["destination"] = tRecv["destination"]
        PROVE  BackendRecv' = BackendRecv
    BY <1>6, Composed, PrimedComposed
  <1>7. CASE T!Receive("destination")
    <2> DEFINE n == Len(tRecv["destination"])
    <2>1. tRecv'["destination"] = Append(tRecv["destination"], Head(tOutq["destination"]))
      BY <1>1, <1>7 DEF T!Receive, Ends2
    <2>2. n \in Nat /\ Len(tRecv'["destination"]) = n + 1
      <3>1. tRecv["destination"] \in Seq(Ends2 \X Nat)
        BY <1>1 DEF Ends2
      <3> QED
        BY <2>1, <3>1
    <2>3. BackendRecv = Pieces("source", n)
          /\ BackendRecv' = Pieces("source", n + 1)
      BY <2>2, Composed, PrimedComposed
    <2>4. /\ Len(BackendRecv) = n
          /\ BackendRecv' = Append(BackendRecv, <<"source", Len(BackendRecv) + 1>>)
      BY <2>2, <2>3, PiecesFacts
    <2>5. ~tEof["destination"] /\ ~tDead["destination"] /\ n < tSent["source"]
      BY <1>7, TerminatorView DEF ChainInv, StreamView, T!Receive
    <2>6. n < iSent["source"]
      BY <2>2, <2>5, Composed
    <2>7. BackendEnd = "open" /\ BackendEnd' = "open"
      BY <1>3, <1>7, <2>5 DEF BackendEnd, T!Receive
    <2>8. UNCHANGED <<tSent, tTail>>
      BY <1>7 DEF T!Receive
    <2>9. R!Deliver("destination")
      BY <1>3, <1>4, <1>5, <2>4, <2>6, <2>7, <2>8 DEF R!Deliver, Ends, Sides, R!Sides
    <2> QED
      BY <1>5, <2>9 DEF R!Next
  <1>8. CASE T!SeeEof("destination")
    <2>1. /\ ~tDead["destination"] /\ tOutq["destination"] = <<>> /\ ~tEof["destination"]
          /\ tEof'["destination"] = TRUE
          /\ UNCHANGED <<tSent, tTail, tRecv, tDead>>
      BY <1>1, <1>8 DEF T!SeeEof, T!wireVars, Ends2
    <2>2. BackendEnd = "open" /\ BackendRecv' = BackendRecv
      BY <1>6, <2>1 DEF BackendEnd
    <2>3. CASE tResult = "SourceEof" /\ iResult = "SourceEof"
      <3>1. BackendEnd' = "complete"
        BY <1>3, <2>1, <2>3 DEF BackendEnd
      <3>2. Len(BackendRecv) = iSent["source"] /\ iTail["source"] # "open"
        <4>1. Len(tRecv["destination"]) = iSent["source"] /\ iTail["source"] # "open"
          BY <2>1, <2>3, Complete
        <4>2. Len(tRecv["destination"]) \in Nat /\ BackendRecv = Pieces("source", Len(tRecv["destination"]))
          BY Composed
        <4> QED
          BY <4>1, <4>2, PiecesFacts
      <3>3. R!EndComplete("destination")
        BY <1>3, <1>4, <1>5, <2>1, <2>2, <3>1, <3>2 DEF R!EndComplete, Ends, Sides, R!Sides
      <3> QED
        BY <1>5, <3>3 DEF R!Next
    <2>4. CASE ~(tResult = "SourceEof" /\ iResult = "SourceEof")
      <3>1. BackendEnd' = "cut"
        BY <1>3, <2>1, <2>4 DEF BackendEnd
      <3>2. R!EndCut("destination")
        BY <1>3, <1>4, <1>5, <2>1, <2>2, <3>1 DEF R!EndCut, Ends, Sides, R!Sides
      <3> QED
        BY <1>5, <3>2 DEF R!Next
    <2> QED
      BY <2>3, <2>4
  <1>9. CASE T!LateReset("destination") \/ T!Abort("destination")
    <2>1. /\ tDead'["destination"] = TRUE /\ ~tDead["destination"]
          /\ tTail'["destination"] # "open"
          /\ UNCHANGED <<tSent, tRecv, tEof>>
      BY <1>1, <1>9 DEF T!LateReset, T!Abort, T!endVars, Ends2
    <2>2. /\ BackendRecv' = BackendRecv
          /\ BackendEnd' = IF BackendEnd = "open" THEN "broken" ELSE BackendEnd
      BY <1>3, <1>6, <2>1 DEF BackendEnd
    <2>3. R!Break("destination")
      BY <1>3, <1>4, <2>1, <2>2 DEF R!Break, Ends, Sides, R!Sides
    <2> QED
      BY <1>5, <2>3 DEF R!Next
  <1>10. CASE T!Send("destination")
    <2>1. /\ tTail["destination"] = "open" /\ tSent'["destination"] = tSent["destination"] + 1
          /\ UNCHANGED <<tTail, tRecv, tEof, tDead>>
      BY <1>1, <1>10 DEF T!Send, Ends2
    <2>2. BackendRecv' = BackendRecv /\ BackendEnd' = BackendEnd
      BY <1>3, <1>6, <2>1 DEF BackendEnd
    <2>3. R!Send("destination")
      BY <1>3, <1>4, <2>1, <2>2 DEF R!Send, Ends, Sides, R!Sides
    <2> QED
      BY <1>5, <2>3 DEF R!Next
  <1>11. CASE T!Finish("destination")
    <2>1. /\ tTail["destination"] = "open" /\ tTail'["destination"] = "fin"
          /\ UNCHANGED <<tSent, tRecv, tEof, tDead>>
      BY <1>1, <1>11 DEF T!Finish, T!endVars, Ends2
    <2>2. BackendRecv' = BackendRecv /\ BackendEnd' = BackendEnd
      BY <1>3, <1>6, <2>1 DEF BackendEnd
    <2>3. R!Finish("destination")
      BY <1>3, <1>4, <2>1, <2>2 DEF R!Finish, Ends, Sides, R!Sides
    <2> QED
      BY <1>5, <2>3 DEF R!Next
  <1> QED
    BY <1>7, <1>8, <1>9, <1>10, <1>11 DEF BackendReads, BackendReset, BackendWrites

(* The chain is a relay: every step of the two proxies and of the wire is  *)
(* one that client and backend may see of a Relay, or one they do not see, *)
(* whatever the sizes of the buffers and queues.                           *)
THEOREM ChainImplementsRelay == Spec => RelaySpec
  <1>1. Init => R!Init
    <2> SUFFICES ASSUME Init PROVE R!Init
      OBVIOUS
    <2>1. /\ iSent["source"] = 0 /\ tSent["destination"] = 0
          /\ iTail["source"] = "open" /\ tTail["destination"] = "open"
          /\ iRecv["source"] = <<>> /\ tRecv["destination"] = <<>>
          /\ ~iEof["source"] /\ ~tEof["destination"]
          /\ ~iDead["source"] /\ ~tDead["destination"]
      BY DEF Init, I!Init, T!Init, I!Sides, T!Sides
    <2>2. ClientRecv = <<>> /\ BackendRecv = <<>>
      BY <2>1 DEF ClientRecv, BackendRecv
    <2>3. ClientEnd = "open" /\ BackendEnd = "open"
      BY <2>1 DEF ClientEnd, BackendEnd
    <2> QED
      BY <2>1, <2>2, <2>3 DEF R!Init, Ends, Sides, R!Sides
  <1>2. ChainInv /\ ChainInv' /\ [Next]_vars => [R!Next]_(R!vars)
    <2> SUFFICES ASSUME ChainInv, ChainInv', [Next]_vars PROVE [R!Next]_(R!vars)
      OBVIOUS
    <2>1. CASE UNCHANGED vars
      BY <2>1, UnseenStep DEF vars, iVars, tVars
    <2>2. CASE Next
      BY <2>2, TasksUnseen, WireUnseen, ClientStep, BackendStep DEF Next
    <2> QED
      BY <2>1, <2>2
  <1> QED
    BY <1>1, <1>2, ChainInvariant, PTL DEF Spec, RelaySpec, R!Spec

-----------------------------------------------------------------------------
(* What is proved of every relay is proved of the chain of two pumps.      *)
RP == INSTANCE RelayProofs WITH
        sent <- Ends(iSent["source"], tSent["destination"]),
        done <- Ends(iTail["source"] # "open", tTail["destination"] # "open"),
        recv <- Ends(ClientRecv, BackendRecv),
        verdict <- Ends(ClientEnd, BackendEnd)

LEMMA RelaySame ==
  /\ R!Init <=> RP!Init
  /\ [R!Next]_(R!vars) <=> [RP!Next]_(RP!vars)
  /\ R!RelayInv <=> RP!RelayInv
  BY DEF R!Init, RP!Init, R!Next, RP!Next, R!vars, RP!vars, R!Sides, RP!Sides,
         R!Other, RP!Other, R!Send, RP!Send, R!Finish, RP!Finish,
         R!Break, RP!Break, R!Deliver, RP!Deliver,
         R!EndComplete, RP!EndComplete, R!EndCut, RP!EndCut,
         R!RelayInv, RP!RelayInv, R!RelayTypeOK, RP!RelayTypeOK,
         R!Verdicts, RP!Verdicts

LEMMA IsRelay == Spec => RP!Spec
  <1>1. R!Spec <=> RP!Spec
    BY RelaySame, PTL DEF R!Spec, RP!Spec
  <1> QED
    BY <1>1, ChainImplementsRelay DEF RelaySpec

(* The same of client and backend, across both proxies: the end of a       *)
(* stream that both halves report as orderly comes with all of it.         *)
THEOREM ChainKeepsPromise == Spec => []R!RelayInv
  <1>1. RP!Spec => []RP!RelayInv
    BY RP!RelayInvariant
  <1> QED
    BY <1>1, IsRelay, RelaySame, PTL

(* Nothing that client or backend has read is taken back, nothing follows  *)
(* an end of stream or a reset, and what that end means never changes,     *)
(* although the halves report it at different times.                       *)
THEOREM ChainIrrevocable == Spec => R!Irrevocable
  <1>1. RP!Spec => RP!Irrevocable
    BY RP!RelayIrrevocable
  <1>2. RP!Irrevocable <=> R!Irrevocable
    BY DEF RP!Irrevocable, R!Irrevocable, RP!vars, R!vars, RP!Sides, R!Sides,
           RP!Other, R!Other
  <1> QED
    BY <1>1, <1>2, IsRelay, PTL

=============================================================================
