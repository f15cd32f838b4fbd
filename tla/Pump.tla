-------------------------------- MODULE Pump --------------------------------
(***************************************************************************)
(* One run of forward::pump (src/forward.rs): the task that joins two TCP   *)
(* connections of the proxy, `source` and `destination`, and copies bytes  *)
(* both ways until one of them ends, an error occurs or the idle timer     *)
(* fires.                                                                  *)
(*                                                                         *)
(* The endpoint at the far end of each connection, and what the kernel and *)
(* the network do with the proxy's sockets, are the environment: they are  *)
(* modelled from the calls pump makes (read, write_all, shutdown, drop).   *)
(* Bytes are abstracted to their position: the i-th byte that endpoint s   *)
(* writes is <<s, i>>, so a lost, repeated, reordered or misdirected byte  *)
(* shows.                                                                  *)
(***************************************************************************)
EXTENDS Integers, Sequences

CONSTANTS
  BufSize,   \* size of a read buffer (16 KiB in the code)
  InCap,     \* bytes in flight from an endpoint to the proxy
  OutCap,    \* bytes in flight from the proxy to an endpoint
  IdleSecs,  \* idle timeout in ticks; 0 is Option::None
  MaxBytes   \* bound on the bytes that each endpoint writes

Sides == {"source", "destination"}

ASSUME BufSizeAssumption == BufSize \in Nat \ {0}
ASSUME InCapAssumption == InCap \in Nat \ {0}
ASSUME OutCapAssumption == OutCap \in Nat \ {0}
ASSUME IdleSecsAssumption == IdleSecs \in Nat
ASSUME MaxBytesAssumption == MaxBytes \in [Sides -> Nat]

Other(s) == IF s = "source" THEN "destination" ELSE "source"

Bytes == Sides \X Nat

CloseReason == {"SourceEof", "DestinationEof", "IdleTimeout"}

EofOf(s) == IF s = "source" THEN "SourceEof" ELSE "DestinationEof"

VARIABLES
  pc,         \* "select": in select!; "write": in write_all; "returned"
  from,       \* the side read last
  buf,        \* what write_all has still to hand to the other socket
  count,      \* size of the chunk that was read
  forwarded,  \* source_to_destination and destination_to_source
  result,     \* "none", a CloseReason of Ok(stats), "Error", or "Killed":
              \* the process exited and pump reports nothing
  timer,      \* ticks since this iteration's sleep was created
  inq,        \* bytes of an endpoint the proxy has not read
  tail,       \* what follows them: "open" (more may come), "fin" or "rst"
  outq,       \* bytes written to an endpoint that it has not read
  shut,       \* a FIN follows them
  dead,       \* the connection was reset: nothing more gets through
  sent,       \* history: how many bytes the endpoint wrote
  recv,       \* history: the bytes the endpoint read
  eof,        \* the endpoint has read the end of its stream
  quiet       \* history: ticks since pump last read a byte

pumpVars == <<pc, from, buf, count, forwarded, result>>
wireVars == <<inq, tail, outq, shut, dead>>
endVars  == <<sent, recv, eof>>
timeVars == <<timer, quiet>>
vars == <<pumpVars, wireVars, endVars, timeVars>>

Init ==
  /\ pc = "select" /\ from = "source" /\ buf = <<>> /\ count = 0
  /\ forwarded = [s \in Sides |-> 0]
  /\ result = "none"
  /\ timer = 0 /\ quiet = 0
  /\ inq = [s \in Sides |-> <<>>]
  /\ tail = [s \in Sides |-> "open"]
  /\ outq = [s \in Sides |-> <<>>]
  /\ shut = [s \in Sides |-> FALSE]
  /\ dead = [s \in Sides |-> FALSE]
  /\ sent = [s \in Sides |-> 0]
  /\ recv = [s \in Sides |-> <<>>]
  /\ eof = [s \in Sides |-> FALSE]

-----------------------------------------------------------------------------
(* Leaving pump.  Its locals are dropped (the chunk, the sleep, which side *)
(* was read last) and both streams with them, which closes the sockets.  A *)
(* close sends a FIN unless bytes of the endpoint are unread: then the     *)
(* kernel may reset the connection instead (LateReset), with or without the*)
(* FIN of an earlier shutdown().                                           *)

(* Slip: only a socket that was shut down is closed.                       *)
CloseShutOnly(shutdown) == shut' = [s \in Sides |-> s \in shutdown]

CloseSockets(shutdown) ==
  shut' \in {f \in [Sides -> BOOLEAN] :
               \A s \in Sides : s \in shutdown \/ inq[s] = <<>> => f[s]}

Return(r, shutdown) ==
  /\ pc' = "returned"
  /\ result' = r
  /\ from' = "source" /\ buf' = <<>> /\ count' = 0 /\ timer' = 0
  /\ CloseSockets(shutdown)
  /\ UNCHANGED <<forwarded, inq, tail, outq, dead, endVars, quiet>>

(* Slips, for the checks: plausible bugs in one branch of the loop.        *)

(* The next chunk is read while the last one is being written.             *)
ReadAhead(s) ==
  /\ pc # "returned" /\ from = s
  /\ \E n \in 1..Len(inq[s]) :
       /\ n <= BufSize
       /\ buf' = buf \o SubSeq(inq[s], 1, n)
       /\ count' = n
       /\ inq' = [inq EXCEPT ![s] = SubSeq(inq[s], n + 1, Len(inq[s]))]
  /\ pc' = "write" /\ quiet' = 0
  /\ UNCHANGED <<from, forwarded, result, timer, tail, outq, shut, dead, endVars>>

(* The end of a stream is acted on before what precedes it.                *)
ReadEofEarly(s) ==
  /\ pc = "select"
  /\ tail[s] = "fin"
  /\ Return(EofOf(s), {Other(s)})

(* The end of a stream is blamed on the other side.                        *)
ReadEofSwapped(s) ==
  /\ pc = "select"
  /\ inq[s] = <<>> /\ tail[s] = "fin"
  /\ Return(EofOf(Other(s)), {Other(s)})

(* A read of 0 goes round the loop again, with a new sleep.                *)
ReadEofIgnored(s) ==
  /\ pc = "select"
  /\ inq[s] = <<>> /\ tail[s] = "fin"
  /\ timer' = 0
  /\ UNCHANGED <<pumpVars, wireVars, endVars, quiet>>

(* A read that fails is taken for a read of 0.                             *)
ReadErrAsEof(s) ==
  /\ pc = "select"
  /\ inq[s] = <<>> /\ tail[s] = "rst"
  /\ Return(EofOf(s), {Other(s)})

(* The sleep that completes goes round the loop again.                     *)
IdleIgnored ==
  /\ pc = "select"
  /\ IdleSecs > 0 /\ timer >= IdleSecs
  /\ timer' = 0
  /\ UNCHANGED <<pumpVars, wireVars, endVars, quiet>>

(* A write of k bytes to side `to`; rearm, counted: what it does to the    *)
(* sleep and to the counter when nothing is left.                          *)
WriteWith(to, k, left, rearm, counted) ==
  /\ pc = "write" /\ ~dead[to]
  /\ k <= OutCap - Len(outq[to])
  /\ outq' = [outq EXCEPT ![to] = @ \o SubSeq(buf, 1, k)]
  /\ buf' = left
  /\ IF left = <<>>
       THEN /\ forwarded' = [forwarded EXCEPT ![from] = @ + counted]
            /\ pc' = "select"
            /\ timer' = IF rearm THEN 0 ELSE timer
       ELSE UNCHANGED <<forwarded, pc, timer>>
  /\ UNCHANGED <<from, count, result, inq, tail, shut, dead, endVars, quiet>>

Left(k) == SubSeq(buf, k + 1, Len(buf))

(* The sleep is created once, outside the loop.                            *)
WriteKeepSleep ==
  \E k \in 1..Len(buf) : WriteWith(Other(from), k, Left(k), FALSE, count)

(* One write() in place of write_all(): what does not fit is dropped.      *)
WriteOnce ==
  \E k \in 1..Len(buf) : WriteWith(Other(from), k, <<>>, TRUE, count)

(* The chunk goes back to the side it came from.                           *)
WriteBack ==
  \E k \in 1..Len(buf) : WriteWith(from, k, Left(k), TRUE, count)

(* Only the last piece of the chunk is counted.                            *)
CountLast ==
  \E k \in 1..Len(buf) : WriteWith(Other(from), k, Left(k), TRUE, k)

(* A read that finds bytes: the other branches of the select! are dropped  *)
(* and the handler starts its write_all to the other socket.               *)
ReadSome(s) ==
  /\ pc = "select"
  /\ \E n \in 1..Len(inq[s]) :
       /\ n <= BufSize
       /\ buf' = SubSeq(inq[s], 1, n)
       /\ count' = n
       /\ inq' = [inq EXCEPT ![s] = SubSeq(inq[s], n + 1, Len(inq[s]))]
  /\ pc' = "write"
  /\ from' = s
  /\ quiet' = 0
  /\ UNCHANGED <<forwarded, result, timer, tail, outq, shut, dead, endVars>>

(* A read that returns 0: shut the other socket down and report the EOF.   *)
ReadEof(s) ==
  /\ pc = "select"
  /\ inq[s] = <<>> /\ tail[s] = "fin"
  /\ Return(EofOf(s), {Other(s)})

(* A read that fails: `?` drops both sockets with no shutdown, no stats.   *)
ReadErr(s) ==
  /\ pc = "select"
  /\ inq[s] = <<>> /\ tail[s] = "rst"
  /\ Return("Error", {})

(* The sleep of this iteration completes.                                  *)
IdleFire ==
  /\ pc = "select"
  /\ IdleSecs > 0 /\ timer >= IdleSecs
  /\ Return("IdleTimeout", Sides)

(* write_all hands over what fits in the socket; when the whole chunk is   *)
(* accepted it is counted, and the loop starts again with a new sleep.     *)
WriteSome ==
  LET to == Other(from) IN
  /\ pc = "write"
  /\ ~dead[to]
  /\ \E k \in 1..Len(buf) :
       /\ k <= OutCap - Len(outq[to])
       /\ outq' = [outq EXCEPT ![to] = @ \o SubSeq(buf, 1, k)]
       /\ buf' = SubSeq(buf, k + 1, Len(buf))
  /\ IF buf' = <<>>
       THEN /\ forwarded' = [forwarded EXCEPT ![from] = @ + count]
            /\ pc' = "select"
            /\ timer' = 0
       ELSE UNCHANGED <<forwarded, pc, timer>>
  /\ UNCHANGED <<from, count, result, inq, tail, shut, dead, endVars, quiet>>

(* write_all on a connection that was reset: `?` again.                    *)
WriteErr ==
  /\ pc = "write"
  /\ dead[Other(from)]
  /\ Return("Error", {})

(* The process exits in mid-session: accept() failed in run(), for all that*)
(* this session knows, or a signal ended it.  The kernel closes the sockets*)
(* as after any other return, and nothing is reported.                     *)
Exit ==
  /\ pc # "returned"
  /\ Return("Killed", {})

PumpStep ==
  \/ \E s \in Sides : ReadSome(s) \/ ReadEof(s) \/ ReadErr(s)
  \/ IdleFire
  \/ WriteSome
  \/ WriteErr

-----------------------------------------------------------------------------
(* The environment.                                                        *)

(* The endpoint writes a byte, before or after the proxy closed.           *)
Send(s) ==
  /\ ~dead[s] /\ tail[s] = "open"
  /\ sent[s] < MaxBytes[s] /\ Len(inq[s]) < InCap
  /\ sent' = [sent EXCEPT ![s] = @ + 1]
  /\ inq' = [inq EXCEPT ![s] = Append(@, <<s, sent[s] + 1>>)]
  /\ UNCHANGED <<pumpVars, tail, outq, shut, dead, recv, eof, timeVars>>

(* The endpoint ends its stream and may go on reading.                     *)
Finish(s) ==
  /\ ~dead[s] /\ tail[s] = "open"
  /\ tail' = [tail EXCEPT ![s] = "fin"]
  /\ UNCHANGED <<pumpVars, inq, outq, shut, dead, endVars, timeVars>>

(* The connection to the endpoint fails: it resets it, or the network      *)
(* loses it.  What is on its way to the proxy may be lost from some point  *)
(* on, the FIN included.                                                   *)
Abort(s) ==
  /\ ~dead[s]
  /\ dead' = [dead EXCEPT ![s] = TRUE]
  /\ outq' = [outq EXCEPT ![s] = <<>>]
  /\ \/ UNCHANGED inq /\ tail[s] = "fin" /\ UNCHANGED tail
     \/ /\ \E k \in 0..Len(inq[s]) :
             inq' = [inq EXCEPT ![s] = SubSeq(inq[s], 1, k)]
        /\ tail' = [tail EXCEPT ![s] = "rst"]
  /\ UNCHANGED <<pumpVars, shut, endVars, timeVars>>

(* The endpoint reads a byte, or the end of its stream.                    *)
Receive(s) ==
  /\ ~dead[s] /\ outq[s] # <<>>
  /\ recv' = [recv EXCEPT ![s] = Append(@, Head(outq[s]))]
  /\ outq' = [outq EXCEPT ![s] = Tail(@)]
  /\ UNCHANGED <<pumpVars, inq, tail, shut, dead, sent, eof, timeVars>>

SeeEof(s) ==
  /\ ~dead[s] /\ outq[s] = <<>> /\ shut[s] /\ ~eof[s]
  /\ eof' = [eof EXCEPT ![s] = TRUE]
  /\ UNCHANGED <<pumpVars, wireVars, sent, recv, timeVars>>

(* The proxy's socket is closed with bytes of the endpoint unread, or they *)
(* reach it later: the kernel answers with a reset, and what the endpoint  *)
(* has not read is gone.                                                   *)
LateReset(s) ==
  /\ pc = "returned" /\ ~dead[s] /\ inq[s] # <<>>
  /\ dead' = [dead EXCEPT ![s] = TRUE]
  /\ outq' = [outq EXCEPT ![s] = <<>>]
  /\ tail' = [tail EXCEPT ![s] = "rst"]
  /\ UNCHANGED <<pumpVars, inq, shut, endVars, timeVars>>

(* Time passes.  The sleep runs only while pump is in select!.  Both       *)
(* clocks stop at IdleSecs, the last value anything tells apart.           *)
Tick ==
  /\ pc # "returned"
  /\ quiet < IdleSecs \/ (pc = "select" /\ timer < IdleSecs)
  /\ quiet' = IF quiet < IdleSecs THEN quiet + 1 ELSE quiet
  /\ timer' = IF pc = "select" /\ timer < IdleSecs THEN timer + 1 ELSE timer
  /\ UNCHANGED <<pumpVars, wireVars, endVars>>

EndpointStep ==
  \E s \in Sides : Send(s) \/ Finish(s) \/ Abort(s) \/ Receive(s)
                   \/ SeeEof(s) \/ LateReset(s)

Next == PumpStep \/ Exit \/ EndpointStep \/ Tick

Spec == Init /\ [][Next]_vars

(* The runtime polls the task and its timers, time passes, the kernel      *)
(* delivers what it holds.                                                 *)
FairSpec ==
  /\ Spec
  /\ WF_vars(PumpStep) /\ WF_vars(Tick) /\ WF_vars(IdleFire)
  /\ \A s \in Sides : /\ WF_vars(SeeEof(s)) /\ WF_vars(LateReset(s))

(* The endpoints also read what reaches them, which pump relies on: a      *)
(* write_all has no time limit.                                            *)
FairReaders == \A s \in Sides : WF_vars(Receive(s))

-----------------------------------------------------------------------------
(* Properties.                                                             *)

(* Every variable keeps its type, no queue exceeds its capacity, and a     *)
(* chunk never exceeds the read buffer.                                    *)
TypeOK ==
  /\ pc \in {"select", "write", "returned"}
  /\ from \in Sides
  /\ buf \in Seq(Bytes) /\ Len(buf) <= count
  /\ count \in 0..BufSize
  /\ forwarded \in [Sides -> Nat]
  /\ result \in CloseReason \cup {"none", "Error", "Killed"}
  /\ timer \in 0..IdleSecs /\ quiet \in 0..IdleSecs
  /\ inq \in [Sides -> Seq(Bytes)] /\ outq \in [Sides -> Seq(Bytes)]
  /\ \A s \in Sides : Len(inq[s]) <= InCap /\ Len(outq[s]) <= OutCap
  /\ tail \in [Sides -> {"open", "fin", "rst"}]
  /\ shut \in [Sides -> BOOLEAN] /\ dead \in [Sides -> BOOLEAN]
  /\ sent \in [Sides -> Nat]
  /\ recv \in [Sides -> Seq(Bytes)]
  /\ eof \in [Sides -> BOOLEAN]

(* The bytes of s that pump has read and not yet handed on.                *)
Hand(s) == IF from = s THEN buf ELSE <<>>

(* The stream of endpoint s from its i-th byte on.                         *)
IsStream(q, s, i) == \A j \in 1..Len(q) : q[j] = <<s, i + j - 1>>

(* However the two directions, partial writes and resets interleave, an    *)
(* endpoint reads the other one's bytes from the first on, in order, none  *)
(* lost, repeated or sent back; and while pump runs on a live connection,  *)
(* what the endpoint reads next continues in the socket, then in the       *)
(* chunk being written, then in the other socket (pump's two buffers and   *)
(* write_all).                                                             *)
RelayIntegrity ==
  \A s \in Sides :
    LET o == Other(s) IN
    /\ IsStream(recv[o], s, 1)
    /\ Len(recv[o]) <= sent[s]
    /\ ~dead[o] => IsStream(outq[o], s, Len(recv[o]) + 1)
    /\ ~dead[o] /\ pc # "returned" =>
         LET p == recv[o] \o outq[o] \o Hand(s) \o inq[s] IN
         /\ IsStream(p, s, 1)
         /\ tail[s] # "rst" => Len(p) = sent[s]

(* If pump reports that s ended its stream and the other endpoint then     *)
(* reads the end of its own, that endpoint has every byte s ever wrote:    *)
(* the FIN that shutdown() sends never overtakes or cuts data.             *)
EofTruthful ==
  \A s \in Sides :
    result = EofOf(s) /\ eof[Other(s)] => Len(recv[Other(s)]) = sent[s]

(* bytes_up and bytes_down of the stats: exactly what the finished side    *)
(* wrote; for each side, never less than what was delivered nor more than  *)
(* was sent, although write_all takes several steps and the counters are   *)
(* updated only after it.                                                  *)
StatsExact ==
  result \in CloseReason =>
    \A s \in Sides :
      /\ result = EofOf(s) => forwarded[s] = sent[s]
      /\ Len(recv[Other(s)]) <= forwarded[s] /\ forwarded[s] <= sent[s]
      /\ ~dead[Other(s)] =>
           forwarded[s] = Len(recv[Other(s)]) + Len(outq[Other(s)])

(* pump gives up on a connection as idle only after a whole idle timeout   *)
(* in which it read nothing from either side: the sleep is re-created by   *)
(* every turn of the loop.                                                 *)
IdleIsQuiet == result = "IdleTimeout" => quiet = IdleSecs

(* A slow reader holds its writer back: pump never has more bytes of one   *)
(* direction than the two sockets and one buffer hold.                     *)
BoundedInFlight ==
  \A s \in Sides :
    sent[s] - Len(recv[Other(s)]) <= InCap + BufSize + OutCap

(* Once an endpoint has ended its stream, or broken it, pump returns.      *)
EndStopsPump == \A s \in Sides : tail[s] # "open" ~> pc = "returned"

(* If the endpoints stop writing, the idle timer ends the connection, also *)
(* when neither of them ever closes.                                       *)
ReadAny == \E s \in Sides : ReadSome(s)
IdleStopsPump ==
  IdleSecs > 0 /\ <>[][~ReadAny]_vars => <>(pc = "returned")

(* When pump is over each endpoint comes to know it: it reads the end of   *)
(* its stream or gets a reset.                                             *)
EndpointsLearn == \A s \in Sides : pc = "returned" ~> eof[s] \/ dead[s]

(* When pump reports the end of s, the other endpoint gets all of s's      *)
(* bytes and then the end of the stream, unless its connection breaks.     *)
EofDelivers ==
  \A s \in Sides :
    LET o == Other(s) IN
    result = EofOf(s) ~> dead[o] \/ (eof[o] /\ Len(recv[o]) = sent[s])

(* One pump is a relay.  The end of an endpoint's stream counts as         *)
(* complete exactly when pump reports the EOF of the other side; after an  *)
(* idle timeout, an error, or the EOF of its own side, it is only cut.     *)
PromisedEnd(s) ==
  CASE eof[s] /\ result = EofOf(Other(s)) -> "complete"
    [] eof[s] /\ result # EofOf(Other(s)) -> "cut"
    [] ~eof[s] /\ dead[s] -> "broken"
    [] OTHER -> "open"

R == INSTANCE Relay WITH
       sent <- sent, recv <- recv,
       done <- [s \in Sides |-> tail[s] # "open"],
       verdict <- [s \in Sides |-> PromisedEnd(s)]

(* Every step of pump and of its environment is a step of Relay or changes *)
(* nothing the endpoints can see.                                          *)
RelaySpec == R!Spec

-----------------------------------------------------------------------------
(* The inductive invariant behind the safety properties.                   *)

(* Size of the chunk of s being written, and how many bytes of s the other *)
(* socket has accepted.                                                    *)
Chunk(s) == IF pc = "write" /\ from = s THEN count ELSE 0
Passed(s) == (forwarded[s] + Chunk(s)) - Len(Hand(s))

(* What the position of pump in its loop says about the sockets.           *)
ControlInv ==
  /\ result = "none" <=> pc # "returned"
  /\ buf # <<>> => pc = "write"
  /\ \A s \in Sides :
       /\ shut[s] => pc = "returned"
       /\ eof[s] => shut[s] /\ outq[s] = <<>>
       /\ dead[s] => outq[s] = <<>>
       /\ result = EofOf(s) => tail[s] # "open"

(* The sleep of an iteration is no older than the last byte read.          *)
TimerInv ==
  /\ pc = "select" => timer <= quiet
  /\ result = "IdleTimeout" => quiet = IdleSecs

(* The bytes of s, wherever they are, are consecutive pieces of its stream.*)
StreamInv(s) ==
  LET o == Other(s) IN
  /\ IsStream(recv[o], s, 1)
  /\ ~dead[o] => IsStream(outq[o], s, Len(recv[o]) + 1)
  /\ pc # "returned" => /\ IsStream(Hand(s), s, Passed(s) + 1)
                        /\ IsStream(inq[s], s, forwarded[s] + Chunk(s) + 1)

(* The pieces adjoin: every byte of s is in one of them.                   *)
CountInv(s) ==
  LET o == Other(s) IN
  /\ Len(recv[o]) + Len(outq[o]) <= sent[s]
  /\ pc # "returned" =>
       /\ Len(recv[o]) <= Passed(s)
       /\ ~dead[o] => Len(recv[o]) + Len(outq[o]) = Passed(s)
       /\ forwarded[s] + Chunk(s) + Len(inq[s]) <= sent[s]
       /\ tail[s] # "rst" => forwarded[s] + Chunk(s) + Len(inq[s]) = sent[s]
  /\ result \in CloseReason =>
       /\ Len(recv[o]) <= forwarded[s] /\ forwarded[s] <= sent[s]
       /\ ~dead[o] => Len(recv[o]) + Len(outq[o]) = forwarded[s]
       /\ eof[o] => Len(recv[o]) = forwarded[s]
       /\ result = EofOf(s) => forwarded[s] = sent[s]

(* What the other endpoint has not read of s: what its socket holds, or    *)
(* held before it broke, then the chunk, then the other socket.            *)
WindowInv(s) ==
  LET read == Len(recv[Other(s)]) IN
  /\ pc # "returned" => Passed(s) <= read + OutCap
  /\ tail[s] # "rst" => sent[s] <= read + Len(inq[s]) + BufSize + OutCap
  /\ sent[s] <= read + InCap + BufSize + OutCap

PumpInv ==
  /\ TypeOK
  /\ ControlInv
  /\ TimerInv
  /\ \A s \in Sides : StreamInv(s) /\ CountInv(s)

BoundInv == PumpInv /\ \A s \in Sides : WindowInv(s)

=============================================================================
