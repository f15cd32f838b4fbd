----------------------------- MODULE PumpProofs -----------------------------
(***************************************************************************)
(* Theorems about Pump, for every size of the buffers, every capacity of   *)
(* the sockets, every idle timeout and every bound on what is written.     *)
(***************************************************************************)
EXTENDS Pump, TLAPS

(* Facts about the sequence operators that the actions use.                *)
LEMMA SubSeqFacts ==
  ASSUME NEW S, NEW q \in Seq(S), NEW m \in Nat \ {0}, NEW n \in 0..Len(q)
  PROVE  /\ SubSeq(q, m, n) \in Seq(S)
         /\ Len(SubSeq(q, m, n)) = IF m <= n THEN n - m + 1 ELSE 0
         /\ \A i \in 1..Len(SubSeq(q, m, n)) : SubSeq(q, m, n)[i] = q[m + i - 1]
  OBVIOUS

LEMMA ConcatFacts ==
  ASSUME NEW S, NEW p \in Seq(S), NEW q \in Seq(S)
  PROVE  /\ p \o q \in Seq(S)
         /\ Len(p \o q) = Len(p) + Len(q)
         /\ \A i \in 1..Len(p) : (p \o q)[i] = p[i]
         /\ \A i \in 1..Len(q) : (p \o q)[Len(p) + i] = q[i]
  OBVIOUS

LEMMA AppendFacts ==
  ASSUME NEW S, NEW q \in Seq(S), NEW e \in S
  PROVE  /\ Append(q, e) \in Seq(S)
         /\ Len(Append(q, e)) = Len(q) + 1
         /\ \A i \in 1..Len(q) : Append(q, e)[i] = q[i]
         /\ Append(q, e)[Len(q) + 1] = e
  OBVIOUS

LEMMA HeadTailFacts ==
  ASSUME NEW S, NEW q \in Seq(S), q # <<>>
  PROVE  /\ Head(q) \in S /\ Head(q) = q[1]
         /\ Tail(q) \in Seq(S)
         /\ Len(q) >= 1 /\ Len(Tail(q)) = Len(q) - 1
         /\ \A i \in 1..Len(Tail(q)) : Tail(q)[i] = q[i + 1]
  OBVIOUS

LEMMA EmptyFacts ==
  ASSUME NEW S, NEW q \in Seq(S)
  PROVE  Len(q) \in Nat /\ (q = <<>> <=> Len(q) = 0)
  OBVIOUS

(* Replacing one queue of a bounded pair by a bounded queue.               *)
LEMMA QueueExcept ==
  ASSUME NEW cap, NEW f \in [Sides -> Seq(Bytes)],
         \A t \in Sides : Len(f[t]) <= cap,
         NEW s \in Sides, NEW q \in Seq(Bytes), Len(q) <= cap,
         NEW g, g = [f EXCEPT ![s] = q]
  PROVE  g \in [Sides -> Seq(Bytes)] /\ \A t \in Sides : Len(g[t]) <= cap
  <1>1. /\ g \in [Sides -> Seq(Bytes)] /\ g[s] = q
        /\ \A t \in Sides : t # s => g[t] = f[t]
    OBVIOUS
  <1>2. ASSUME NEW t \in Sides PROVE Len(g[t]) <= cap
    <2>1. CASE t = s
      BY <1>1, <2>1
    <2>2. CASE t # s
      BY <1>1, <2>2
    <2> QED
      BY <2>1, <2>2
  <1> QED
    BY <1>1, <1>2

LEMMA SideFacts ==
  /\ \A s \in Sides : Other(s) \in Sides /\ Other(s) # s /\ Other(Other(s)) = s
  /\ \A s \in Sides : EofOf(s) \in CloseReason
  /\ \A s, t \in Sides : EofOf(s) = EofOf(t) => s = t
  /\ \A s \in Sides : EofOf(s) \notin {"none", "Error", "Killed", "IdleTimeout"}
  BY DEF Sides, Other, EofOf, CloseReason

-----------------------------------------------------------------------------
(* Type correctness.                                                       *)

LEMMA InitTypeOK == Init => TypeOK
  <1> SUFFICES ASSUME Init PROVE TypeOK
    OBVIOUS
  <1>1. <<>> \in Seq(Bytes) /\ Len(<<>>) = 0
    OBVIOUS
  <1> QED
    BY <1>1, BufSizeAssumption, InCapAssumption, OutCapAssumption,
       IdleSecsAssumption
    DEF Init, TypeOK, Sides

(* Every way out of pump keeps the types.                                  *)
LEMMA ReturnTypeOK ==
  ASSUME TypeOK, NEW r \in CloseReason \cup {"Error", "Killed"}, NEW x, Return(r, x)
  PROVE  TypeOK'
  <1>1. shut' \in [Sides -> BOOLEAN]
    BY DEF Return, CloseSockets
  <1>2. /\ buf' \in Seq(Bytes) /\ Len(buf') <= count'
        /\ from' \in Sides /\ count' \in 0..BufSize /\ timer' \in 0..IdleSecs
    BY BufSizeAssumption, IdleSecsAssumption DEF Return, TypeOK, Sides
  <1> QED
    BY <1>1, <1>2 DEF Return, TypeOK, endVars

LEMMA NextTypeOK == TypeOK /\ [Next]_vars => TypeOK'
  <1> SUFFICES ASSUME TypeOK, [Next]_vars PROVE TypeOK'
    OBVIOUS
  <1> USE BufSizeAssumption, InCapAssumption, OutCapAssumption,
          IdleSecsAssumption
  <1>1. ASSUME NEW s \in Sides, ReadSome(s) PROVE TypeOK'
    <2>1. PICK n \in 1..Len(inq[s]) :
            /\ n <= BufSize
            /\ buf' = SubSeq(inq[s], 1, n)
            /\ count' = n
            /\ inq' = [inq EXCEPT ![s] = SubSeq(inq[s], n + 1, Len(inq[s]))]
      BY <1>1 DEF ReadSome
    <2>2. inq[s] \in Seq(Bytes) /\ Len(inq[s]) \in Nat
      BY DEF TypeOK
    <2>3. buf' \in Seq(Bytes) /\ Len(buf') = n
      BY <2>1, <2>2, SubSeqFacts
    <2>4. /\ SubSeq(inq[s], n + 1, Len(inq[s])) \in Seq(Bytes)
          /\ Len(SubSeq(inq[s], n + 1, Len(inq[s]))) <= Len(inq[s])
      BY <2>1, <2>2, SubSeqFacts
    <2>5. /\ inq' \in [Sides -> Seq(Bytes)]
          /\ \A t \in Sides : Len(inq'[t]) <= InCap
      <3>1. /\ inq \in [Sides -> Seq(Bytes)]
            /\ \A t \in Sides : Len(inq[t]) <= InCap
        BY DEF TypeOK
      <3>2. Len(SubSeq(inq[s], n + 1, Len(inq[s]))) <= InCap
        BY <2>2, <2>4, <3>1
      <3> QED
        BY <2>1, <2>4, <3>1, <3>2, QueueExcept
    <2>6. count' \in 0..BufSize /\ Len(buf') <= count'
      BY <2>1, <2>2, <2>3
    <2>7. /\ pc' = "write" /\ from' = s /\ quiet' = 0
          /\ UNCHANGED <<forwarded, result, timer, tail, outq, shut, dead,
                         sent, recv, eof>>
      BY <1>1 DEF ReadSome, endVars
    <2>8. \A t \in Sides : Len(inq'[t]) <= InCap /\ Len(outq'[t]) <= OutCap
      BY <2>5, <2>7 DEF TypeOK
    <2>9. pc' \in {"select", "write", "returned"} /\ quiet' \in 0..IdleSecs
      BY <2>7
    <2> QED
      BY <2>3, <2>5, <2>6, <2>7, <2>8, <2>9 DEF TypeOK
  <1>2. ASSUME NEW s \in Sides, ReadEof(s) PROVE TypeOK'
    BY <1>2, ReturnTypeOK, SideFacts DEF ReadEof
  <1>3. ASSUME NEW s \in Sides, ReadErr(s) PROVE TypeOK'
    BY <1>3, ReturnTypeOK DEF ReadErr
  <1>4. ASSUME IdleFire PROVE TypeOK'
    BY <1>4, ReturnTypeOK DEF IdleFire, CloseReason
  <1>5. ASSUME WriteSome PROVE TypeOK'
    <2> DEFINE to == Other(from)
    <2>0. from \in Sides /\ to \in Sides
      BY SideFacts DEF TypeOK
    <2>1. PICK k \in 1..Len(buf) :
            /\ k <= OutCap - Len(outq[to])
            /\ outq' = [outq EXCEPT ![to] = @ \o SubSeq(buf, 1, k)]
            /\ buf' = SubSeq(buf, k + 1, Len(buf))
      BY <1>5 DEF WriteSome
    <2>2. /\ buf \in Seq(Bytes) /\ Len(buf) \in Nat
          /\ outq[to] \in Seq(Bytes) /\ Len(outq[to]) \in Nat
      BY SMTT(30), <2>0 DEF TypeOK
    <2>3. SubSeq(buf, 1, k) \in Seq(Bytes) /\ Len(SubSeq(buf, 1, k)) = k
      BY <2>1, <2>2, SubSeqFacts
    <2>4. buf' \in Seq(Bytes) /\ Len(buf') <= Len(buf)
      BY <2>1, <2>2, SubSeqFacts
    <2>5. /\ outq[to] \o SubSeq(buf, 1, k) \in Seq(Bytes)
          /\ Len(outq[to] \o SubSeq(buf, 1, k)) = Len(outq[to]) + k
      BY <2>2, <2>3, ConcatFacts
    <2>6. /\ outq' \in [Sides -> Seq(Bytes)]
          /\ \A t \in Sides : Len(outq'[t]) <= OutCap
      <3>1. /\ outq \in [Sides -> Seq(Bytes)]
            /\ \A t \in Sides : Len(outq[t]) <= OutCap
        BY DEF TypeOK
      <3>2. Len(outq[to] \o SubSeq(buf, 1, k)) <= OutCap
        BY <2>1, <2>2, <2>5
      <3>3. outq' = [outq EXCEPT ![to] = outq[to] \o SubSeq(buf, 1, k)]
        BY <2>0, <2>1, <3>1
      <3> HIDE DEF to
      <3> QED
        BY <2>0, <2>5, <3>1, <3>2, <3>3, QueueExcept
    <2>7. forwarded' \in [Sides -> Nat] /\ timer' \in 0..IdleSecs
          /\ pc' \in {"select", "write", "returned"}
      <3>1. \/ /\ forwarded' = [forwarded EXCEPT ![from] = @ + count]
               /\ pc' = "select" /\ timer' = 0
            \/ UNCHANGED <<forwarded, pc, timer>>
        BY <1>5 DEF WriteSome
      <3>2. /\ count \in Nat /\ forwarded \in [Sides -> Nat]
            /\ timer \in 0..IdleSecs /\ pc \in {"select", "write", "returned"}
        BY DEF TypeOK
      <3>3. forwarded' \in [Sides -> Nat]
        BY <2>0, <3>1, <3>2
      <3> QED
        BY <3>1, <3>2, <3>3
    <2>8. UNCHANGED <<from, count, result, inq, tail, shut, dead, sent, recv,
                      eof, quiet>>
      BY <1>5 DEF WriteSome, endVars
    <2>9. Len(buf') <= count'
      BY <2>4, <2>2, <2>8 DEF TypeOK
    <2> QED
      BY <2>4, <2>6, <2>7, <2>8, <2>9 DEF TypeOK
  <1>6. ASSUME WriteErr PROVE TypeOK'
    BY <1>6, ReturnTypeOK DEF WriteErr
  <1>15. ASSUME Exit PROVE TypeOK'
    BY <1>15, ReturnTypeOK DEF Exit
  <1>7. ASSUME NEW s \in Sides, Send(s) PROVE TypeOK'
    <2>1. <<s, sent[s] + 1>> \in Bytes
      BY SMTT(30) DEF TypeOK, Bytes
    <2>2. inq[s] \in Seq(Bytes) /\ Len(inq[s]) \in Nat
      BY DEF TypeOK
    <2>3. /\ Append(inq[s], <<s, sent[s] + 1>>) \in Seq(Bytes)
          /\ Len(Append(inq[s], <<s, sent[s] + 1>>)) = Len(inq[s]) + 1
      BY <2>1, <2>2, AppendFacts
    <2>4. /\ inq' \in [Sides -> Seq(Bytes)]
          /\ \A t \in Sides : Len(inq'[t]) <= InCap
      <3>1. /\ inq' = [inq EXCEPT ![s] = Append(inq[s], <<s, sent[s] + 1>>)]
            /\ Len(inq[s]) < InCap
        BY <1>7 DEF Send
      <3>2. /\ inq \in [Sides -> Seq(Bytes)]
            /\ \A t \in Sides : Len(inq[t]) <= InCap
        BY DEF TypeOK
      <3>3. Len(Append(inq[s], <<s, sent[s] + 1>>)) <= InCap
        BY <2>2, <2>3, <3>1
      <3> QED
        BY <2>3, <3>1, <3>2, <3>3, QueueExcept
    <2>5. sent' \in [Sides -> Nat]
      <3>1. sent \in [Sides -> Nat] /\ sent' = [sent EXCEPT ![s] = sent[s] + 1]
        BY <1>7 DEF Send, TypeOK
      <3> QED
        BY <3>1
    <2>6. UNCHANGED <<pumpVars, tail, outq, shut, dead, recv, eof, timeVars>>
      BY <1>7 DEF Send
    <2>7. \A t \in Sides : Len(inq'[t]) <= InCap /\ Len(outq'[t]) <= OutCap
      BY <2>4, <2>6 DEF TypeOK
    <2>8. inq' \in [Sides -> Seq(Bytes)]
      BY <2>4
    <2> QED
      BY <2>5, <2>6, <2>7, <2>8 DEF TypeOK, pumpVars, timeVars
  <1>8. ASSUME NEW s \in Sides, Finish(s) PROVE TypeOK'
    BY <1>8 DEF Finish, TypeOK, pumpVars, timeVars, endVars
  <1>9. ASSUME NEW s \in Sides, Abort(s) PROVE TypeOK'
    <2>1. inq[s] \in Seq(Bytes) /\ Len(inq[s]) \in Nat
      BY DEF TypeOK
    <2>2. \A k \in 0..Len(inq[s]) : /\ SubSeq(inq[s], 1, k) \in Seq(Bytes)
                                    /\ Len(SubSeq(inq[s], 1, k)) = k
      BY <2>1, SubSeqFacts
    <2>3. /\ inq' \in [Sides -> Seq(Bytes)]
          /\ \A t \in Sides : Len(inq'[t]) <= InCap
      <3>1. \/ inq' = inq
            \/ \E k \in 0..Len(inq[s]) :
                 inq' = [inq EXCEPT ![s] = SubSeq(inq[s], 1, k)]
        BY <1>9 DEF Abort
      <3>2. /\ inq \in [Sides -> Seq(Bytes)]
            /\ \A t \in Sides : Len(inq[t]) <= InCap
        BY DEF TypeOK
      <3>3. CASE inq' = inq
        BY <3>2, <3>3
      <3>4. ASSUME NEW k \in 0..Len(inq[s]),
                   inq' = [inq EXCEPT ![s] = SubSeq(inq[s], 1, k)]
            PROVE  /\ inq' \in [Sides -> Seq(Bytes)]
                   /\ \A t \in Sides : Len(inq'[t]) <= InCap
        <4>1. /\ SubSeq(inq[s], 1, k) \in Seq(Bytes)
              /\ Len(SubSeq(inq[s], 1, k)) <= InCap
          BY <2>1, <2>2, <3>2
        <4> QED
          BY <3>2, <3>4, <4>1, QueueExcept
      <3> QED
        BY <3>1, <3>3, <3>4
    <2>4. /\ outq' \in [Sides -> Seq(Bytes)]
          /\ \A t \in Sides : Len(outq'[t]) <= OutCap
      BY SMTT(30), <1>9 DEF Abort, TypeOK
    <2> QED
      BY <1>9, <2>3, <2>4 DEF Abort, TypeOK, pumpVars, timeVars, endVars
  <1>10. ASSUME NEW s \in Sides, Receive(s) PROVE TypeOK'
    <2>1. outq[s] \in Seq(Bytes) /\ outq[s] # <<>> /\ recv[s] \in Seq(Bytes)
      BY <1>10 DEF Receive, TypeOK
    <2>2. /\ Tail(outq[s]) \in Seq(Bytes)
          /\ Len(Tail(outq[s])) <= Len(outq[s])
          /\ Append(recv[s], Head(outq[s])) \in Seq(Bytes)
      BY <2>1, HeadTailFacts, AppendFacts
    <2>3. /\ outq' \in [Sides -> Seq(Bytes)]
          /\ \A t \in Sides : Len(outq'[t]) <= OutCap
          /\ recv' \in [Sides -> Seq(Bytes)]
      <3>1. /\ outq \in [Sides -> Seq(Bytes)] /\ recv \in [Sides -> Seq(Bytes)]
            /\ \A t \in Sides : Len(outq[t]) <= OutCap
        BY DEF TypeOK
      <3>2. /\ outq' = [outq EXCEPT ![s] = Tail(outq[s])]
            /\ recv' = [recv EXCEPT ![s] = Append(recv[s], Head(outq[s]))]
        BY <1>10, <3>1 DEF Receive
      <3>3. Len(Tail(outq[s])) <= OutCap
        BY <2>1, <2>2, <3>1, HeadTailFacts
      <3>4. recv' \in [Sides -> Seq(Bytes)]
        BY <2>2, <3>1, <3>2
      <3> QED
        BY <2>2, <3>1, <3>2, <3>3, <3>4, QueueExcept
    <2>4. UNCHANGED <<pumpVars, inq, tail, shut, dead, sent, eof, timeVars>>
      BY <1>10 DEF Receive
    <2>5. \A t \in Sides : Len(inq'[t]) <= InCap /\ Len(outq'[t]) <= OutCap
      BY <2>3, <2>4 DEF TypeOK
    <2>6. outq' \in [Sides -> Seq(Bytes)] /\ recv' \in [Sides -> Seq(Bytes)]
      BY <2>3
    <2> QED
      BY <2>4, <2>5, <2>6 DEF TypeOK, pumpVars, timeVars
  <1>11. ASSUME NEW s \in Sides, SeeEof(s) PROVE TypeOK'
    BY <1>11 DEF SeeEof, TypeOK, pumpVars, wireVars, timeVars
  <1>12. ASSUME NEW s \in Sides, LateReset(s) PROVE TypeOK'
    BY SMTT(30), <1>12 DEF LateReset, TypeOK, pumpVars, timeVars, endVars
  <1>13. ASSUME Tick PROVE TypeOK'
    <2>1. quiet' \in 0..IdleSecs /\ timer' \in 0..IdleSecs
      BY <1>13 DEF Tick, TypeOK
    <2> QED
      BY <1>13, <2>1 DEF Tick, TypeOK, pumpVars, wireVars, endVars
  <1>14. CASE UNCHANGED vars
    BY <1>14 DEF TypeOK, vars, pumpVars, wireVars, endVars, timeVars
  <1> QED
    BY <1>1, <1>2, <1>3, <1>4, <1>5, <1>6, <1>7, <1>8, <1>9, <1>10, <1>11,
       <1>12, <1>13, <1>14, <1>15
    DEF Next, PumpStep, EndpointStep

(* Every behaviour of pump and its environment is well typed: no queue of  *)
(* the two sockets and no chunk ever exceeds its capacity.                 *)
THEOREM PumpTypeOK == Spec => []TypeOK
  BY InitTypeOK, NextTypeOK, PTL DEF Spec

-----------------------------------------------------------------------------
(* The position of pump in its loop, and the clocks.                       *)

LEMMA InitControl == Init => ControlInv /\ TimerInv
  BY SideFacts DEF Init, ControlInv, TimerInv, Sides

LEMMA ReturnControl ==
  ASSUME TypeOK, ControlInv, TimerInv, NEW r \in CloseReason \cup {"Error", "Killed"},
         NEW x, pc # "returned", Return(r, x),
         r = "IdleTimeout" => quiet = IdleSecs,
         \A s \in Sides : r = EofOf(s) => tail[s] # "open"
  PROVE  ControlInv' /\ TimerInv'
  <1>1. /\ pc' = "returned" /\ result' = r /\ buf' = <<>>
        /\ UNCHANGED <<tail, outq, dead, eof, quiet>>
    BY DEF Return, endVars
  <1>2. r # "none"
    BY DEF CloseReason
  <1>3. \A s \in Sides : ~eof[s]
    BY DEF ControlInv
  <1>4. ControlInv'
    BY <1>1, <1>2, <1>3 DEF ControlInv
  <1>5. TimerInv'
    BY <1>1 DEF TimerInv
  <1> QED
    BY <1>4, <1>5

LEMMA NextControl ==
  TypeOK /\ ControlInv /\ TimerInv /\ [Next]_vars => ControlInv' /\ TimerInv'
  <1> SUFFICES ASSUME TypeOK, ControlInv, TimerInv, [Next]_vars
               PROVE  ControlInv' /\ TimerInv'
    OBVIOUS
  <1> USE IdleSecsAssumption
  <1>1. ASSUME NEW s \in Sides, ReadSome(s) PROVE ControlInv' /\ TimerInv'
    BY <1>1 DEF ReadSome, ControlInv, TimerInv, endVars
  <1>2. ASSUME NEW s \in Sides, ReadEof(s) PROVE ControlInv' /\ TimerInv'
    <2>1. /\ EofOf(s) \in CloseReason /\ EofOf(s) # "IdleTimeout"
          /\ \A t \in Sides : EofOf(s) = EofOf(t) => s = t
      BY SideFacts
    <2>2. pc = "select" /\ tail[s] = "fin" /\ Return(EofOf(s), {Other(s)})
      BY <1>2 DEF ReadEof
    <2> QED
      BY <2>1, <2>2, ReturnControl
  <1>3. ASSUME NEW s \in Sides, ReadErr(s) PROVE ControlInv' /\ TimerInv'
    BY <1>3, SideFacts, ReturnControl DEF ReadErr
  <1>4. ASSUME IdleFire PROVE ControlInv' /\ TimerInv'
    <2>1. quiet = IdleSecs
      BY <1>4 DEF IdleFire, TimerInv, TypeOK
    <2> QED
      BY <1>4, <2>1, SideFacts, ReturnControl DEF IdleFire, CloseReason
  <1>5. ASSUME WriteSome PROVE ControlInv' /\ TimerInv'
    <2>1. /\ pc = "write" /\ ~dead[Other(from)]
          /\ \A s \in Sides : s # Other(from) => outq'[s] = outq[s]
          /\ UNCHANGED <<result, tail, shut, dead, eof, quiet>>
      BY <1>5 DEF WriteSome, endVars, TypeOK
    <2>2. \/ buf' = <<>> /\ pc' = "select" /\ timer' = 0
          \/ buf' # <<>> /\ pc' = "write"
      BY <1>5, <2>1 DEF WriteSome
    <2>3. ControlInv'
      BY <2>1, <2>2 DEF ControlInv
    <2>4. TimerInv'
      BY <2>1, <2>2 DEF TimerInv, ControlInv, TypeOK
    <2> QED
      BY <2>3, <2>4
  <1>6. ASSUME WriteErr PROVE ControlInv' /\ TimerInv'
    BY <1>6, SideFacts, ReturnControl DEF WriteErr
  <1>15. ASSUME Exit PROVE ControlInv' /\ TimerInv'
    BY <1>15, SideFacts, ReturnControl DEF Exit
  <1>7. ASSUME NEW s \in Sides, Send(s) PROVE ControlInv' /\ TimerInv'
    BY <1>7 DEF Send, ControlInv, TimerInv, pumpVars, timeVars
  <1>8. ASSUME NEW s \in Sides, Finish(s) PROVE ControlInv' /\ TimerInv'
    BY <1>8 DEF Finish, ControlInv, TimerInv, TypeOK, pumpVars, timeVars,
                endVars
  <1>9. ASSUME NEW s \in Sides, Abort(s) PROVE ControlInv' /\ TimerInv'
    BY <1>9 DEF Abort, ControlInv, TimerInv, TypeOK, pumpVars, timeVars,
                endVars
  <1>10. ASSUME NEW s \in Sides, Receive(s) PROVE ControlInv' /\ TimerInv'
    BY <1>10 DEF Receive, ControlInv, TimerInv, TypeOK, pumpVars, timeVars
  <1>11. ASSUME NEW s \in Sides, SeeEof(s) PROVE ControlInv' /\ TimerInv'
    BY <1>11 DEF SeeEof, ControlInv, TimerInv, TypeOK, pumpVars, wireVars,
                 timeVars
  <1>12. ASSUME NEW s \in Sides, LateReset(s) PROVE ControlInv' /\ TimerInv'
    BY <1>12 DEF LateReset, ControlInv, TimerInv, TypeOK, pumpVars, timeVars,
                 endVars
  <1>13. ASSUME Tick PROVE ControlInv' /\ TimerInv'
    <2>1. TimerInv'
      <3>1. timer \in Nat /\ quiet \in Nat /\ IdleSecs \in Nat
            /\ quiet <= IdleSecs
        BY DEF TypeOK
      <3>2. result # "IdleTimeout"
        BY <1>13 DEF Tick, ControlInv
      <3> QED
        BY <1>13, <3>1, <3>2 DEF Tick, TimerInv, pumpVars
    <2>2. ControlInv'
      BY <1>13 DEF Tick, ControlInv, pumpVars, wireVars, endVars
    <2> QED
      BY <2>1, <2>2
  <1>14. CASE UNCHANGED vars
    BY <1>14 DEF ControlInv, TimerInv, vars, pumpVars, wireVars, endVars,
                 timeVars
  <1> QED
    BY <1>1, <1>2, <1>3, <1>4, <1>5, <1>6, <1>7, <1>8, <1>9, <1>10, <1>11,
       <1>12, <1>13, <1>14, <1>15
    DEF Next, PumpStep, EndpointStep

(* An idle timeout is reported only after IdleSecs in which pump read      *)
(* nothing from either side, whatever the buffers and the endpoints do.    *)
THEOREM PumpIdleIsQuiet == Spec => []IdleIsQuiet
  <1>1. Init => TypeOK /\ ControlInv /\ TimerInv
    BY InitTypeOK, InitControl
  <1>2. TypeOK /\ ControlInv /\ TimerInv /\ [Next]_vars
          => (TypeOK /\ ControlInv /\ TimerInv)'
    BY NextTypeOK, NextControl
  <1>3. TimerInv => IdleIsQuiet
    BY DEF TimerInv, IdleIsQuiet
  <1> QED
    BY <1>1, <1>2, <1>3, PTL DEF Spec

-----------------------------------------------------------------------------
(* Pieces of a stream, cut and joined.                                     *)

LEMMA StreamSubSeq ==
  ASSUME NEW q \in Seq(Bytes), NEW s \in Sides, NEW i \in Nat, IsStream(q, s, i),
         NEW m \in Nat \ {0}, NEW n \in 0..Len(q)
  PROVE  IsStream(SubSeq(q, m, n), s, i + m - 1)
  <1> DEFINE p == SubSeq(q, m, n)
  <1>1. /\ p \in Seq(Bytes) /\ Len(q) \in Nat
        /\ Len(p) = IF m <= n THEN n - m + 1 ELSE 0
        /\ \A j \in 1..Len(p) : p[j] = q[m + j - 1]
    BY SubSeqFacts
  <1> HIDE DEF p
  <1>2. ASSUME NEW j \in 1..Len(p) PROVE p[j] = <<s, (i + m - 1) + j - 1>>
    <2>1. m + j - 1 \in 1..Len(q) /\ j \in Nat
      BY <1>1
    <2>2. q[m + j - 1] = <<s, i + (m + j - 1) - 1>>
      BY <2>1 DEF IsStream
    <2>3. i + (m + j - 1) - 1 = (i + m - 1) + j - 1
      BY <2>1
    <2> QED
      BY <1>1, <2>2, <2>3
  <1>3. IsStream(p, s, i + m - 1)
    BY <1>2 DEF IsStream
  <1> QED
    BY <1>3 DEF p

LEMMA StreamConcat ==
  ASSUME NEW p \in Seq(Bytes), NEW q \in Seq(Bytes), NEW s \in Sides,
         NEW i \in Nat, IsStream(p, s, i), IsStream(q, s, i + Len(p))
  PROVE  IsStream(p \o q, s, i)
  <1> DEFINE r == p \o q
  <1>1. /\ Len(p) \in Nat /\ Len(q) \in Nat /\ Len(r) = Len(p) + Len(q)
        /\ \A j \in 1..Len(p) : r[j] = p[j]
        /\ \A j \in 1..Len(q) : r[Len(p) + j] = q[j]
    BY ConcatFacts
  <1> HIDE DEF r
  <1>2. ASSUME NEW j \in 1..Len(r) PROVE r[j] = <<s, i + j - 1>>
    <2>1. CASE j \in 1..Len(p)
      BY <1>1, <2>1 DEF IsStream
    <2>2. CASE j \notin 1..Len(p)
      <3>1. j - Len(p) \in 1..Len(q) /\ Len(p) + (j - Len(p)) = j
        BY <1>1, <2>2
      <3>2. r[j] = q[j - Len(p)]
        BY <1>1, <3>1
      <3>3. q[j - Len(p)] = <<s, i + Len(p) + (j - Len(p)) - 1>>
        BY <3>1 DEF IsStream
      <3>4. i + Len(p) + (j - Len(p)) - 1 = i + j - 1
        BY <1>1
      <3> QED
        BY <3>2, <3>3, <3>4
    <2> QED
      BY <2>1, <2>2
  <1>3. IsStream(r, s, i)
    BY <1>2 DEF IsStream
  <1> QED
    BY <1>3 DEF r

LEMMA StreamAppend ==
  ASSUME NEW q \in Seq(Bytes), NEW s \in Sides, NEW i \in Nat,
         IsStream(q, s, i), NEW n \in Nat, n = i + Len(q)
  PROVE  IsStream(Append(q, <<s, n>>), s, i)
  <1> DEFINE r == Append(q, <<s, n>>)
  <1>1. <<s, n>> \in Bytes
    BY DEF Bytes
  <1>2. /\ Len(q) \in Nat /\ Len(r) = Len(q) + 1
        /\ \A j \in 1..Len(q) : r[j] = q[j]
        /\ r[Len(q) + 1] = <<s, n>>
    BY <1>1, AppendFacts
  <1> HIDE DEF r
  <1>3. ASSUME NEW j \in 1..Len(r) PROVE r[j] = <<s, i + j - 1>>
    <2>1. CASE j \in 1..Len(q)
      BY <1>2, <2>1 DEF IsStream
    <2>2. CASE j = Len(q) + 1
      <3>1. n = i + j - 1
        BY <1>2, <2>2
      <3> QED
        BY <1>2, <2>2, <3>1
    <2> QED
      BY <1>2, <2>1, <2>2
  <1>4. IsStream(r, s, i)
    BY <1>3 DEF IsStream
  <1> QED
    BY <1>4 DEF r

LEMMA StreamHeadTail ==
  ASSUME NEW q \in Seq(Bytes), q # <<>>, NEW s \in Sides, NEW i \in Nat,
         IsStream(q, s, i)
  PROVE  Head(q) = <<s, i>> /\ IsStream(Tail(q), s, i + 1)
  <1> DEFINE r == Tail(q)
  <1>1. /\ Head(q) = q[1] /\ Len(q) \in Nat /\ Len(q) >= 1
        /\ Len(r) = Len(q) - 1
        /\ \A j \in 1..Len(r) : r[j] = q[j + 1]
    BY HeadTailFacts, EmptyFacts
  <1> HIDE DEF r
  <1>2. Head(q) = <<s, i>>
    <2>1. 1 \in 1..Len(q) /\ i + 1 - 1 = i
      BY <1>1
    <2>2. q[1] = <<s, i + 1 - 1>>
      BY <2>1 DEF IsStream
    <2> QED
      BY <1>1, <2>1, <2>2
  <1>3. ASSUME NEW j \in 1..Len(r) PROVE r[j] = <<s, (i + 1) + j - 1>>
    <2>1. j + 1 \in 1..Len(q) /\ i + (j + 1) - 1 = (i + 1) + j - 1
      BY <1>1
    <2>2. q[j + 1] = <<s, i + (j + 1) - 1>>
      BY <2>1 DEF IsStream
    <2> QED
      BY <1>1, <2>1, <2>2
  <1>4. IsStream(r, s, i + 1)
    BY <1>3 DEF IsStream
  <1> QED
    BY <1>2, <1>4 DEF r

LEMMA StreamEmpty ==
  ASSUME NEW s, NEW i
  PROVE  IsStream(<<>>, s, i)
  BY DEF IsStream

-----------------------------------------------------------------------------
(* The two directions: t is the side whose bytes are followed.             *)

LEMMA InitRelay ==
  ASSUME Init, NEW t \in Sides
  PROVE  StreamInv(t) /\ CountInv(t)
  <1>1. /\ inq[t] = <<>> /\ sent[t] = 0 /\ forwarded[t] = 0
        /\ outq[Other(t)] = <<>> /\ recv[Other(t)] = <<>>
        /\ pc = "select" /\ result = "none" /\ Hand(t) = <<>>
    BY SideFacts DEF Init, Hand
  <1>0. Len(<<>>) = 0
    OBVIOUS
  <1>2. Chunk(t) = 0 /\ Passed(t) = 0 /\ Len(<<>>) = 0
    <2>1. Chunk(t) = 0
      BY <1>1 DEF Chunk
    <2>2. Len(Hand(t)) = 0
      BY <1>0, <1>1
    <2>3. Passed(t) = (0 + 0) - 0
      BY <1>1, <2>1, <2>2 DEF Passed
    <2> QED
      BY <1>0, <2>1, <2>3
  <1>3. StreamInv(t)
    BY <1>1, StreamEmpty DEF StreamInv
  <1>4. CountInv(t)
    BY <1>1, <1>2 DEF CountInv, CloseReason
  <1> QED
    BY <1>3, <1>4

(* A step that touches nothing the two invariants of t look at.            *)
LEMMA RelayFrame ==
  ASSUME NEW t \in Sides, StreamInv(t), CountInv(t), UNCHANGED pumpVars,
         inq'[t] = inq[t], tail'[t] = tail[t], sent'[t] = sent[t],
         outq'[Other(t)] = outq[Other(t)], dead'[Other(t)] = dead[Other(t)],
         recv'[Other(t)] = recv[Other(t)], eof'[Other(t)] = eof[Other(t)]
  PROVE  StreamInv(t)' /\ CountInv(t)'
  <1>1. UNCHANGED <<Hand(t), Chunk(t), Passed(t)>>
    BY DEF Hand, Chunk, Passed, pumpVars
  <1>2. StreamInv(t)'
    BY <1>1 DEF StreamInv, pumpVars, IsStream
  <1>3. CountInv(t)'
    BY <1>1 DEF CountInv, pumpVars
  <1> QED
    BY <1>2, <1>3

(* Facts about the sizes and positions in a typed state.                   *)
LEMMA SizeFacts ==
  ASSUME TypeOK, ControlInv, NEW t \in Sides
  PROVE  /\ Other(t) \in Sides
         /\ inq[t] \in Seq(Bytes) /\ Len(inq[t]) \in Nat
         /\ outq[t] \in Seq(Bytes) /\ Len(outq[t]) \in Nat
         /\ recv[t] \in Seq(Bytes) /\ Len(recv[t]) \in Nat
         /\ Hand(t) \in Seq(Bytes) /\ Len(Hand(t)) \in Nat
         /\ sent[t] \in Nat /\ forwarded[t] \in Nat /\ Chunk(t) \in Nat
         /\ Len(Hand(t)) <= Chunk(t)
         /\ Passed(t) \in Nat
         /\ pc # "write" => Hand(t) = <<>> /\ Chunk(t) = 0
                            /\ Passed(t) = forwarded[t]
  <1>1. /\ inq[t] \in Seq(Bytes) /\ outq[t] \in Seq(Bytes)
        /\ recv[t] \in Seq(Bytes) /\ Hand(t) \in Seq(Bytes)
    BY DEF TypeOK, Hand
  <1>2. /\ sent[t] \in Nat /\ forwarded[t] \in Nat /\ Chunk(t) \in Nat
    BY DEF TypeOK, Chunk
  <1>3. Len(<<>>) = 0
    OBVIOUS
  <1>4. Len(Hand(t)) <= Chunk(t)
    <2>1. CASE pc = "write"
      BY <1>3, <2>1 DEF Hand, Chunk, TypeOK
    <2>2. CASE pc # "write"
      BY <1>3, <2>2 DEF Hand, Chunk, ControlInv
    <2> QED
      BY <2>1, <2>2
  <1>5. Len(Hand(t)) \in Nat /\ Len(inq[t]) \in Nat /\ Len(outq[t]) \in Nat
        /\ Len(recv[t]) \in Nat
    BY <1>1
  <1>6. pc # "write" => Hand(t) = <<>> /\ Chunk(t) = 0
    BY DEF Hand, Chunk, ControlInv
  <1>7. Passed(t) \in Nat
    BY <1>2, <1>4, <1>5 DEF Passed
  <1>8. pc # "write" => Passed(t) = forwarded[t]
    BY <1>2, <1>3, <1>6 DEF Passed
  <1> QED
    BY <1>1, <1>2, <1>4, <1>5, <1>6, <1>7, <1>8, SideFacts

(* Leaving pump: the counters were exact when it left from select!.        *)
LEMMA ReturnRelay ==
  ASSUME TypeOK, ControlInv, NEW t \in Sides, StreamInv(t), CountInv(t),
         pc # "returned", NEW r \in CloseReason \cup {"Error", "Killed"}, NEW x,
         Return(r, x), r \notin {"Error", "Killed"} => pc = "select",
         r = EofOf(t) => inq[t] = <<>> /\ tail[t] = "fin"
  PROVE  StreamInv(t)' /\ CountInv(t)'
  <1> DEFINE o == Other(t)
  <1>1. /\ pc' = "returned" /\ result' = r
        /\ UNCHANGED <<forwarded, outq, dead, recv, sent, eof, tail, inq>>
    BY DEF Return, endVars
  <1>2. StreamInv(t)'
    BY <1>1 DEF StreamInv, IsStream
  <1>3. /\ Len(recv[o]) + Len(outq[o]) <= sent[t]
        /\ Len(recv[o]) <= Passed(t)
        /\ ~dead[o] => Len(recv[o]) + Len(outq[o]) = Passed(t)
        /\ forwarded[t] + Chunk(t) + Len(inq[t]) <= sent[t]
        /\ tail[t] # "rst" => forwarded[t] + Chunk(t) + Len(inq[t]) = sent[t]
    BY DEF CountInv
  <1>4. ASSUME r \in CloseReason
        PROVE  /\ Len(recv[o]) <= forwarded[t] /\ forwarded[t] <= sent[t]
               /\ ~dead[o] => Len(recv[o]) + Len(outq[o]) = forwarded[t]
               /\ r = EofOf(t) => forwarded[t] = sent[t]
    <2>1. pc = "select"
      BY <1>4 DEF CloseReason
    <2>2. /\ Passed(t) = forwarded[t] /\ Chunk(t) = 0
          /\ forwarded[t] \in Nat /\ sent[t] \in Nat /\ Len(inq[t]) \in Nat
      BY <2>1, SizeFacts
    <2>3. Len(<<>>) = 0
      OBVIOUS
    <2>4. Len(recv[o]) <= forwarded[t]
          /\ (~dead[o] => Len(recv[o]) + Len(outq[o]) = forwarded[t])
      BY <1>3, <2>2
    <2>5. forwarded[t] <= sent[t]
      BY <1>3, <2>2
    <2>6. ASSUME r = EofOf(t) PROVE forwarded[t] = sent[t]
      <3>1. Len(inq[t]) = 0 /\ tail[t] # "rst"
        BY <2>3, <2>6
      <3> QED
        BY <1>3, <2>2, <3>1
    <2> QED
      BY <2>4, <2>5, <2>6
  <1>5. ~eof[o]
    BY SideFacts DEF ControlInv
  <1>6. CountInv(t)'
    BY <1>1, <1>3, <1>4, <1>5 DEF CountInv
  <1> QED
    BY <1>2, <1>6

LEMMA ReadSomeRelay ==
  ASSUME TypeOK, ControlInv, NEW t \in Sides, StreamInv(t), CountInv(t),
         NEW s \in Sides, ReadSome(s)
  PROVE  StreamInv(t)' /\ CountInv(t)'
  <1> DEFINE o == Other(t)
  <1>1. /\ pc = "select" /\ pc' = "write" /\ from' = s
        /\ UNCHANGED <<forwarded, result, outq, dead, recv, sent, tail>>
    BY DEF ReadSome, endVars
  <1>2. PICK n \in 1..Len(inq[s]) :
          /\ buf' = SubSeq(inq[s], 1, n)
          /\ count' = n
          /\ inq' = [inq EXCEPT ![s] = SubSeq(inq[s], n + 1, Len(inq[s]))]
    BY DEF ReadSome
  <1>3. /\ inq[t] \in Seq(Bytes) /\ Len(inq[t]) \in Nat
        /\ forwarded[t] \in Nat /\ Chunk(t) = 0 /\ Passed(t) = forwarded[t]
        /\ sent[t] \in Nat /\ Len(recv[o]) \in Nat /\ Len(outq[o]) \in Nat
        /\ result = "none" /\ Len(<<>>) = 0
    <2>1. /\ Other(t) \in Sides /\ Len(<<>>) = 0
      BY SideFacts
    <2> QED
      BY <1>1, <2>1, SizeFacts DEF ControlInv
  <1>4. /\ IsStream(recv[o], t, 1)
        /\ ~dead[o] => IsStream(outq[o], t, Len(recv[o]) + 1)
        /\ IsStream(inq[t], t, forwarded[t] + 1)
    BY <1>1, <1>3 DEF StreamInv
  <1>5. /\ Len(recv[o]) + Len(outq[o]) <= sent[t]
        /\ Len(recv[o]) <= forwarded[t]
        /\ ~dead[o] => Len(recv[o]) + Len(outq[o]) = forwarded[t]
        /\ forwarded[t] + Len(inq[t]) <= sent[t]
        /\ tail[t] # "rst" => forwarded[t] + Len(inq[t]) = sent[t]
    <2>1. /\ Len(recv[o]) + Len(outq[o]) <= sent[t]
          /\ Len(recv[o]) <= Passed(t)
          /\ ~dead[o] => Len(recv[o]) + Len(outq[o]) = Passed(t)
          /\ forwarded[t] + Chunk(t) + Len(inq[t]) <= sent[t]
          /\ tail[t] # "rst" => forwarded[t] + Chunk(t) + Len(inq[t]) = sent[t]
      BY <1>1 DEF CountInv
    <2>2. forwarded[t] + Chunk(t) + Len(inq[t]) = forwarded[t] + Len(inq[t])
      BY <1>3
    <2> QED
      BY <1>3, <2>1, <2>2
  <1>6. CASE t = s
    <2>1. /\ buf' \in Seq(Bytes) /\ Len(buf') = n
          /\ IsStream(buf', t, forwarded[t] + 1)
      <3>1. IsStream(SubSeq(inq[t], 1, n), t, (forwarded[t] + 1) + 1 - 1)
        BY <1>2, <1>3, <1>4, <1>6, StreamSubSeq
      <3>2. (forwarded[t] + 1) + 1 - 1 = forwarded[t] + 1
        BY <1>3
      <3> QED
        BY <1>2, <1>3, <1>6, <3>1, <3>2, SubSeqFacts
    <2>2. /\ inq'[t] \in Seq(Bytes) /\ Len(inq'[t]) = Len(inq[t]) - n
          /\ IsStream(inq'[t], t, forwarded[t] + n + 1)
      <3>1. inq'[t] = SubSeq(inq[t], n + 1, Len(inq[t]))
        BY <1>2, <1>6 DEF TypeOK
      <3>2. IsStream(inq'[t], t, (forwarded[t] + 1) + (n + 1) - 1)
        BY <1>2, <1>3, <1>4, <1>6, <3>1, StreamSubSeq
      <3>3. (forwarded[t] + 1) + (n + 1) - 1 = forwarded[t] + n + 1
        BY <1>2, <1>3
      <3> QED
        BY <1>2, <1>3, <1>6, <3>1, <3>2, <3>3, SubSeqFacts
    <2>3. Hand(t)' = buf' /\ Chunk(t)' = n /\ Passed(t)' = forwarded[t]
      BY <1>1, <1>2, <1>3, <1>6, <2>1 DEF Hand, Chunk, Passed
    <2>4. StreamInv(t)'
      BY <1>1, <1>4, <2>1, <2>2, <2>3 DEF StreamInv
    <2>5. CountInv(t)'
      <3>1. forwarded[t] + n + Len(inq'[t]) = forwarded[t] + Len(inq[t])
        BY <1>2, <1>3, <2>2
      <3>2. result' = "none" /\ "none" \notin CloseReason
        BY <1>1, <1>3 DEF CloseReason
      <3> QED
        BY <1>1, <1>5, <2>3, <3>1, <3>2 DEF CountInv
    <2> QED
      BY <2>4, <2>5
  <1>7. CASE t # s
    <2>1. inq'[t] = inq[t]
      BY <1>2, <1>7 DEF TypeOK
    <2>2. Hand(t)' = <<>> /\ Chunk(t)' = 0 /\ Passed(t)' = forwarded[t]
      BY <1>1, <1>3, <1>7 DEF Hand, Chunk, Passed
    <2>3. forwarded[t] + 0 + 1 = forwarded[t] + 1
      BY <1>3
    <2>4. StreamInv(t)'
      BY <1>1, <1>4, <2>1, <2>2, <2>3, StreamEmpty DEF StreamInv
    <2>5. CountInv(t)'
      BY <1>1, <1>3, <1>5, <2>1, <2>2 DEF CountInv, CloseReason
    <2> QED
      BY <2>4, <2>5
  <1> QED
    BY <1>6, <1>7

(* write_all moves bytes from the chunk to the socket, and the last of     *)
(* them moves the whole chunk into the counter.                            *)
LEMMA WriteSomeRelay ==
  ASSUME TypeOK, ControlInv, NEW t \in Sides, StreamInv(t), CountInv(t),
         WriteSome
  PROVE  StreamInv(t)' /\ CountInv(t)'
  <1> DEFINE o == Other(t)
             to == Other(from)
  <1>1. /\ pc = "write" /\ ~dead[to] /\ from \in Sides
        /\ UNCHANGED <<from, count, result, inq, tail, dead, recv, sent>>
    BY DEF WriteSome, endVars, TypeOK
  <1>2. PICK k \in 1..Len(buf) :
          /\ outq' = [outq EXCEPT ![to] = @ \o SubSeq(buf, 1, k)]
          /\ buf' = SubSeq(buf, k + 1, Len(buf))
    BY DEF WriteSome
  <1>3. \/ /\ buf' = <<>> /\ pc' = "select"
           /\ forwarded' = [forwarded EXCEPT ![from] = @ + count]
        \/ /\ buf' # <<>> /\ pc' = "write" /\ forwarded' = forwarded
    <2>1. IF buf' = <<>>
            THEN /\ forwarded' = [forwarded EXCEPT ![from] = @ + count]
                 /\ pc' = "select"
            ELSE UNCHANGED <<forwarded, pc>>
      BY DEF WriteSome
    <2> QED
      BY <1>1, <2>1
  <1>4. /\ o \in Sides /\ inq[t] \in Seq(Bytes) /\ Len(inq[t]) \in Nat
        /\ outq[o] \in Seq(Bytes) /\ Len(outq[o]) \in Nat
        /\ recv[o] \in Seq(Bytes) /\ Len(recv[o]) \in Nat
        /\ sent[t] \in Nat /\ forwarded[t] \in Nat /\ count \in Nat
        /\ buf \in Seq(Bytes) /\ Len(buf) \in Nat /\ Len(buf) <= count
        /\ result = "none" /\ "none" \notin CloseReason /\ Len(<<>>) = 0
    <2>1. Len(<<>>) = 0 /\ "none" \notin CloseReason
      BY DEF CloseReason
    <2>2. /\ buf \in Seq(Bytes) /\ Len(buf) \in Nat /\ Len(buf) <= count
          /\ count \in Nat
      BY DEF TypeOK
    <2> QED
      BY <1>1, <2>1, <2>2, SizeFacts, SideFacts DEF ControlInv
  <1>5. /\ IsStream(recv[o], t, 1)
        /\ ~dead[o] => IsStream(outq[o], t, Len(recv[o]) + 1)
        /\ IsStream(Hand(t), t, Passed(t) + 1)
        /\ IsStream(inq[t], t, forwarded[t] + Chunk(t) + 1)
    BY <1>1 DEF StreamInv
  <1>6. /\ Len(recv[o]) + Len(outq[o]) <= sent[t]
        /\ Len(recv[o]) <= Passed(t)
        /\ ~dead[o] => Len(recv[o]) + Len(outq[o]) = Passed(t)
        /\ forwarded[t] + Chunk(t) + Len(inq[t]) <= sent[t]
        /\ tail[t] # "rst" => forwarded[t] + Chunk(t) + Len(inq[t]) = sent[t]
    BY <1>1 DEF CountInv
  <1>7. CASE t = from
    <2>1. Hand(t) = buf /\ Chunk(t) = count
      BY <1>1, <1>7 DEF Hand, Chunk
    <2>2. Passed(t) = (forwarded[t] + count) - Len(buf)
      BY <2>1 DEF Passed
    <2>a. ~dead[o] /\ Len(recv[o]) + Len(outq[o]) = Passed(t)
      BY <1>1, <1>6, <1>7
    <2>b. /\ Passed(t) \in Nat /\ Passed(t) + 1 \in Nat
          /\ k \in Nat /\ k \in 0..Len(buf) /\ k + 1 \in Nat \ {0}
          /\ 1 \in Nat \ {0} /\ Len(buf) \in 0..Len(buf)
          /\ IsStream(buf, t, Passed(t) + 1)
      <3>1. Passed(t) \in Nat
        BY <1>4, <2>2
      <3>2. IsStream(buf, t, Passed(t) + 1)
        BY <1>5, <2>1
      <3>3. Len(buf) \in Nat
        BY <1>4
      <3>4. Passed(t) + 1 \in Nat
        BY <3>1
      <3>5. /\ k \in Nat /\ k \in 0..Len(buf) /\ k + 1 \in Nat \ {0}
            /\ 1 \in Nat \ {0} /\ Len(buf) \in 0..Len(buf)
        BY <3>3
      <3> QED
        BY <3>1, <3>2, <3>4, <3>5
    <2>3. /\ SubSeq(buf, 1, k) \in Seq(Bytes) /\ Len(SubSeq(buf, 1, k)) = k
          /\ IsStream(SubSeq(buf, 1, k), t, Len(recv[o]) + 1 + Len(outq[o]))
      <3>1. IsStream(SubSeq(buf, 1, k), t, (Passed(t) + 1) + 1 - 1)
        BY <1>4, <2>b, StreamSubSeq
      <3>2. (Passed(t) + 1) + 1 - 1 = Len(recv[o]) + 1 + Len(outq[o])
        <4>1. \A a, b, p \in Nat : a + b = p => (p + 1) + 1 - 1 = a + 1 + b
          OBVIOUS
        <4>2. /\ Len(recv[o]) \in Nat /\ Len(outq[o]) \in Nat
              /\ Passed(t) \in Nat /\ Len(recv[o]) + Len(outq[o]) = Passed(t)
          BY <1>4, <2>a, <2>b
        <4> HIDE DEF o
        <4> QED
          BY <4>1, <4>2
      <3>3. SubSeq(buf, 1, k) \in Seq(Bytes) /\ Len(SubSeq(buf, 1, k)) = k
        BY <1>4, <2>b, SubSeqFacts
      <3> QED
        BY <3>1, <3>2, <3>3
    <2>4. /\ outq'[o] = outq[o] \o SubSeq(buf, 1, k)
          /\ Len(outq'[o]) = Len(outq[o]) + k
          /\ IsStream(outq'[o], t, Len(recv[o]) + 1)
      <3>1. outq'[o] = outq[o] \o SubSeq(buf, 1, k)
        BY <1>2, <1>4, <1>7 DEF TypeOK
      <3>2. Len(outq'[o]) = Len(outq[o]) + k
        BY <1>4, <2>3, <3>1, ConcatFacts
      <3>3. IsStream(outq[o], t, Len(recv[o]) + 1) /\ Len(recv[o]) + 1 \in Nat
        BY <1>1, <1>4, <1>5, <1>7
      <3>4. IsStream(outq'[o], t, Len(recv[o]) + 1)
        BY <1>4, <2>3, <3>1, <3>3, StreamConcat
      <3> QED
        BY <3>1, <3>2, <3>4
    <2>5. /\ buf' \in Seq(Bytes) /\ Len(buf') = Len(buf) - k
          /\ IsStream(buf', t, Passed(t) + k + 1)
      <3>1. IsStream(buf', t, (Passed(t) + 1) + (k + 1) - 1)
        BY <1>2, <1>4, <2>b, StreamSubSeq
      <3>2. (Passed(t) + 1) + (k + 1) - 1 = Passed(t) + k + 1
        BY <2>b
      <3>3. buf' \in Seq(Bytes) /\ Len(buf') = Len(buf) - k
        BY <1>2, <1>4, <2>b, SubSeqFacts
      <3> QED
        BY <3>1, <3>2, <3>3
    <2>6. /\ Hand(t)' = buf'
          /\ forwarded'[t] + Chunk(t)' = forwarded[t] + count
      <3>1. CASE buf' = <<>> /\ pc' = "select"
                 /\ forwarded' = [forwarded EXCEPT ![from] = @ + count]
        <4>1. forwarded'[t] = forwarded[t] + count /\ Chunk(t)' = 0
          BY <1>1, <1>7, <3>1 DEF Chunk, TypeOK
        <4> QED
          BY <1>1, <1>4, <1>7, <4>1 DEF Hand
      <3>2. CASE buf' # <<>> /\ pc' = "write" /\ forwarded' = forwarded
        BY <1>1, <1>7, <3>2 DEF Hand, Chunk
      <3> QED
        BY <1>3, <3>1, <3>2
    <2>7. Passed(t)' = Passed(t) + k
      <3>1. Passed(t)' = (forwarded'[t] + Chunk(t)') - Len(Hand(t)')
        BY DEF Passed
      <3>2. Passed(t)' = (forwarded[t] + count) - Len(buf')
        BY <2>6, <3>1
      <3> QED
        BY <1>4, <2>2, <2>5, <2>b, <3>2
    <2>8. forwarded[t] + Chunk(t) = forwarded[t] + count
      BY <2>1
    <2>9. StreamInv(t)'
      BY <1>1, <1>5, <2>4, <2>5, <2>6, <2>7, <2>8 DEF StreamInv
    <2>10. /\ Len(recv[o]) + Len(outq'[o]) = Passed(t)'
           /\ Len(recv[o]) <= Passed(t)'
           /\ Passed(t)' <= sent[t]
      <3>1. Passed(t) + k <= forwarded[t] + Chunk(t)
        BY <1>4, <2>1, <2>2, <2>b
      <3>2. forwarded[t] + Chunk(t) <= sent[t]
        BY <1>4, <1>6, <2>1
      <3>3. Len(recv[o]) + (Len(outq[o]) + k) = Passed(t) + k
        <4> DEFINE a == Len(recv[o])
                   b == Len(outq[o])
                   p == Passed(t)
        <4>1. a \in Nat /\ b \in Nat /\ p \in Nat /\ k \in Nat
          BY <1>4, <2>b
        <4>2. a + b = p
          BY <2>a
        <4>3. a + (b + k) = p + k
          <5> HIDE DEF a, b, p, o
          <5> QED
            BY <4>1, <4>2
        <4> QED
          BY <4>3
      <3>4. Len(recv[o]) <= Passed(t) + k /\ Passed(t) + k <= sent[t]
        <4>1. \A a, p, n \in Nat : a <= p => a <= p + n
          OBVIOUS
        <4>2. forwarded[t] + Chunk(t) \in Nat
          BY <1>4, <2>1
        <4>3. \A x, y, z \in Nat : x <= y /\ y <= z => x <= z
          OBVIOUS
        <4>4. Passed(t) + k \in Nat
          BY <2>b
        <4>5. Passed(t) + k <= sent[t]
          BY <1>4, <3>1, <3>2, <4>2, <4>3, <4>4
        <4>6. /\ Len(recv[o]) \in Nat /\ Passed(t) \in Nat /\ k \in Nat
              /\ Len(recv[o]) <= Passed(t)
          BY <1>4, <1>6, <2>b
        <4>7. Len(recv[o]) <= Passed(t) + k
          <5> HIDE DEF o
          <5> QED
            BY <4>1, <4>6
        <4> QED
          BY <4>5, <4>7
      <3> QED
        BY <2>4, <2>7, <3>3, <3>4
    <2>11. CountInv(t)'
      BY <1>1, <1>4, <1>6, <2>6, <2>8, <2>10 DEF CountInv
    <2> QED
      BY <2>9, <2>11
  <1>8. CASE t # from
    <2>1. o # to /\ outq'[o] = outq[o]
      <3>1. o # to
        BY <1>1, <1>8, SideFacts
      <3> QED
        BY <1>2, <1>4, <3>1 DEF TypeOK
    <2>2. UNCHANGED <<Hand(t), Chunk(t)>>
      BY <1>1, <1>8 DEF Hand, Chunk
    <2>3. forwarded'[t] = forwarded[t]
      BY <1>1, <1>3, <1>8 DEF TypeOK
    <2>4. Passed(t)' = Passed(t)
      BY <2>2, <2>3 DEF Passed
    <2>5. StreamInv(t)'
      BY <1>1, <1>5, <2>1, <2>2, <2>3, <2>4 DEF StreamInv
    <2>6. CountInv(t)'
      BY <1>1, <1>4, <1>6, <2>1, <2>2, <2>3, <2>4 DEF CountInv
    <2> QED
      BY <2>5, <2>6
  <1> QED
    BY <1>7, <1>8

LEMMA SendRelay ==
  ASSUME TypeOK, ControlInv, NEW t \in Sides, StreamInv(t), CountInv(t),
         NEW s \in Sides, Send(s)
  PROVE  StreamInv(t)' /\ CountInv(t)'
  <1> DEFINE o == Other(t)
  <1>1. /\ tail[s] = "open" /\ UNCHANGED pumpVars
        /\ UNCHANGED <<tail, outq, dead, recv, eof>>
        /\ sent' = [sent EXCEPT ![s] = @ + 1]
        /\ inq' = [inq EXCEPT ![s] = Append(@, <<s, sent[s] + 1>>)]
    BY DEF Send
  <1>2. CASE t = s
    <2>1. /\ inq[t] \in Seq(Bytes) /\ Len(inq[t]) \in Nat
          /\ Len(recv[o]) \in Nat /\ Len(outq[o]) \in Nat
          /\ sent[t] \in Nat /\ forwarded[t] \in Nat /\ Chunk(t) \in Nat
      BY SizeFacts, SideFacts
    <2>2. /\ sent'[t] = sent[t] + 1
          /\ inq'[t] = Append(inq[t], <<t, sent[t] + 1>>)
      BY <1>1, <1>2 DEF TypeOK
    <2>3. <<t, sent[t] + 1>> \in Bytes
      BY <2>1 DEF Bytes
    <2>4. Len(inq'[t]) = Len(inq[t]) + 1
      BY <2>1, <2>2, <2>3, AppendFacts
    <2>5. UNCHANGED <<Hand(t), Chunk(t), Passed(t)>>
      BY <1>1 DEF Hand, Chunk, Passed, pumpVars
    <2>6. ASSUME pc # "returned"
          PROVE  IsStream(inq'[t], t, forwarded[t] + Chunk(t) + 1)
      <3>1. (forwarded[t] + Chunk(t)) + Len(inq[t]) = sent[t]
        BY <1>1, <1>2, <2>1, <2>6 DEF CountInv
      <3>2. sent[t] + 1 = (forwarded[t] + Chunk(t) + 1) + Len(inq[t])
        BY <2>1, <3>1
      <3>3. IsStream(inq[t], t, forwarded[t] + Chunk(t) + 1)
        BY <2>6 DEF StreamInv
      <3>4. /\ forwarded[t] + Chunk(t) + 1 \in Nat
            /\ sent[t] + 1 \in Nat
        BY <2>1
      <3> QED
        BY <2>1, <2>2, <3>2, <3>3, <3>4, StreamAppend
    <2>7. StreamInv(t)'
      BY <1>1, <2>5, <2>6 DEF StreamInv, pumpVars
    <2>8. result # EofOf(t)
      BY <1>1, <1>2 DEF ControlInv
    <2>9. ASSUME pc # "returned"
          PROVE  /\ forwarded[t] + Chunk(t) + Len(inq'[t]) <= sent'[t]
                 /\ tail[t] # "rst" =>
                      forwarded[t] + Chunk(t) + Len(inq'[t]) = sent'[t]
      <3>1. forwarded[t] + Chunk(t) + Len(inq[t]) = sent[t]
        BY <1>1, <1>2, <2>9 DEF CountInv
      <3>2. forwarded[t] + Chunk(t) + (Len(inq[t]) + 1) = sent[t] + 1
        <4> DEFINE f == forwarded[t]
                   c == Chunk(t)
                   l == Len(inq[t])
                   n == sent[t]
        <4>1. f \in Nat /\ c \in Nat /\ l \in Nat /\ f + c + l = n
          BY <2>1, <3>1
        <4> HIDE DEF f, c, l, n
        <4>2. f + c + (l + 1) = n + 1
          BY <4>1
        <4> QED
          BY <4>2 DEF f, c, l, n
      <3>3. sent'[t] <= sent'[t]
        BY <2>1, <2>2
      <3> QED
        BY <2>2, <2>4, <3>2, <3>3
    <2>10. /\ Len(recv[o]) + Len(outq[o]) <= sent'[t]
           /\ result \in CloseReason => forwarded[t] <= sent'[t]
      <3>1. /\ Len(recv[o]) + Len(outq[o]) <= sent[t]
            /\ result \in CloseReason => forwarded[t] <= sent[t]
        BY DEF CountInv
      <3> DEFINE a == Len(recv[o]) + Len(outq[o])
      <3>2. a \in Nat /\ a <= sent[t]
        <4>1. \A x, y \in Nat : x + y \in Nat
          OBVIOUS
        <4> QED
          BY <2>1, <3>1, <4>1
      <3>3. \A x, y \in Nat : x <= y => x <= y + 1
        OBVIOUS
      <3> HIDE DEF a
      <3>4. a <= sent'[t] /\ (result \in CloseReason => forwarded[t] <= sent'[t])
        BY <2>1, <2>2, <3>1, <3>2, <3>3
      <3> QED
        BY <3>4 DEF a
    <2>11. CountInv(t)'
      BY <1>1, <2>5, <2>8, <2>9, <2>10 DEF CountInv, pumpVars
    <2> QED
      BY <2>7, <2>11
  <1>3. CASE t # s
    <2>1. inq'[t] = inq[t] /\ sent'[t] = sent[t]
      BY <1>1, <1>3 DEF TypeOK
    <2> QED
      BY <1>1, <2>1, RelayFrame
  <1> QED
    BY <1>2, <1>3

LEMMA FinishRelay ==
  ASSUME TypeOK, ControlInv, NEW t \in Sides, StreamInv(t), CountInv(t),
         NEW s \in Sides, Finish(s)
  PROVE  StreamInv(t)' /\ CountInv(t)'
  <1>1. /\ UNCHANGED pumpVars /\ UNCHANGED <<inq, outq, dead, endVars>>
        /\ tail[s] = "open" /\ tail' = [tail EXCEPT ![s] = "fin"]
    BY DEF Finish
  <1>2. UNCHANGED <<Hand(t), Chunk(t), Passed(t)>>
    BY <1>1 DEF Hand, Chunk, Passed, pumpVars
  <1>3. tail'[t] # "rst" => tail[t] # "rst"
    BY <1>1 DEF TypeOK
  <1>4. StreamInv(t)'
    BY <1>1, <1>2 DEF StreamInv, pumpVars, endVars, IsStream
  <1>5. CountInv(t)'
    BY <1>1, <1>2, <1>3 DEF CountInv, pumpVars, endVars
  <1> QED
    BY <1>4, <1>5

(* A connection that breaks: the bytes on it are lost, not misplaced.      *)
LEMMA BreakRelay ==
  ASSUME TypeOK, ControlInv, NEW t \in Sides, StreamInv(t), CountInv(t),
         NEW s \in Sides, UNCHANGED pumpVars,
         UNCHANGED <<recv, sent, eof>>,
         dead' = [dead EXCEPT ![s] = TRUE],
         outq' = [outq EXCEPT ![s] = <<>>],
         \A x \in Sides \ {s} : inq'[x] = inq[x] /\ tail'[x] = tail[x],
         \/ inq'[s] = inq[s] /\ tail'[s] \in {tail[s], "rst"}
         \/ \E k \in 0..Len(inq[s]) : /\ inq'[s] = SubSeq(inq[s], 1, k)
                                      /\ tail'[s] = "rst"
  PROVE  StreamInv(t)' /\ CountInv(t)'
  <1> DEFINE o == Other(t)
  <1>1. /\ o \in Sides /\ o # t /\ (t = s \/ o = s)
        /\ inq[t] \in Seq(Bytes) /\ Len(inq[t]) \in Nat
        /\ Len(recv[o]) \in Nat /\ Len(outq[o]) \in Nat
        /\ sent[t] \in Nat /\ forwarded[t] \in Nat /\ Chunk(t) \in Nat
    BY SizeFacts, SideFacts DEF Sides, Other
  <1>2. UNCHANGED <<Hand(t), Chunk(t), Passed(t)>>
    BY DEF Hand, Chunk, Passed, pumpVars
  <1>3. CASE t = s
    <2>1. outq'[o] = outq[o] /\ dead'[o] = dead[o]
      BY <1>1, <1>3 DEF TypeOK
    <2>2. /\ Len(inq'[t]) \in Nat /\ Len(inq'[t]) <= Len(inq[t])
          /\ tail'[t] # "rst" => inq'[t] = inq[t] /\ tail[t] # "rst"
          /\ pc # "returned" =>
               IsStream(inq'[t], t, forwarded[t] + Chunk(t) + 1)
      <3>1. CASE inq'[s] = inq[s] /\ tail'[s] \in {tail[s], "rst"}
        BY <1>1, <1>3, <3>1 DEF StreamInv
      <3>2. ASSUME NEW k \in 0..Len(inq[s]), inq'[s] = SubSeq(inq[s], 1, k),
                   tail'[s] = "rst"
            PROVE  /\ Len(inq'[t]) \in Nat /\ Len(inq'[t]) <= Len(inq[t])
                   /\ pc # "returned" =>
                        IsStream(inq'[t], t, forwarded[t] + Chunk(t) + 1)
        <4>1. /\ Len(SubSeq(inq[t], 1, k)) = k /\ k \in Nat
              /\ forwarded[t] + Chunk(t) + 1 \in Nat
              /\ (forwarded[t] + Chunk(t) + 1) + 1 - 1
                   = forwarded[t] + Chunk(t) + 1
          BY <1>1, <1>3, SubSeqFacts
        <4>2. pc # "returned" =>
                IsStream(inq[t], t, forwarded[t] + Chunk(t) + 1)
          BY DEF StreamInv
        <4>3. pc # "returned" =>
                IsStream(SubSeq(inq[t], 1, k), t,
                         (forwarded[t] + Chunk(t) + 1) + 1 - 1)
          BY <1>1, <1>3, <4>1, <4>2, StreamSubSeq
        <4> QED
          BY <1>1, <1>3, <3>2, <4>1, <4>3
      <3> QED
        BY <1>3, <3>1, <3>2
    <2>3. StreamInv(t)'
      BY <1>2, <2>1, <2>2 DEF StreamInv, pumpVars
    <2>4. pc # "returned" =>
            forwarded[t] + Chunk(t) + Len(inq'[t]) <= sent[t]
      <3>1. pc # "returned" =>
              forwarded[t] + Chunk(t) + Len(inq[t]) <= sent[t]
        BY DEF CountInv
      <3> QED
        BY SMTT(30), <1>1, <2>2, <3>1
    <2>5. CountInv(t)'
      BY <1>2, <2>1, <2>2, <2>4 DEF CountInv, pumpVars
    <2> QED
      BY <2>3, <2>5
  <1>4. CASE o = s
    <2>1. /\ dead'[o] /\ outq'[o] = <<>> /\ inq'[t] = inq[t]
          /\ tail'[t] = tail[t]
      BY <1>1, <1>4 DEF TypeOK
    <2>2. StreamInv(t)'
      BY <1>2, <2>1 DEF StreamInv, pumpVars
    <2>3. Len(outq'[o]) = 0
      BY <2>1
    <2>4. Len(recv[o]) + Len(outq'[o]) <= sent[t]
      <3>1. Len(recv[o]) + Len(outq[o]) <= sent[t]
        BY DEF CountInv
      <3>2. \A a, b, n \in Nat : a + b <= n => a + 0 <= n
        OBVIOUS
      <3> QED
        BY <1>1, <2>3, <3>1, <3>2
    <2>5. CountInv(t)'
      BY <1>2, <2>1, <2>4 DEF CountInv, pumpVars
    <2> QED
      BY <2>2, <2>5
  <1> QED
    BY <1>1, <1>3, <1>4

LEMMA ReceiveRelay ==
  ASSUME TypeOK, ControlInv, NEW t \in Sides, StreamInv(t), CountInv(t),
         NEW s \in Sides, Receive(s)
  PROVE  StreamInv(t)' /\ CountInv(t)'
  <1> DEFINE o == Other(t)
  <1>1. /\ ~dead[s] /\ outq[s] # <<>> /\ UNCHANGED pumpVars
        /\ UNCHANGED <<inq, tail, dead, sent, eof>>
        /\ recv' = [recv EXCEPT ![s] = Append(@, Head(outq[s]))]
        /\ outq' = [outq EXCEPT ![s] = Tail(@)]
    BY DEF Receive
  <1>2. CASE o = s
    <2>1. /\ outq[o] \in Seq(Bytes) /\ recv[o] \in Seq(Bytes) /\ o \in Sides
          /\ Len(recv[o]) \in Nat /\ Len(outq[o]) \in Nat
      BY SizeFacts, SideFacts
    <2>2. recv'[o] = Append(recv[o], Head(outq[o])) /\ outq'[o] = Tail(outq[o])
      BY <1>1, <1>2 DEF TypeOK
    <2>3. /\ Head(outq[o]) \in Bytes
          /\ Len(outq'[o]) \in Nat /\ Len(outq'[o]) = Len(outq[o]) - 1
          /\ Len(recv'[o]) = Len(recv[o]) + 1
      <3>1. /\ Head(outq[o]) \in Bytes /\ Tail(outq[o]) \in Seq(Bytes)
            /\ Len(Tail(outq[o])) = Len(outq[o]) - 1
        BY <1>1, <1>2, <2>1, HeadTailFacts
      <3>2. Len(Append(recv[o], Head(outq[o]))) = Len(recv[o]) + 1
        BY <2>1, <3>1, AppendFacts
      <3>3. Len(Tail(outq[o])) \in Nat
        BY <3>1, EmptyFacts
      <3> QED
        BY <2>2, <3>1, <3>2, <3>3
    <2>4. /\ IsStream(recv[o], t, 1)
          /\ IsStream(outq[o], t, Len(recv[o]) + 1)
      BY <1>1, <1>2 DEF StreamInv
    <2>5. /\ Head(outq[o]) = <<t, Len(recv[o]) + 1>>
          /\ IsStream(outq'[o], t, (Len(recv[o]) + 1) + 1)
      <3>1. Len(recv[o]) + 1 \in Nat
        BY <2>1
      <3> QED
        BY <1>1, <1>2, <2>1, <2>2, <2>4, <3>1, StreamHeadTail
    <2>6. IsStream(recv'[o], t, 1)
      <3>1. 1 \in Nat /\ Len(recv[o]) + 1 \in Nat
            /\ Len(recv[o]) + 1 = 1 + Len(recv[o])
        BY <2>1
      <3>2. IsStream(Append(recv[o], <<t, Len(recv[o]) + 1>>), t, 1)
        BY <2>1, <2>4, <3>1, StreamAppend
      <3> QED
        BY <2>2, <2>5, <3>2
    <2>7. Len(recv'[o]) + Len(outq'[o]) = Len(recv[o]) + Len(outq[o])
      <3>1. \A a, b \in Nat : (a + 1) + (b - 1) = a + b
        OBVIOUS
      <3> QED
        BY <2>1, <2>3, <3>1
    <2>8. UNCHANGED <<Hand(t), Chunk(t), Passed(t)>>
      BY <1>1 DEF Hand, Chunk, Passed, pumpVars
    <2>9. StreamInv(t)'
      BY <1>1, <2>3, <2>5, <2>6, <2>8 DEF StreamInv, pumpVars
    <2>10. /\ pc # "returned" => Len(recv'[o]) <= Passed(t)
           /\ result \in CloseReason => Len(recv'[o]) <= forwarded[t]
      <3>1. Len(recv'[o]) <= Len(recv[o]) + Len(outq[o])
        BY <2>1, <2>3, <2>7
      <3>2. ~dead[o]
        BY <1>1, <1>2
      <3> QED
        BY <3>1, <3>2 DEF CountInv
    <2>11. ~eof[o]
      BY <1>1, <1>2 DEF ControlInv
    <2>12. CountInv(t)'
      BY <1>1, <2>7, <2>8, <2>10, <2>11 DEF CountInv, pumpVars
    <2> QED
      BY <2>9, <2>12
  <1>3. CASE o # s
    <2>1. recv'[o] = recv[o] /\ outq'[o] = outq[o]
      BY <1>1, <1>3, SideFacts DEF TypeOK
    <2> QED
      BY <1>1, <2>1, RelayFrame
  <1> QED
    BY <1>2, <1>3

(* The end of the stream is seen behind the last byte that was accepted.   *)
LEMMA SeeEofRelay ==
  ASSUME TypeOK, ControlInv, NEW t \in Sides, StreamInv(t), CountInv(t),
         NEW s \in Sides, SeeEof(s)
  PROVE  StreamInv(t)' /\ CountInv(t)'
  <1> DEFINE o == Other(t)
  <1>1. /\ ~dead[s] /\ outq[s] = <<>> /\ eof' = [eof EXCEPT ![s] = TRUE]
        /\ UNCHANGED pumpVars /\ UNCHANGED wireVars /\ UNCHANGED <<sent, recv>>
    BY DEF SeeEof
  <1>2. CASE o = s
    <2>1. UNCHANGED <<Hand(t), Chunk(t), Passed(t)>>
      BY <1>1 DEF Hand, Chunk, Passed, pumpVars
    <2>2. result \in CloseReason => Len(recv[o]) = forwarded[t]
      <3>1. result \in CloseReason =>
              Len(recv[o]) + Len(outq[o]) = forwarded[t]
        BY <1>1, <1>2 DEF CountInv
      <3>2. Len(outq[o]) = 0 /\ Len(recv[o]) \in Nat
        BY <1>1, <1>2, EmptyFacts, SizeFacts
      <3>3. \A x \in Nat : x + 0 = x
        OBVIOUS
      <3> QED
        BY <3>1, <3>2, <3>3
    <2>3. StreamInv(t)'
      BY <1>1, <2>1 DEF StreamInv, pumpVars, wireVars
    <2>4. CountInv(t)'
      BY <1>1, <2>1, <2>2 DEF CountInv, pumpVars, wireVars
    <2> QED
      BY <2>3, <2>4
  <1>3. CASE o # s
    <2>1. eof'[o] = eof[o]
      BY <1>1, <1>3, SideFacts DEF TypeOK
    <2> QED
      BY <1>1, <2>1, RelayFrame DEF wireVars
  <1> QED
    BY <1>2, <1>3

LEMMA NextRelay ==
  ASSUME PumpInv, [Next]_vars, NEW t \in Sides
  PROVE  StreamInv(t)' /\ CountInv(t)'
  <1>0. TypeOK /\ ControlInv /\ StreamInv(t) /\ CountInv(t)
    BY DEF PumpInv
  <1>1. ASSUME NEW s \in Sides, ReadSome(s)
        PROVE  StreamInv(t)' /\ CountInv(t)'
    BY <1>0, <1>1, ReadSomeRelay
  <1>2. ASSUME NEW s \in Sides, ReadEof(s)
        PROVE  StreamInv(t)' /\ CountInv(t)'
    <2>1. /\ pc = "select" /\ Return(EofOf(s), {Other(s)})
          /\ inq[s] = <<>> /\ tail[s] = "fin"
      BY <1>2 DEF ReadEof
    <2>2. /\ EofOf(s) \in CloseReason
          /\ EofOf(s) = EofOf(t) => s = t
      BY SideFacts
    <2> QED
      BY <1>0, <2>1, <2>2, ReturnRelay
  <1>3. ASSUME NEW s \in Sides, ReadErr(s)
        PROVE  StreamInv(t)' /\ CountInv(t)'
    BY <1>0, <1>3, SideFacts, ReturnRelay DEF ReadErr
  <1>4. ASSUME IdleFire
        PROVE  StreamInv(t)' /\ CountInv(t)'
    BY <1>0, <1>4, SideFacts, ReturnRelay DEF IdleFire, CloseReason
  <1>5. ASSUME WriteSome
        PROVE  StreamInv(t)' /\ CountInv(t)'
    BY <1>0, <1>5, WriteSomeRelay
  <1>6. ASSUME WriteErr
        PROVE  StreamInv(t)' /\ CountInv(t)'
    BY <1>0, <1>6, SideFacts, ReturnRelay DEF WriteErr
  <1>15. ASSUME Exit
         PROVE  StreamInv(t)' /\ CountInv(t)'
    BY <1>0, <1>15, SideFacts, ReturnRelay DEF Exit
  <1>7. ASSUME NEW s \in Sides, Send(s)
        PROVE  StreamInv(t)' /\ CountInv(t)'
    BY <1>0, <1>7, SendRelay
  <1>8. ASSUME NEW s \in Sides, Finish(s)
        PROVE  StreamInv(t)' /\ CountInv(t)'
    BY <1>0, <1>8, FinishRelay
  <1>9. ASSUME NEW s \in Sides, Abort(s)
        PROVE  StreamInv(t)' /\ CountInv(t)'
    <2>1. /\ UNCHANGED pumpVars /\ UNCHANGED <<recv, sent, eof>>
          /\ dead' = [dead EXCEPT ![s] = TRUE]
          /\ outq' = [outq EXCEPT ![s] = <<>>]
      BY <1>9 DEF Abort, endVars
    <2>2. /\ \A x \in Sides \ {s} : inq'[x] = inq[x] /\ tail'[x] = tail[x]
          /\ \/ inq'[s] = inq[s] /\ tail'[s] \in {tail[s], "rst"}
             \/ \E k \in 0..Len(inq[s]) : /\ inq'[s] = SubSeq(inq[s], 1, k)
                                          /\ tail'[s] = "rst"
      <3>1. inq \in [Sides -> Seq(Bytes)]
            /\ tail \in [Sides -> {"open", "fin", "rst"}]
        BY <1>0 DEF TypeOK
      <3>2. \/ inq' = inq /\ tail' = tail
            \/ \E k \in 0..Len(inq[s]) :
                 /\ inq' = [inq EXCEPT ![s] = SubSeq(inq[s], 1, k)]
                 /\ tail' = [tail EXCEPT ![s] = "rst"]
        BY <1>9 DEF Abort
      <3> QED
        BY <3>1, <3>2
    <2> QED
      BY <1>0, <2>1, <2>2, BreakRelay
  <1>10. ASSUME NEW s \in Sides, Receive(s)
         PROVE  StreamInv(t)' /\ CountInv(t)'
    BY <1>0, <1>10, ReceiveRelay
  <1>11. ASSUME NEW s \in Sides, SeeEof(s)
         PROVE  StreamInv(t)' /\ CountInv(t)'
    BY <1>0, <1>11, SeeEofRelay
  <1>12. ASSUME NEW s \in Sides, LateReset(s)
         PROVE  StreamInv(t)' /\ CountInv(t)'
    <2>1. /\ UNCHANGED pumpVars /\ UNCHANGED <<recv, sent, eof>>
          /\ dead' = [dead EXCEPT ![s] = TRUE]
          /\ outq' = [outq EXCEPT ![s] = <<>>]
          /\ inq' = inq /\ tail' = [tail EXCEPT ![s] = "rst"]
      BY <1>12 DEF LateReset, endVars
    <2>2. /\ \A x \in Sides \ {s} : inq'[x] = inq[x] /\ tail'[x] = tail[x]
          /\ inq'[s] = inq[s] /\ tail'[s] \in {tail[s], "rst"}
      BY <1>0, <2>1 DEF TypeOK
    <2> QED
      BY <1>0, <2>1, <2>2, BreakRelay
  <1>13. ASSUME Tick
         PROVE  StreamInv(t)' /\ CountInv(t)'
    BY <1>0, <1>13, RelayFrame DEF Tick, wireVars, endVars
  <1>14. CASE UNCHANGED vars
    BY <1>0, <1>14, RelayFrame DEF vars, wireVars, endVars
  <1> QED
    BY <1>1, <1>2, <1>3, <1>4, <1>5, <1>6, <1>7, <1>8, <1>9, <1>10, <1>11,
       <1>12, <1>13, <1>14, <1>15
    DEF Next, PumpStep, EndpointStep

LEMMA InitPumpInv == Init => PumpInv
  BY InitTypeOK, InitControl, InitRelay DEF PumpInv

LEMMA NextPumpInv == PumpInv /\ [Next]_vars => PumpInv'
  <1> SUFFICES ASSUME PumpInv, [Next]_vars PROVE PumpInv'
    OBVIOUS
  <1>1. TypeOK'
    BY NextTypeOK DEF PumpInv
  <1>2. ControlInv' /\ TimerInv'
    BY NextControl DEF PumpInv
  <1>3. \A t \in Sides : StreamInv(t)' /\ CountInv(t)'
    BY NextRelay
  <1> QED
    BY <1>1, <1>2, <1>3 DEF PumpInv

(* PumpInv holds in every state that pump and its environment can reach.   *)
THEOREM PumpInvariant == Spec => []PumpInv
  BY InitPumpInv, NextPumpInv, PTL DEF Spec

-----------------------------------------------------------------------------
(* What the invariant says to the endpoints.                               *)

(* No byte is lost, repeated, reordered or sent back, on either direction, *)
(* however reads, partial writes, resets and the end of pump interleave.   *)
THEOREM PumpRelayIntegrity == Spec => []RelayIntegrity
  <1>1. PumpInv => RelayIntegrity
    <2> SUFFICES ASSUME PumpInv, NEW s \in Sides
                 PROVE  LET o == Other(s) IN
                        /\ IsStream(recv[o], s, 1)
                        /\ Len(recv[o]) <= sent[s]
                        /\ ~dead[o] => IsStream(outq[o], s, Len(recv[o]) + 1)
                        /\ ~dead[o] /\ pc # "returned" =>
                             LET p == recv[o] \o outq[o] \o Hand(s) \o inq[s]
                             IN  /\ IsStream(p, s, 1)
                                 /\ tail[s] # "rst" => Len(p) = sent[s]
      BY DEF RelayIntegrity
    <2> DEFINE o == Other(s)
               a == recv[o] \o outq[o]
               b == a \o Hand(s)
               p == b \o inq[s]
    <2>1. /\ recv[o] \in Seq(Bytes) /\ Len(recv[o]) \in Nat
          /\ outq[o] \in Seq(Bytes) /\ Len(outq[o]) \in Nat
          /\ Hand(s) \in Seq(Bytes) /\ Len(Hand(s)) \in Nat
          /\ inq[s] \in Seq(Bytes) /\ Len(inq[s]) \in Nat
          /\ sent[s] \in Nat /\ forwarded[s] \in Nat /\ Chunk(s) \in Nat
      BY SizeFacts, SideFacts DEF PumpInv
    <2>2. StreamInv(s) /\ CountInv(s)
      BY DEF PumpInv
    <2>3. /\ IsStream(recv[o], s, 1)
          /\ ~dead[o] => IsStream(outq[o], s, Len(recv[o]) + 1)
      BY <2>2 DEF StreamInv
    <2>4. Len(recv[o]) <= sent[s]
      <3>1. Len(recv[o]) + Len(outq[o]) <= sent[s]
        BY <2>2 DEF CountInv
      <3>2. \A x, y, z \in Nat : x + y <= z => x <= z
        OBVIOUS
      <3> QED
        BY <2>1, <3>1, <3>2
    <2>5. ASSUME ~dead[o], pc # "returned"
          PROVE  IsStream(p, s, 1) /\ (tail[s] # "rst" => Len(p) = sent[s])
      <3> DEFINE la == Len(recv[o])
                 lb == Len(outq[o])
                 lh == Len(Hand(s))
                 li == Len(inq[s])
                 f == forwarded[s]
                 c == Chunk(s)
                 n == sent[s]
                 z == tail[s]
      <3>1. la + lb = (f + c) - lh /\ (z # "rst" => f + c + li = n)
        BY <2>2, <2>5 DEF CountInv, Passed
      <3>2. /\ la \in Nat /\ lb \in Nat /\ lh \in Nat /\ li \in Nat
            /\ f \in Nat /\ c \in Nat /\ n \in Nat
        BY <2>1
      <3>3. /\ a \in Seq(Bytes) /\ Len(a) = la + lb
            /\ b \in Seq(Bytes) /\ Len(b) = (la + lb) + lh
            /\ Len(p) = ((la + lb) + lh) + li
        BY <2>1, ConcatFacts
      <3>4. /\ IsStream(recv[o], s, 1) /\ IsStream(outq[o], s, la + 1)
            /\ IsStream(Hand(s), s, ((f + c) - lh) + 1)
            /\ IsStream(inq[s], s, f + c + 1)
        BY <2>2, <2>3, <2>5 DEF StreamInv, Passed
      <3>5. /\ la + 1 = 1 + la
            /\ ((f + c) - lh) + 1 = 1 + (la + lb)
            /\ f + c + 1 = 1 + ((la + lb) + lh)
            /\ z # "rst" => ((la + lb) + lh) + li = n
        <4> HIDE DEF la, lb, lh, li, f, c, n, z
        <4> QED
          BY <3>1, <3>2
      <3>6. IsStream(a, s, 1)
        BY <2>1, <3>4, <3>5, StreamConcat
      <3>7. IsStream(b, s, 1)
        <4>1. IsStream(Hand(s), s, 1 + Len(a)) /\ 1 \in Nat
          BY <3>3, <3>4, <3>5
        <4> HIDE DEF a
        <4> QED
          BY <2>1, <3>3, <3>6, <4>1, StreamConcat
      <3>8. IsStream(p, s, 1)
        <4>1. IsStream(inq[s], s, 1 + Len(b)) /\ 1 \in Nat
          BY <3>3, <3>4, <3>5
        <4> HIDE DEF b
        <4> QED
          BY <2>1, <3>3, <3>7, <4>1, StreamConcat
      <3> QED
        BY <3>3, <3>5, <3>8
    <2> QED
      BY <2>3, <2>4, <2>5
  <1> QED
    BY <1>1, PumpInvariant, PTL

(* The byte counts that pump reports are exact, for every Ok result.       *)
THEOREM PumpStatsExact == Spec => []StatsExact
  <1>1. PumpInv => StatsExact
    BY DEF PumpInv, CountInv, StatsExact
  <1> QED
    BY <1>1, PumpInvariant, PTL

(* An endpoint that reads the end of its stream after pump reported the    *)
(* other one's EOF has read everything the other one wrote.                *)
THEOREM PumpEofTruthful == Spec => []EofTruthful
  <1>1. PumpInv => EofTruthful
    <2> SUFFICES ASSUME PumpInv, NEW s \in Sides, result = EofOf(s),
                        eof[Other(s)]
                 PROVE  Len(recv[Other(s)]) = sent[s]
      BY DEF EofTruthful
    <2>1. result \in CloseReason
      BY SideFacts
    <2> QED
      BY <2>1 DEF PumpInv, CountInv
  <1> QED
    BY <1>1, PumpInvariant, PTL

-----------------------------------------------------------------------------
(* What a pump holds is bounded.                                           *)

(* What a step does to the variables that a bound speaks of.               *)
LEMMA WindowFacts ==
  ASSUME PumpInv, [Next]_vars, NEW t \in Sides
  PROVE  LET o == Other(t) IN
         /\ Len(recv'[o]) >= Len(recv[o])
         /\ sent'[t] # sent[t] =>
              /\ tail[t] = "open" /\ tail'[t] = "open"
              /\ sent'[t] = sent[t] + 1
              /\ Len(inq'[t]) = Len(inq[t]) + 1
         /\ pc' = "returned" /\ sent'[t] = sent[t] /\ tail'[t] # "rst" =>
              tail[t] # "rst" /\ Len(inq'[t]) = Len(inq[t])
         /\ pc' # "returned" /\ dead'[o] =>
              pc # "returned" /\ Passed(t)' = Passed(t)
  <1> DEFINE o == Other(t)
             Goal == /\ Len(recv'[o]) >= Len(recv[o])
                     /\ sent'[t] # sent[t] =>
                          /\ tail[t] = "open" /\ tail'[t] = "open"
                          /\ sent'[t] = sent[t] + 1
                          /\ Len(inq'[t]) = Len(inq[t]) + 1
                     /\ pc' = "returned" /\ sent'[t] = sent[t] /\ tail'[t] # "rst" =>
                          tail[t] # "rst" /\ Len(inq'[t]) = Len(inq[t])
                     /\ pc' # "returned" /\ dead'[o] =>
                          pc # "returned" /\ Passed(t)' = Passed(t)
  <1>0. o \in Sides /\ o # t /\ TypeOK /\ ControlInv
    BY SideFacts DEF PumpInv
  <1>1. /\ recv[o] \in Seq(Bytes) /\ Len(recv[o]) \in Nat
        /\ inq[t] \in Seq(Bytes) /\ Len(inq[t]) \in Nat /\ sent[t] \in Nat
    BY <1>0, SizeFacts
  <1>2. ASSUME NEW s \in Sides, ReadSome(s) PROVE Goal
    <2>1. /\ pc = "select" /\ pc' = "write" /\ from' = s
          /\ UNCHANGED <<forwarded, tail, outq, dead, sent, recv>>
      BY <1>2 DEF ReadSome, endVars
    <2>2. PICK n \in 1..Len(inq[s]) : buf' = SubSeq(inq[s], 1, n) /\ count' = n
      BY <1>2 DEF ReadSome
    <2>3. Len(buf') = n /\ buf = <<>> /\ n \in Nat
      <3>1. inq[s] \in Seq(Bytes) /\ Len(inq[s]) \in Nat
        BY <1>0 DEF TypeOK
      <3>2. buf = <<>>
        BY <1>0, <2>1 DEF ControlInv
      <3> QED
        BY <2>2, <3>1, <3>2, SubSeqFacts
    <2>4. forwarded[t] \in Nat
      BY <1>0 DEF TypeOK
    <2>5. Passed(t)' = Passed(t)
      <3>1. Passed(t) = forwarded[t]
        BY <2>1, <2>3, <2>4 DEF Passed, Chunk, Hand
      <3>2. Passed(t)' = forwarded[t]
        BY <2>1, <2>2, <2>3, <2>4 DEF Passed, Chunk, Hand
      <3> QED
        BY <3>1, <3>2
    <2> QED
      BY <1>1, <2>1, <2>5
  <1>3. ASSUME pc' = "returned", UNCHANGED <<inq, tail, sent, recv>> PROVE Goal
    BY <1>1, <1>3
  <1>4. ASSUME WriteSome PROVE Goal
    <2>1. /\ UNCHANGED <<inq, tail, sent, recv, dead, from, count>>
          /\ pc = "write" /\ pc' # "returned" /\ ~dead[Other(from)]
      BY <1>4 DEF WriteSome, endVars
    <2>2. ASSUME dead'[o] PROVE Passed(t)' = Passed(t)
      <3>1. from \in Sides /\ from # t
        BY <1>0, <2>1, <2>2 DEF TypeOK
      <3>2. forwarded'[t] = forwarded[t]
        BY <1>0, <1>4, <3>1 DEF WriteSome, TypeOK
      <3> QED
        BY <2>1, <3>1, <3>2 DEF Passed, Chunk, Hand
    <2> QED
      BY <1>1, <2>1, <2>2
  <1>5. ASSUME UNCHANGED pumpVars,
               /\ Len(recv'[o]) >= Len(recv[o])
               /\ sent'[t] # sent[t] =>
                    /\ tail[t] = "open" /\ tail'[t] = "open"
                    /\ sent'[t] = sent[t] + 1
                    /\ Len(inq'[t]) = Len(inq[t]) + 1
               /\ sent'[t] = sent[t] /\ tail'[t] # "rst" =>
                    tail[t] # "rst" /\ Len(inq'[t]) = Len(inq[t])
        PROVE  Goal
    <2>1. Passed(t)' = Passed(t)
      BY <1>5 DEF pumpVars, Passed, Chunk, Hand
    <2> QED
      BY <1>5, <2>1 DEF pumpVars
  <1>6. ASSUME NEW s \in Sides, ReadEof(s) \/ ReadErr(s) PROVE Goal
    BY <1>3, <1>6 DEF ReadEof, ReadErr, Return, endVars
  <1>7. ASSUME IdleFire \/ WriteErr \/ Exit PROVE Goal
    BY <1>3, <1>7 DEF IdleFire, WriteErr, Exit, Return, endVars
  <1>8. ASSUME NEW s \in Sides, Send(s) PROVE Goal
    <2>1. UNCHANGED pumpVars /\ recv' = recv /\ tail' = tail
      BY <1>8 DEF Send
    <2>2. CASE s = t
      <3>1. tail[t] = "open" /\ sent'[t] = sent[t] + 1
        BY <1>0, <1>8, <2>2 DEF Send, TypeOK
      <3>2. inq'[t] = Append(inq[t], <<t, sent[t] + 1>>)
        BY <1>0, <1>8, <2>2 DEF Send, TypeOK
      <3>3. <<t, sent[t] + 1>> \in Bytes
        BY <1>1 DEF Bytes
      <3>4. Len(inq'[t]) = Len(inq[t]) + 1
        BY <1>1, <3>2, <3>3, AppendFacts
      <3> HIDE DEF Goal
      <3> QED
        BY <1>1, <1>5, <2>1, <3>1, <3>4
    <2>3. CASE s # t
      <3>1. sent'[t] = sent[t] /\ inq'[t] = inq[t]
        BY <1>0, <1>8, <2>3 DEF Send, TypeOK
      <3> HIDE DEF Goal
      <3> QED
        BY <1>1, <1>5, <2>1, <3>1
    <2> QED
      BY <2>2, <2>3
  <1>9. ASSUME NEW s \in Sides, Finish(s) PROVE Goal
    <2>1. UNCHANGED <<pumpVars, inq, recv, sent>> /\ (tail'[t] # "rst" => tail[t] # "rst")
      BY <1>0, <1>9 DEF Finish, endVars, TypeOK
    <2> HIDE DEF Goal
    <2> QED
      BY <1>1, <1>5, <2>1
  <1>10. ASSUME NEW s \in Sides, Abort(s) PROVE Goal
    <2>1. UNCHANGED <<pumpVars, recv, sent>>
      BY <1>10 DEF Abort, endVars
    <2>2. tail'[t] # "rst" => tail[t] # "rst" /\ inq'[t] = inq[t]
      BY <1>0, <1>10 DEF Abort, TypeOK
    <2> HIDE DEF Goal
    <2> QED
      BY <1>1, <1>5, <2>1, <2>2
  <1>11. ASSUME NEW s \in Sides, Receive(s) PROVE Goal
    <2>1. UNCHANGED <<pumpVars, inq, tail, sent>>
      BY <1>11 DEF Receive
    <2>2. Len(recv'[o]) >= Len(recv[o])
      <3>1. outq[s] \in Seq(Bytes) /\ outq[s] # <<>>
        BY <1>0, <1>11 DEF Receive, TypeOK
      <3>2. Head(outq[s]) \in Bytes
        BY <3>1, HeadTailFacts
      <3>3. recv'[o] = IF s = o THEN Append(recv[o], Head(outq[s])) ELSE recv[o]
        BY <1>0, <1>11 DEF Receive, TypeOK
      <3> QED
        BY <1>1, <3>2, <3>3, AppendFacts
    <2> HIDE DEF Goal
    <2> QED
      BY <1>1, <1>5, <2>1, <2>2
  <1>12. ASSUME NEW s \in Sides, SeeEof(s) PROVE Goal
    <2>1. UNCHANGED <<pumpVars, inq, tail, recv, sent>>
      BY <1>12 DEF SeeEof, wireVars
    <2> HIDE DEF Goal
    <2> QED
      BY <1>1, <1>5, <2>1
  <1>13. ASSUME NEW s \in Sides, LateReset(s) PROVE Goal
    <2>1. UNCHANGED <<pumpVars, inq, recv, sent>> /\ (tail'[t] # "rst" => tail[t] # "rst")
      BY <1>0, <1>13 DEF LateReset, endVars, TypeOK
    <2> HIDE DEF Goal
    <2> QED
      BY <1>1, <1>5, <2>1
  <1>14. ASSUME Tick \/ UNCHANGED vars PROVE Goal
    <2>1. UNCHANGED <<pumpVars, inq, tail, recv, sent>>
      BY <1>14 DEF Tick, vars, wireVars, endVars
    <2> HIDE DEF Goal
    <2> QED
      BY <1>1, <1>5, <2>1
  <1> HIDE DEF Goal
  <1>15. Goal
    BY <1>2, <1>4, <1>6, <1>7, <1>8, <1>9, <1>10, <1>11, <1>12, <1>13, <1>14
    DEF Next, PumpStep, EndpointStep
  <1> QED
    BY <1>15 DEF Goal

(* SizeFacts in the next state.                                            *)
LEMMA PrimedSizes ==
  ASSUME TypeOK', ControlInv', NEW t \in Sides
  PROVE  /\ Len(recv'[Other(t)]) \in Nat /\ Len(inq'[t]) \in Nat
         /\ Len(outq'[Other(t)]) \in Nat
         /\ sent'[t] \in Nat /\ Passed(t)' \in Nat
         /\ forwarded'[t] \in Nat /\ Chunk(t)' \in Nat
         /\ Len(Hand(t)') \in Nat /\ Len(Hand(t)') <= Chunk(t)'
  <1>1. Other(t) \in Sides
    BY SideFacts
  <1>2. /\ inq'[t] \in Seq(Bytes) /\ outq'[Other(t)] \in Seq(Bytes)
        /\ recv'[Other(t)] \in Seq(Bytes) /\ Hand(t)' \in Seq(Bytes)
    BY <1>1 DEF TypeOK, Hand
  <1>3. /\ sent'[t] \in Nat /\ forwarded'[t] \in Nat /\ Chunk(t)' \in Nat
    BY DEF TypeOK, Chunk
  <1>4. Len(<<>>) = 0
    OBVIOUS
  <1>5. Len(Hand(t)') <= Chunk(t)'
    <2>1. CASE pc' = "write"
      BY <1>4, <2>1 DEF Hand, Chunk, TypeOK
    <2>2. CASE pc' # "write"
      BY <1>4, <2>2 DEF Hand, Chunk, ControlInv
    <2> QED
      BY <2>1, <2>2
  <1>6. /\ Len(Hand(t)') \in Nat /\ Len(inq'[t]) \in Nat
        /\ Len(outq'[Other(t)]) \in Nat /\ Len(recv'[Other(t)]) \in Nat
    BY <1>2
  <1>7. Passed(t)' \in Nat
    BY <1>3, <1>5, <1>6 DEF Passed
  <1> QED
    BY <1>3, <1>5, <1>6, <1>7

LEMMA InitBoundInv == Init => BoundInv
  <1> SUFFICES ASSUME Init PROVE BoundInv
    OBVIOUS
  <1>1. ASSUME NEW s \in Sides PROVE WindowInv(s)
    <2>1. /\ Other(s) \in Sides /\ Len(recv[Other(s)]) = 0 /\ Len(inq[s]) = 0
          /\ sent[s] = 0 /\ forwarded[s] = 0 /\ Len(Hand(s)) = 0
          /\ Chunk(s) = 0
      BY SideFacts DEF Init, Hand, Chunk
    <2>2. Passed(s) = (0 + 0) - 0
      BY <2>1 DEF Passed
    <2> QED
      BY <2>1, <2>2, BufSizeAssumption, InCapAssumption, OutCapAssumption
      DEF WindowInv
  <1> QED
    BY <1>1, InitPumpInv DEF BoundInv

LEMMA NextBoundInv == BoundInv /\ [Next]_vars => BoundInv'
  <1> SUFFICES ASSUME BoundInv, [Next]_vars PROVE BoundInv'
    OBVIOUS
  <1>1. PumpInv /\ PumpInv'
    BY NextPumpInv DEF BoundInv
  <1>2. ASSUME NEW t \in Sides PROVE WindowInv(t)'
    <2> DEFINE o == Other(t)
               r == Len(recv[o])
               r1 == Len(recv'[o])
               i == Len(inq[t])
               i1 == Len(inq'[t])
               n == sent[t]
               n1 == sent'[t]
               p == Passed(t)
               p1 == Passed(t)'
               q1 == Len(outq'[o])
               f1 == forwarded'[t]
               c1 == Chunk(t)'
               h1 == Len(Hand(t)')
    <2>0. WindowInv(t) /\ o \in Sides /\ Other(o) = t
      BY SideFacts DEF BoundInv
    <2>1. /\ r \in Nat /\ i \in Nat /\ n \in Nat /\ p \in Nat
          /\ BufSize \in Nat /\ InCap \in Nat /\ OutCap \in Nat
      BY <1>1, <2>0, SizeFacts, BufSizeAssumption, InCapAssumption,
         OutCapAssumption
      DEF PumpInv
    <2>2. TypeOK' /\ ControlInv' /\ CountInv(t)'
      BY <1>1 DEF PumpInv
    <2>3. /\ r1 \in Nat /\ i1 \in Nat /\ n1 \in Nat /\ p1 \in Nat
          /\ q1 \in Nat /\ f1 \in Nat /\ c1 \in Nat /\ h1 \in Nat
          /\ h1 <= c1
      BY <2>0, <2>2, PrimedSizes
    <2>4. i1 <= InCap /\ q1 <= OutCap /\ c1 <= BufSize
      BY <2>0, <2>1, <2>2 DEF TypeOK, Chunk
    <2>5. /\ r1 >= r
          /\ n1 # n => tail[t] = "open" /\ tail'[t] = "open"
                       /\ n1 = n + 1 /\ i1 = i + 1
          /\ pc' = "returned" /\ n1 = n /\ tail'[t] # "rst" =>
               tail[t] # "rst" /\ i1 = i
          /\ pc' # "returned" /\ dead'[o] => pc # "returned" /\ p1 = p
      BY <1>1, WindowFacts
    <2>6. /\ pc # "returned" => p <= r + OutCap
          /\ tail[t] # "rst" => n <= r + i + BufSize + OutCap
          /\ n <= r + InCap + BufSize + OutCap
      BY <2>0 DEF WindowInv
    <2>7. pc' # "returned" =>
            /\ ~dead'[o] => r1 + q1 = p1
            /\ tail'[t] # "rst" => f1 + c1 + i1 = n1
            /\ p1 = (f1 + c1) - h1
      BY <2>2 DEF CountInv, Passed
    <2> HIDE DEF r, r1, i, i1, n, n1, p, p1, q1, f1, c1, h1
    <2>8. pc' # "returned" => p1 <= r1 + OutCap
      BY <2>1, <2>3, <2>4, <2>5, <2>6, <2>7
    <2>9. tail'[t] # "rst" => n1 <= r1 + i1 + BufSize + OutCap
      <3>1. CASE pc' = "returned"
        BY <2>1, <2>3, <2>5, <2>6, <3>1
      <3>2. CASE pc' # "returned"
        BY <2>1, <2>3, <2>4, <2>7, <2>8, <3>2
      <3> QED
        BY <3>1, <3>2
    <2>10. n1 <= r1 + InCap + BufSize + OutCap
      <3>1. CASE tail'[t] # "rst"
        BY <2>1, <2>3, <2>4, <2>9, <3>1
      <3>2. CASE tail'[t] = "rst"
        BY <2>1, <2>3, <2>5, <2>6, <3>2
      <3> QED
        BY <3>1, <3>2
    <2> QED
      BY <2>8, <2>9, <2>10 DEF WindowInv, r1, i1, n1, p1
  <1> QED
    BY <1>1, <1>2 DEF BoundInv

LEMMA BoundInvBounds == BoundInv => BoundedInFlight
  <1> SUFFICES ASSUME BoundInv, NEW s \in Sides
               PROVE  sent[s] - Len(recv[Other(s)]) <= InCap + BufSize + OutCap
    BY DEF BoundedInFlight
  <1> DEFINE r == Len(recv[Other(s)])
             n == sent[s]
  <1>1. /\ r \in Nat /\ n \in Nat
        /\ BufSize \in Nat /\ InCap \in Nat /\ OutCap \in Nat
    BY SizeFacts, SideFacts, BufSizeAssumption, InCapAssumption,
       OutCapAssumption
    DEF BoundInv, PumpInv
  <1>2. n <= r + InCap + BufSize + OutCap
    BY DEF BoundInv, WindowInv
  <1> HIDE DEF r, n
  <1>3. n - r <= InCap + BufSize + OutCap
    BY <1>1, <1>2
  <1> QED
    BY <1>3 DEF r, n

(* A task that fails before its pump leaves the sockets as pump would.     *)
LEMMA ErrorBoundInv ==
  ASSUME BoundInv, pc # "returned", Return("Error", {})
  PROVE  BoundInv'
  <1>0. PumpInv /\ TypeOK /\ ControlInv /\ TimerInv
    BY DEF BoundInv, PumpInv
  <1>1. "Error" \in CloseReason \cup {"Error", "Killed"}
    OBVIOUS
  <1>2. \A s \in Sides : "Error" # EofOf(s)
    BY SideFacts
  <1>3. TypeOK'
    BY <1>0, <1>1, ReturnTypeOK
  <1>4. ControlInv' /\ TimerInv'
    BY <1>0, <1>1, <1>2, ReturnControl
  <1>5. ASSUME NEW t \in Sides PROVE StreamInv(t)' /\ CountInv(t)'
    BY <1>0, <1>1, <1>2, ReturnRelay DEF PumpInv
  <1>6. ASSUME NEW t \in Sides PROVE WindowInv(t)'
    <2>1. pc' = "returned" /\ UNCHANGED <<inq, tail, sent, recv>>
      BY DEF Return, endVars
    <2>2. WindowInv(t)
      BY DEF BoundInv
    <2> QED
      BY <2>1, <2>2 DEF WindowInv
  <1> QED
    BY <1>3, <1>4, <1>5, <1>6 DEF BoundInv, PumpInv

(* Backpressure, for every size of the buffer and the sockets: a writer is *)
(* never further ahead of its reader than they hold, not even when pump    *)
(* ends with bytes in hand or a connection breaks.                         *)
THEOREM PumpBoundedInFlight == Spec => []BoundedInFlight
  BY InitBoundInv, NextBoundInv, BoundInvBounds, PTL DEF Spec

-----------------------------------------------------------------------------
(* Pump implements Relay.  Until pump returns no endpoint has read the end *)
(* of its stream, and afterwards the report does not change, so what an    *)
(* endpoint is promised changes only with its own connection.              *)

LEMMA RelayFunctions ==
  ASSUME TypeOK
  PROVE  /\ sent \in [Sides -> Nat] /\ recv \in [Sides -> Seq(Bytes)]
         /\ R!Sides = Sides /\ \A s \in Sides : R!Other(s) = Other(s)
  BY DEF TypeOK, R!Sides, Sides, R!Other, Other

(* A step that neither moves a byte nor touches a connection.              *)
LEMMA RelayStutters ==
  ASSUME UNCHANGED <<sent, recv, tail, eof, dead>>,
         result' = result \/ \A s \in Sides : ~eof[s]
  PROVE  UNCHANGED R!vars
  <1>1. \A s \in Sides : PromisedEnd(s)' = PromisedEnd(s)
    BY DEF PromisedEnd
  <1>2. [s \in Sides |-> PromisedEnd(s)]' = [s \in Sides |-> PromisedEnd(s)]
    BY <1>1
  <1>3. [s \in Sides |-> tail[s] # "open"]' = [s \in Sides |-> tail[s] # "open"]
    OBVIOUS
  <1> QED
    BY <1>2, <1>3 DEF R!vars

LEMMA InitImplementsRelay == Init => R!Init
  <1> SUFFICES ASSUME Init PROVE R!Init
    OBVIOUS
  <1>1. /\ sent = [s \in Sides |-> 0] /\ recv = [s \in Sides |-> <<>>]
        /\ \A s \in Sides : tail[s] = "open" /\ ~eof[s] /\ ~dead[s]
    BY DEF Init
  <1>2. \A s \in Sides : PromisedEnd(s) = "open"
    BY <1>1 DEF PromisedEnd
  <1>3. [s \in Sides |-> PromisedEnd(s)] = [s \in Sides |-> "open"]
    BY <1>2
  <1>4. [s \in Sides |-> tail[s] # "open"] = [s \in Sides |-> FALSE]
    BY <1>1
  <1> QED
    BY <1>1, <1>3, <1>4 DEF R!Init, R!Sides, Sides

(* The connection of s breaks.                                             *)
LEMMA BreakImplements ==
  ASSUME TypeOK, NEW s \in Sides, ~dead[s],
         UNCHANGED <<sent, recv, result, eof>>,
         dead' = [dead EXCEPT ![s] = TRUE],
         tail'[s] # "open", \A x \in Sides \ {s} : tail'[x] = tail[x]
  PROVE  R!Break(s)
  <1>1. dead'[s] /\ \A x \in Sides \ {s} : dead'[x] = dead[x]
    BY DEF TypeOK
  <1>2. /\ PromisedEnd(s)' = IF PromisedEnd(s) = "open" THEN "broken" ELSE PromisedEnd(s)
        /\ \A x \in Sides \ {s} : PromisedEnd(x)' = PromisedEnd(x)
    BY <1>1 DEF PromisedEnd
  <1>3. [x \in Sides |-> PromisedEnd(x)]'
          = [[x \in Sides |-> PromisedEnd(x)] EXCEPT ![s] =
               IF @ = "open" THEN "broken" ELSE @]
    BY <1>2
  <1>4. [x \in Sides |-> tail[x] # "open"]'
          = [[x \in Sides |-> tail[x] # "open"] EXCEPT ![s] = TRUE]
    <2>1. \A x \in Sides : (tail'[x] # "open") = IF x = s THEN TRUE ELSE tail[x] # "open"
      OBVIOUS
    <2> QED
      BY <2>1
  <1> QED
    BY <1>3, <1>4 DEF R!Break

LEMMA SendImplements ==
  ASSUME TypeOK, NEW s \in Sides, Send(s)
  PROVE  R!Send(s)
  <1>1. /\ tail[s] = "open" /\ sent' = [sent EXCEPT ![s] = @ + 1]
        /\ UNCHANGED <<result, tail, dead, recv, eof>>
    BY DEF Send, pumpVars
  <1>2. /\ [x \in Sides |-> PromisedEnd(x)]' = [x \in Sides |-> PromisedEnd(x)]
        /\ [x \in Sides |-> tail[x] # "open"]' = [x \in Sides |-> tail[x] # "open"]
    BY <1>1 DEF PromisedEnd
  <1> QED
    BY <1>1, <1>2 DEF R!Send

LEMMA FinishImplements ==
  ASSUME TypeOK, NEW s \in Sides, Finish(s)
  PROVE  R!Finish(s)
  <1>1. /\ tail[s] = "open" /\ tail' = [tail EXCEPT ![s] = "fin"]
        /\ UNCHANGED <<result, dead, sent, recv, eof>>
    BY DEF Finish, pumpVars, endVars
  <1>2. [x \in Sides |-> PromisedEnd(x)]' = [x \in Sides |-> PromisedEnd(x)]
    BY <1>1 DEF PromisedEnd
  <1>3. [x \in Sides |-> tail[x] # "open"]'
          = [[x \in Sides |-> tail[x] # "open"] EXCEPT ![s] = TRUE]
    <2>1. \A x \in Sides : (tail'[x] # "open") = IF x = s THEN TRUE ELSE tail[x] # "open"
      BY <1>1 DEF TypeOK
    <2> QED
      BY <2>1
  <1> QED
    BY <1>1, <1>2, <1>3 DEF R!Finish

LEMMA ReceiveImplements ==
  ASSUME PumpInv, NEW s \in Sides, Receive(s)
  PROVE  R!Deliver(s)
  <1> DEFINE o == Other(s)
             h == Head(outq[s])
             r == Len(recv[s])
             q == Len(outq[s])
             n == sent[o]
  <1>0. o \in Sides /\ Other(o) = s /\ TypeOK /\ ControlInv
    BY SideFacts DEF PumpInv
  <1>1. /\ ~dead[s] /\ outq[s] # <<>>
        /\ recv' = [recv EXCEPT ![s] = Append(@, h)]
        /\ UNCHANGED <<result, tail, dead, sent, eof>>
    BY DEF Receive, pumpVars
  <1>2. ~eof[s]
    BY <1>0, <1>1 DEF ControlInv
  <1>3. /\ outq[s] \in Seq(Bytes) /\ q \in Nat /\ r \in Nat /\ n \in Nat
    BY <1>0, SizeFacts
  <1>4. h = outq[s][1] /\ q >= 1
    BY <1>1, <1>3, HeadTailFacts
  <1>5. IsStream(outq[s], o, r + 1) /\ r + q <= n
    BY <1>0, <1>1 DEF PumpInv, StreamInv, CountInv
  <1>6. h = <<o, r + 1>>
    <2>1. outq[s][1] = <<o, (r + 1) + 1 - 1>>
      BY <1>3, <1>4, <1>5 DEF IsStream
    <2>2. (r + 1) + 1 - 1 = r + 1
      BY <1>3
    <2> QED
      BY <1>4, <2>1, <2>2
  <1>7. r < n
    <2> HIDE DEF r, q, n
    <2> QED
      BY <1>3, <1>4, <1>5
  <1>8. PromisedEnd(s) = "open"
    BY <1>1, <1>2 DEF PromisedEnd
  <1>9. /\ [x \in Sides |-> PromisedEnd(x)]' = [x \in Sides |-> PromisedEnd(x)]
        /\ [x \in Sides |-> tail[x] # "open"]' = [x \in Sides |-> tail[x] # "open"]
    BY <1>1 DEF PromisedEnd
  <1>10. recv' = [recv EXCEPT ![s] = Append(@, <<R!Other(s), Len(@) + 1>>)]
    BY <1>0, <1>1, <1>6, RelayFunctions
  <1> QED
    BY <1>0, <1>1, <1>7, <1>8, <1>9, <1>10, RelayFunctions DEF R!Deliver

LEMMA SeeEofImplements ==
  ASSUME PumpInv, NEW s \in Sides, SeeEof(s)
  PROVE  R!EndComplete(s) \/ R!EndCut(s)
  <1> DEFINE o == Other(s)
             done == [x \in Sides |-> tail[x] # "open"]
             verdict == [x \in Sides |-> PromisedEnd(x)]
  <1>0. o \in Sides /\ Other(o) = s /\ TypeOK /\ ControlInv
    BY SideFacts DEF PumpInv
  <1>1. /\ ~dead[s] /\ ~eof[s] /\ outq[s] = <<>>
        /\ eof' = [eof EXCEPT ![s] = TRUE]
        /\ UNCHANGED <<result, tail, dead, sent, recv>>
    BY DEF SeeEof, pumpVars, wireVars
  <1>2. eof'[s] /\ \A x \in Sides \ {s} : eof'[x] = eof[x]
    BY <1>0, <1>1 DEF TypeOK
  <1>3. /\ PromisedEnd(s) = "open"
        /\ PromisedEnd(s)' = IF result = EofOf(o) THEN "complete" ELSE "cut"
        /\ \A x \in Sides \ {s} : PromisedEnd(x)' = PromisedEnd(x)
    BY <1>1, <1>2 DEF PromisedEnd
  <1>4. verdict' = [verdict EXCEPT ![s] = IF result = EofOf(o) THEN "complete" ELSE "cut"]
    BY <1>3
  <1>5. done' = done /\ verdict[s] = "open"
    BY <1>1, <1>3
  <1>6. CASE result = EofOf(o)
    <2>1. result \in CloseReason /\ tail[o] # "open"
      BY <1>0, <1>6, SideFacts DEF ControlInv
    <2>2. Len(recv[s]) + Len(outq[s]) = forwarded[o] /\ forwarded[o] = sent[o]
      BY <1>0, <1>1, <1>6, <2>1 DEF PumpInv, CountInv
    <2>3. Len(recv[s]) = sent[o]
      <3>1. Len(outq[s]) = 0 /\ Len(recv[s]) \in Nat
        BY <1>0, <1>1, SizeFacts, EmptyFacts
      <3> QED
        BY <2>2, <3>1
    <2>4. done[o]
      BY <1>0, <2>1
    <2> QED
      BY <1>0, <1>1, <1>4, <1>5, <1>6, <2>3, <2>4, RelayFunctions DEF R!EndComplete
  <1>7. CASE result # EofOf(o)
    BY <1>1, <1>4, <1>5, <1>7 DEF R!EndCut
  <1> QED
    BY <1>6, <1>7

LEMMA NextImplementsRelay == PumpInv /\ [Next]_vars => [R!Next]_(R!vars)
  <1> SUFFICES ASSUME PumpInv, [Next]_vars PROVE R!Next \/ UNCHANGED R!vars
    OBVIOUS
  <1>0. TypeOK /\ ControlInv /\ R!Sides = Sides
    BY RelayFunctions DEF PumpInv
  <1>1. ASSUME PumpStep \/ Exit PROVE UNCHANGED R!vars
    <2>1. pc # "returned" /\ UNCHANGED <<sent, recv, tail, eof, dead>>
      BY <1>1 DEF PumpStep, ReadSome, ReadEof, ReadErr, IdleFire, WriteSome,
                  WriteErr, Exit, Return, endVars
    <2>2. \A s \in Sides : ~eof[s]
      BY <1>0, <2>1 DEF ControlInv
    <2> QED
      BY <2>1, <2>2, RelayStutters
  <1>2. ASSUME NEW s \in Sides, Send(s) PROVE R!Next
    BY <1>0, <1>2, SendImplements DEF R!Next
  <1>3. ASSUME NEW s \in Sides, Finish(s) PROVE R!Next
    BY <1>0, <1>3, FinishImplements DEF R!Next
  <1>4. ASSUME NEW s \in Sides, Abort(s) PROVE R!Next
    <2>1. /\ ~dead[s] /\ UNCHANGED <<sent, recv, result, eof>>
          /\ dead' = [dead EXCEPT ![s] = TRUE]
      BY <1>4 DEF Abort, pumpVars, endVars
    <2>2. tail'[s] # "open" /\ \A x \in Sides \ {s} : tail'[x] = tail[x]
      BY <1>0, <1>4 DEF Abort, TypeOK
    <2> QED
      BY <1>0, <2>1, <2>2, BreakImplements DEF R!Next
  <1>5. ASSUME NEW s \in Sides, LateReset(s) PROVE R!Next
    <2>1. /\ ~dead[s] /\ UNCHANGED <<sent, recv, result, eof>>
          /\ dead' = [dead EXCEPT ![s] = TRUE]
      BY <1>5 DEF LateReset, pumpVars, endVars
    <2>2. tail'[s] # "open" /\ \A x \in Sides \ {s} : tail'[x] = tail[x]
      BY <1>0, <1>5 DEF LateReset, TypeOK
    <2> QED
      BY <1>0, <2>1, <2>2, BreakImplements DEF R!Next
  <1>6. ASSUME NEW s \in Sides, Receive(s) PROVE R!Next
    BY <1>0, <1>6, ReceiveImplements DEF R!Next
  <1>7. ASSUME NEW s \in Sides, SeeEof(s) PROVE R!Next
    BY <1>0, <1>7, SeeEofImplements DEF R!Next
  <1>8. ASSUME Tick \/ UNCHANGED vars PROVE UNCHANGED R!vars
    <2>1. UNCHANGED <<sent, recv, tail, eof, dead, result>>
      BY <1>8 DEF Tick, vars, pumpVars, wireVars, endVars
    <2> QED
      BY <2>1, RelayStutters
  <1> QED
    BY <1>1, <1>2, <1>3, <1>4, <1>5, <1>6, <1>7, <1>8 DEF Next, EndpointStep

(* pump implements Relay: whatever happens to it, each endpoint reads a    *)
(* prefix of what the other writes, and an end that is reported as the     *)
(* other's EOF is complete.                                                *)
THEOREM PumpImplementsRelay == Spec => RelaySpec
  BY InitImplementsRelay, NextImplementsRelay, InitPumpInv, NextPumpInv, PTL
  DEF Spec, RelaySpec, R!Spec

-----------------------------------------------------------------------------
(* What a module that composes pumps needs to know of one.                 *)

LEMMA PumpView ==
  ASSUME BoundInv, NEW s \in Sides
  PROVE  LET o == Other(s) IN
         /\ \A j \in 1..Len(recv[o]) : recv[o][j] = <<s, j>>
         /\ recv[o] \in Seq(Bytes) /\ Len(recv[o]) \in Nat /\ sent[s] \in Nat
         /\ Len(recv[o]) <= sent[s]
         /\ sent[s] <= Len(recv[o]) + InCap + BufSize + OutCap
         /\ outq[o] # <<>> =>
              Head(outq[o]) = <<s, Len(recv[o]) + 1>> \/ dead[o]
         /\ outq[o] # <<>> => ~eof[o] /\ Len(recv[o]) < sent[s]
         /\ eof[s] => pc = "returned"
         /\ result = "none" <=> pc # "returned"
         /\ result = EofOf(s) => tail[s] # "open"
         /\ result = EofOf(s) /\ eof[o] => Len(recv[o]) = sent[s]
         /\ result = EofOf(s) /\ ~dead[o] /\ outq[o] = <<>> => Len(recv[o]) = sent[s]
  <1> DEFINE o == Other(s)
             r == Len(recv[o])
             q == Len(outq[o])
             n == sent[s]
  <1>0. o \in Sides /\ TypeOK /\ ControlInv /\ StreamInv(s) /\ CountInv(s)
    BY SideFacts DEF BoundInv, PumpInv
  <1>1. /\ recv[o] \in Seq(Bytes) /\ outq[o] \in Seq(Bytes)
        /\ r \in Nat /\ q \in Nat /\ n \in Nat
    BY <1>0, SizeFacts
  <1>2. ASSUME NEW j \in 1..r PROVE recv[o][j] = <<s, j>>
    <2>1. recv[o][j] = <<s, 1 + j - 1>> /\ j \in Nat
      BY <1>0, <1>1 DEF StreamInv, IsStream
    <2>2. 1 + j - 1 = j
      BY <2>1
    <2> QED
      BY <2>1, <2>2
  <1>3. r + q <= n
    BY <1>0 DEF CountInv
  <1>4. ASSUME outq[o] # <<>>
        PROVE  q >= 1 /\ (Head(outq[o]) = <<s, r + 1>> \/ dead[o])
    <2>1. q >= 1 /\ Head(outq[o]) = outq[o][1]
      BY <1>1, <1>4, HeadTailFacts
    <2>2. ~dead[o] => outq[o][1] = <<s, (r + 1) + 1 - 1>>
      BY <1>0, <1>1, <2>1 DEF StreamInv, IsStream
    <2>3. (r + 1) + 1 - 1 = r + 1
      BY <1>1
    <2> QED
      BY <2>1, <2>2, <2>3
  <1>5. r <= n /\ (q >= 1 => r < n)
    <2> HIDE DEF r, q, n
    <2> QED
      BY <1>1, <1>3
  <1>6. n <= r + InCap + BufSize + OutCap
    BY DEF BoundInv, WindowInv
  <1>7. /\ outq[o] # <<>> => ~eof[o]
        /\ eof[s] => pc = "returned"
        /\ result = "none" <=> pc # "returned"
        /\ result = EofOf(s) => tail[s] # "open"
    BY <1>0 DEF ControlInv
  <1>8. ASSUME result = EofOf(s), eof[o] \/ (~dead[o] /\ outq[o] = <<>>)
        PROVE  r = n
    <2>1. result \in CloseReason
      BY <1>8, SideFacts
    <2>2. /\ forwarded[s] = n
          /\ eof[o] => r = forwarded[s]
          /\ ~dead[o] => r + q = forwarded[s]
      BY <1>0, <1>8, <2>1 DEF CountInv
    <2>3. outq[o] = <<>> => q = 0
      OBVIOUS
    <2> HIDE DEF r, q, n
    <2> QED
      BY <1>1, <1>8, <2>2, <2>3
  <1> QED
    BY <1>0, <1>1, <1>2, <1>4, <1>5, <1>6, <1>7, <1>8

(* A step of pump, or its sudden end, moves no byte over the end of a      *)
(* connection that another process sees; if it reports an EOF, that side   *)
(* had sent one.                                                           *)
LEMMA PumpStepView ==
  ASSUME BoundInv, PumpStep \/ Exit
  PROVE  /\ pc # "returned" /\ UNCHANGED <<sent, recv, tail, eof, dead>>
         /\ \/ result' = result
            \/ result' \in {"Error", "Killed", "IdleTimeout"}
            \/ \E s \in Sides : result' = EofOf(s) /\ tail[s] = "fin"
  BY DEF PumpStep, ReadSome, ReadEof, ReadErr, IdleFire, WriteSome, WriteErr,
         Exit, Return, endVars

-----------------------------------------------------------------------------
(* What is proved of every relay is proved of a pump.                      *)
RP == INSTANCE RelayProofs WITH
        sent <- sent, recv <- recv,
        done <- [s \in Sides |-> tail[s] # "open"],
        verdict <- [s \in Sides |-> PromisedEnd(s)]

LEMMA RelaySame ==
  /\ R!Init <=> RP!Init
  /\ [R!Next]_(R!vars) <=> [RP!Next]_(RP!vars)
  /\ R!RelayInv <=> RP!RelayInv
  BY DEF R!Init, RP!Init, R!Next, RP!Next, R!vars, RP!vars, R!Sides, RP!Sides,
         R!Other, RP!Other, R!Send, RP!Send, R!Finish, RP!Finish,
         R!Break, RP!Break, R!Deliver, RP!Deliver,
         R!EndComplete, RP!EndComplete, R!EndCut, RP!EndCut,
         R!RelayInv, RP!RelayInv, R!RelayTypeOK, RP!RelayTypeOK,
         R!Verdicts, RP!Verdicts

LEMMA IsRelay == Spec => RP!Spec
  <1>1. R!Spec <=> RP!Spec
    BY RelaySame, PTL DEF R!Spec, RP!Spec
  <1> QED
    BY <1>1, PumpImplementsRelay DEF RelaySpec

(* Through a pump each endpoint reads a prefix of what the other one       *)
(* wrote; and when pump reports that the other one ended its stream and    *)
(* this one has read its end, it has all of it, whatever happens to the    *)
(* sockets afterwards.                                                     *)
THEOREM PumpKeepsPromise == Spec => []R!RelayInv
  <1>1. RP!Spec => []RP!RelayInv
    BY RP!RelayInvariant
  <1> QED
    BY <1>1, IsRelay, RelaySame, PTL

(* Nothing that an endpoint has read through a pump is taken back, it      *)
(* reads nothing after its end of stream or a reset, and what that end     *)
(* means never changes, though the socket may be reset after the FIN.      *)
THEOREM PumpIrrevocable == Spec => R!Irrevocable
  <1>1. RP!Spec => RP!Irrevocable
    BY RP!RelayIrrevocable
  <1>2. RP!Irrevocable <=> R!Irrevocable
    BY DEF RP!Irrevocable, R!Irrevocable, RP!vars, R!vars, RP!Sides, R!Sides,
           RP!Other, R!Other
  <1> QED
    BY <1>1, <1>2, IsRelay, PTL

=============================================================================
