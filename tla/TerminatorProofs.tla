-------------------------- MODULE TerminatorProofs --------------------------
(***************************************************************************)
(* The safety of Terminator for every set of configurations, every number  *)
(* of sessions and every descriptor limit.                                 *)
(***************************************************************************)
EXTENDS Terminator, AoPolicyProofs, FiniteSetTheorems, TLAPS

USE DEF None

-----------------------------------------------------------------------------
(* Descriptors.                                                            *)

(* No session holds a descriptor when none runs.                           *)
LEMMA NoneHeld ==
  ASSUME \A c \in Conns : conn[c].stage \notin Running
  PROVE  Cardinality(WithWire) = 0 /\ Cardinality(WithPlain) = 0
<1>1. WithWire = {} /\ WithPlain = {}
  BY DEF WithWire, WithPlain, Running
<1> QED
  BY <1>1, FS_EmptySet

(* How many descriptors the task of a session at a stage holds.            *)
Weight(stage) ==
  IF stage \in {"connect", "pump"} THEN 2 ELSE IF stage \in Running THEN 1 ELSE 0

(* A step that changes one session takes and gives back what it holds.     *)
LEMMA FdStep ==
  ASSUME FdInv, NEW c \in Conns,
         \A d \in Conns \ {c} : conn'[d].stage = conn[d].stage,
         UNCHANGED proc, fds \in Nat, fds' \in Int,
         fds' + Weight(conn[c].stage) = fds + Weight(conn'[c].stage),
         proc \in {"start", "bind", "exited"} => fds' = fds
  PROVE  FdInv' /\ fds' \in Nat
<1> DEFINE f == [d \in Conns |-> conn[d].stage]
           g == [d \in Conns |-> conn'[d].stage]
           wf == One(f[c], Running)
           wg == One(g[c], Running)
           pf == One(f[c], {"connect", "pump"})
           pg == One(g[c], {"connect", "pump"})
           W0 == Cardinality(WithWire)
           W1 == Cardinality(WithWire')
           P0 == Cardinality(WithPlain)
           P1 == Cardinality(WithPlain')
<1>1. /\ WithWire = At(Conns, f, Running)
      /\ WithWire' = At(Conns, g, Running)
      /\ WithPlain = At(Conns, f, {"connect", "pump"})
      /\ WithPlain' = At(Conns, g, {"connect", "pump"})
  BY DEF WithWire, WithPlain, At
<1>2. \A d \in Conns \ {c} : g[d] = f[d]
  OBVIOUS
<1>3. f[c] = conn[c].stage /\ g[c] = conn'[c].stage
  OBVIOUS
<1> HIDE DEF f, g
<1>4. W0 \in Nat /\ W1 \in Nat /\ W1 + wf = W0 + wg
  BY <1>1, <1>2, ConnsAssumption, CountStep
<1>5. P0 \in Nat /\ P1 \in Nat /\ P1 + pf = P0 + pg
  BY <1>1, <1>2, ConnsAssumption, CountStep
<1>6. /\ Weight(conn[c].stage) = wf + pf
      /\ Weight(conn'[c].stage) = wg + pg
      /\ wf \in Nat /\ wg \in Nat /\ pf \in Nat /\ pg \in Nat
  BY <1>3 DEF Weight, Running, One
<1>7. CASE proc \in {"start", "bind", "exited"}
  BY <1>7 DEF FdInv
<1>8. CASE proc \notin {"start", "bind", "exited"}
  <2>1. fds = 1 + W0 + P0
    BY <1>8 DEF FdInv
  <2>2. fds' + (wf + pf) = fds + (wg + pg)
    BY <1>6
  <2>3. fds' = 1 + W1 + P1
    <3> HIDE DEF wf, wg, pf, pg, W0, W1, P0, P1
    <3>1. \A a, b \in Int, n \in Nat : a + n = b + n => a = b
      OBVIOUS
    <3>2. wf \in Nat /\ wg \in Nat /\ pf \in Nat /\ pg \in Nat
      BY <1>6
    <3>3. (1 + W1 + P1) + (wf + pf) = (1 + W0 + P0) + (wg + pg)
      BY <3>2, <1>4, <1>5
    <3>4. fds' + (wf + pf) = (1 + W0 + P0) + (wg + pg)
      BY <2>1, <2>2
    <3>5. 1 + W1 + P1 \in Int /\ wf + pf \in Nat
      BY <3>2, <1>4, <1>5
    <3> QED
      BY <3>1, <3>3, <3>4, <3>5
  <2>4. fds' \in Nat
    BY <2>3, <1>4, <1>5
  <2> QED
    BY <1>8, <2>3, <2>4 DEF FdInv
<1> QED
  BY <1>7, <1>8

-----------------------------------------------------------------------------
(* Steps that change one session.                                          *)

LEMMA ConfigFacts ==
  ASSUME TypeOK
  PROVE  /\ cfg.policies \in Seq(Entries)
         /\ {cfg.bypass, cfg.best_effort} \subseteq BOOLEAN
         /\ DOMAIN cfg.policies \subseteq Nat \ {0}
<1>1. ConfigOk(cfg)
  BY ConfigsAssumption DEF TypeOK
<1> QED
  BY <1>1 DEF ConfigOk

(* It is enough to look at that session, and at the descriptors.           *)
LEMMA OneSession ==
  ASSUME TerminatorInv, UNCHANGED procVars, NEW c \in Conns,
         conn' \in [Conns -> ConnType],
         \A d \in Conns \ {c} : conn'[d] = conn[d],
         ConnInv(c)',
         fds' \in Int, fds' <= FdLimit,
         fds' + Weight(conn[c].stage) = fds + Weight(conn'[c].stage),
         proc \in {"start", "bind", "exited"} => fds' = fds,
         backlog' \in Seq(Conns), BacklogInv'
  PROVE  TerminatorInv'
<1>1. FdInv' /\ fds' \in Nat
  <2>1. fds \in Nat
    BY DEF TerminatorInv, TypeOK
  <2> QED
    BY <2>1, FdStep DEF TerminatorInv, procVars
<1>2. TypeOK'
  BY <1>1, FdLimitAssumption DEF TerminatorInv, TypeOK, procVars, setupVars
<1>3. SetupInv'
  BY DEF TerminatorInv, SetupInv, ListensGuarded, HasFamily, procVars, setupVars
<1>4. ASSUME NEW d \in Conns PROVE ConnInv(d)'
  <2>1. CASE d = c
    BY <2>1
  <2>2. CASE d # c
    BY <2>2 DEF TerminatorInv, ConnInv, procVars, setupVars
  <2> QED
    BY <2>1, <2>2
<1> QED
  BY <1>1, <1>2, <1>3, <1>4 DEF TerminatorInv

(* A task runs only in a process that listens, and a step of it leaves the *)
(* backlog as it is.                                                       *)
LEMMA RunningFacts ==
  ASSUME TerminatorInv, NEW c \in Conns, conn[c].stage \in Running
  PROVE  /\ proc = "listening"
         /\ conn[c] \in ConnType /\ ConnInv(c)
         /\ fds \in 0..FdLimit /\ FdLimit \in Nat
         /\ backlog \in Seq(Conns)
         /\ \A k \in DOMAIN backlog : backlog[k] # c
BY FdLimitAssumption
DEF TerminatorInv, TypeOK, ConnInv, BacklogInv, Running

LEMMA BacklogKept ==
  ASSUME BacklogInv, UNCHANGED backlog, NEW c,
         \A k \in DOMAIN backlog : backlog[k] # c /\ backlog[k] \in Conns,
         \A d \in Conns \ {c} : conn'[d] = conn[d]
  PROVE  BacklogInv'
BY DEF BacklogInv

(* handle_connection gives up, or is done: the descriptors it held go back.*)
LEMMA ReturnKeeps ==
  ASSUME TerminatorInv, NEW c \in Conns, conn[c].stage \in Running,
         NEW stage \in Ended, NEW error \in {"none", "NoPolicyForPeer", "TcpAo", "Io"},
         Return(c, stage, error)
  PROVE  TerminatorInv'
<1> DEFINE r == [conn[c] EXCEPT !.stage = stage, !.error = error]
<1>0. /\ proc = "listening"
      /\ conn[c] \in ConnType /\ ConnInv(c)
      /\ fds \in 0..FdLimit /\ FdLimit \in Nat
      /\ backlog \in Seq(Conns)
      /\ \A k \in DOMAIN backlog : backlog[k] # c
  BY RunningFacts
<1> USE <1>0
<1>1. r \in ConnType
  <2>1. stage \in Stages
    BY DEF Stages
  <2> QED
    BY <2>1 DEF ConnType
<1>2. conn' = [conn EXCEPT ![c] = r]
  BY DEF Return, TerminatorInv, TypeOK, ConnType
<1>3. /\ conn' \in [Conns -> ConnType]
      /\ conn'[c] = r
      /\ \A d \in Conns \ {c} : conn'[d] = conn[d]
  <2> HIDE DEF r
  <2> QED
    BY <1>1, <1>2 DEF TerminatorInv, TypeOK
<1>4. ConnInv(c)'
  <2>1. UNCHANGED <<cfg, installed, proc>>
    BY DEF Return, procVars, setupVars
  <2>2. /\ r.stage = stage /\ r.ip = conn[c].ip /\ r.signed = conn[c].signed
        /\ r.info = conn[c].info /\ r.policy = conn[c].policy
        /\ r.contacted = conn[c].contacted
    BY DEF ConnType
  <2>3. /\ stage \notin {"free", "backlog"} \cup Running \cup Chosen \cup Verified
        /\ conn[c].stage # "free"
    BY DEF Ended, Running, Chosen, Verified
  <2> HIDE DEF r
  <2>4. ConnInv(c)
    OBVIOUS
  <2> QED
    BY <1>3, <2>1, <2>2, <2>3, <2>4 DEF ConnInv
<1>5. /\ Weight(conn[c].stage) = Sockets(c)
      /\ Weight(conn'[c].stage) = 0
      /\ Sockets(c) \in Nat
  BY <1>1, <1>3 DEF ConnType, Weight, Sockets, Running, Ended
<1>6. /\ fds' \in Int /\ fds' <= FdLimit
      /\ fds' + Weight(conn[c].stage) = fds + Weight(conn'[c].stage)
  BY <1>5 DEF Return
<1>7. BacklogInv'
  <2>1. \A k \in DOMAIN backlog : backlog[k] # c /\ backlog[k] \in Conns
    OBVIOUS
  <2> QED
    BY <1>3, <2>1, BacklogKept DEF Return, TerminatorInv
<1> QED
  BY <1>3, <1>4, <1>6, <1>7, OneSession DEF Return, procVars

(* A step of the task that goes on: what changes of its record is given.   *)
LEMMA GoesOn ==
  ASSUME TerminatorInv, NEW c \in Conns, conn[c].stage \in Running,
         UNCHANGED <<procVars, backlog>>,
         NEW r \in ConnType, conn' = [conn EXCEPT ![c] = r],
         r.stage \in Running, ConnInv(c)',
         fds' \in Int, fds' <= FdLimit,
         fds' + Weight(conn[c].stage) = fds + Weight(r.stage)
  PROVE  TerminatorInv'
<1> USE RunningFacts
<1>1. /\ conn' \in [Conns -> ConnType]
      /\ conn'[c] = r
      /\ \A d \in Conns \ {c} : conn'[d] = conn[d]
  BY DEF TerminatorInv, TypeOK
<1>2. BacklogInv'
  <2>1. \A k \in DOMAIN backlog : backlog[k] # c /\ backlog[k] \in Conns
    OBVIOUS
  <2> QED
    BY <1>1, <2>1, BacklogKept DEF TerminatorInv
<1> QED
  BY <1>1, <1>2, OneSession

LEMMA SelectPolicyKeeps ==
  ASSUME TerminatorInv, NEW c \in Conns, SelectPolicyFor(c)
  PROVE  TerminatorInv'
<1> DEFINE p == SelectPolicy(cfg.policies, conn[c].ip, NoPort)
           r == [conn[c] EXCEPT !.policy = p, !.stage = "verify"]
<1>1. conn[c].stage = "select" /\ conn[c].stage \in Running
  BY DEF SelectPolicyFor, Running
<1>2. CASE p = None
  <2>1. Fail(c, "NoPolicyForPeer")
    BY <1>2 DEF SelectPolicyFor
  <2> QED
    BY <1>1, <2>1, ReturnKeeps DEF Fail, Ended
<1>3. CASE p # None
  <2>1. /\ conn' = [conn EXCEPT ![c] = r]
        /\ UNCHANGED <<procVars, fds, backlog>>
    BY <1>3 DEF SelectPolicyFor, TerminatorInv, TypeOK, ConnType
  <2>2. p \in Nat
    BY ConfigFacts, SelectedNat DEF TerminatorInv
  <2>3. r \in ConnType
    <3>1. conn[c] \in ConnType
      BY DEF TerminatorInv, TypeOK
    <3> HIDE DEF p
    <3> QED
      BY <2>2, <3>1 DEF ConnType, Stages, Running
  <2>4. conn'[c] = r
    BY <2>1 DEF TerminatorInv, TypeOK
  <2>5. ConnInv(c)'
    BY <1>1, <1>3, <2>1, <2>4, RunningFacts
    DEF ConnInv, ConnType, procVars, setupVars, Running, Chosen, Verified
  <2>6. r.stage = "verify"
    BY <1>1, RunningFacts DEF ConnType
  <2>7. /\ fds' \in Int /\ fds' <= FdLimit
        /\ fds' + Weight(conn[c].stage) = fds + Weight(r.stage)
    BY <1>1, <2>1, <2>6, RunningFacts DEF Weight, Running
  <2> HIDE DEF r
  <2> QED
    BY <1>1, <2>1, <2>3, <2>5, <2>6, <2>7, GoesOn DEF Running
<1> QED
  BY <1>2, <1>3

LEMMA VerifyKeeps ==
  ASSUME TerminatorInv, NEW c \in Conns, VerifyInbound(c)
  PROVE  TerminatorInv'
<1>1. conn[c].stage = "verify" /\ conn[c].stage \in Running
  BY DEF VerifyInbound, Running
<1>2. ASSUME NEW info \in {"none", "required", "optional", "missing", "error"},
             conn' = [conn EXCEPT ![c].info = info, ![c].stage = "open"],
             UNCHANGED <<procVars, fds, backlog>>,
             ~cfg.bypass => info = "required" \/ (info = "missing" /\ cfg.best_effort)
      PROVE  TerminatorInv'
  <2> DEFINE r == [conn[c] EXCEPT !.info = info, !.stage = "open"]
  <2>1. conn' = [conn EXCEPT ![c] = r]
    BY <1>2 DEF TerminatorInv, TypeOK, ConnType
  <2>2. r \in ConnType /\ r.stage = "open"
    <3>1. conn[c] \in ConnType
      BY DEF TerminatorInv, TypeOK
    <3> QED
      BY <1>2, <3>1 DEF ConnType, Stages, Running
  <2>3. conn'[c] = r
    BY <2>1 DEF TerminatorInv, TypeOK
  <2>4. ConnInv(c)'
    <3>1. UNCHANGED <<cfg, installed, proc>>
      BY <1>2 DEF procVars, setupVars
    <3>2. conn[c] \in ConnType /\ ConnInv(c) /\ proc = "listening"
      BY <1>1, RunningFacts
    <3>3. /\ r.info = info
            /\ r.ip = conn[c].ip
            /\ r.signed = conn[c].signed
            /\ r.policy = conn[c].policy
            /\ r.contacted = conn[c].contacted
      BY <3>2 DEF ConnType
    <3> HIDE DEF r
    <3> QED
      BY <1>1, <2>2, <2>3, <1>2, <3>1, <3>2, <3>3
      DEF ConnInv, Running, Chosen, Verified
  <2>5. /\ fds' \in Int /\ fds' <= FdLimit
        /\ fds' + Weight(conn[c].stage) = fds + Weight(r.stage)
    BY <1>1, <1>2, <2>2, RunningFacts DEF Weight, Running
  <2> HIDE DEF r
  <2> QED
    BY <1>1, <1>2, <2>1, <2>2, <2>4, <2>5, GoesOn DEF Running
<1>3. CASE cfg.bypass /\ Goto(c, "open")
  <2>1. conn[c] \in ConnType /\ conn \in [Conns -> ConnType]
    BY DEF TerminatorInv, TypeOK
  <2>2. conn' = [conn EXCEPT ![c].info = conn[c].info, ![c].stage = "open"]
    BY <1>3, <2>1 DEF Goto, ConnType
  <2>3. conn[c].info \in {"none", "required", "optional", "missing", "error"}
    BY <2>1 DEF ConnType
  <2> QED
    BY <1>2, <1>3, <2>2, <2>3 DEF Goto
<1>4. CASE ~cfg.bypass
  <2>1. PICK info \in AoInfo(c) :
          IF info = "required" \/ (info = "missing" /\ cfg.best_effort)
            THEN /\ conn' = [conn EXCEPT ![c].info = info, ![c].stage = "open"]
                 /\ UNCHANGED <<procVars, fds, backlog>>
            ELSE Fail(c, "TcpAo")
    BY <1>4 DEF VerifyInbound, Passes
  <2>2. info \in {"none", "required", "optional", "missing", "error"}
    BY DEF AoInfo
  <2>3. CASE Fail(c, "TcpAo")
    BY <1>1, <2>3, ReturnKeeps DEF Fail, Ended
  <2> QED
    BY <1>2, <2>1, <2>2, <2>3
<1> QED
  BY <1>3, <1>4 DEF VerifyInbound

LEMMA OpenBackendKeeps ==
  ASSUME TerminatorInv, NEW c \in Conns, OpenBackend(c)
  PROVE  TerminatorInv'
<1> DEFINE r == [conn[c] EXCEPT !.stage = "connect", !.contacted = TRUE]
<1>1. conn[c].stage = "open" /\ conn[c].stage \in Running
  BY DEF OpenBackend, Running
<1>2. CASE Fail(c, "Io")
  BY <1>1, <1>2, ReturnKeeps DEF Fail, Ended
<1>3. CASE /\ fds < FdLimit /\ Applies(cfg.keepalive)
           /\ conn' = [conn EXCEPT ![c].stage = "connect", ![c].contacted = TRUE]
           /\ fds' = fds + 1
           /\ UNCHANGED <<procVars, backlog>>
  <2>1. conn' = [conn EXCEPT ![c] = r]
    BY <1>3 DEF TerminatorInv, TypeOK, ConnType
  <2>2. r \in ConnType /\ r.stage = "connect"
    BY <1>1, RunningFacts DEF ConnType, Stages, Running
  <2>3. conn'[c] = r
    BY <2>1 DEF TerminatorInv, TypeOK
  <2>4. ConnInv(c)'
    <3>1. UNCHANGED <<cfg, installed, proc>>
      BY <1>3 DEF procVars, setupVars
    <3>2. conn[c] \in ConnType /\ ConnInv(c) /\ proc = "listening"
      BY <1>1, RunningFacts
    <3>3. /\ r.contacted
            /\ r.ip = conn[c].ip
            /\ r.signed = conn[c].signed
            /\ r.policy = conn[c].policy
            /\ r.info = conn[c].info
      BY <3>2 DEF ConnType
    <3> HIDE DEF r
    <3> QED
      BY <1>1, <1>3, <2>2, <2>3, <3>1, <3>2, <3>3
      DEF ConnInv, Running, Chosen, Verified
  <2>5. /\ fds' \in Int /\ fds' <= FdLimit
        /\ fds' + Weight(conn[c].stage) = fds + Weight(r.stage)
    BY <1>1, <1>3, <2>2, RunningFacts DEF Weight, Running
  <2> HIDE DEF r
  <2> QED
    BY <1>1, <1>3, <2>1, <2>2, <2>4, <2>5, GoesOn DEF Running
<1> QED
  BY <1>2, <1>3 DEF OpenBackend

LEMMA ConnectedKeeps ==
  ASSUME TerminatorInv, NEW c \in Conns, Connected(c)
  PROVE  TerminatorInv'
<1> DEFINE r == [conn[c] EXCEPT !.stage = "pump"]
<1>1. conn[c].stage = "connect" /\ conn[c].stage \in Running
  BY DEF Connected, Running
<1>2. CASE Fail(c, "Io")
  BY <1>1, <1>2, ReturnKeeps DEF Fail, Ended
<1>3. CASE Goto(c, "pump")
  <2>1. conn' = [conn EXCEPT ![c] = r] /\ UNCHANGED <<procVars, fds, backlog>>
    BY <1>3 DEF Goto, TerminatorInv, TypeOK, ConnType
  <2>2. r \in ConnType /\ r.stage = "pump"
    BY <1>1, RunningFacts DEF ConnType, Stages, Running
  <2>3. conn'[c] = r
    BY <2>1 DEF TerminatorInv, TypeOK
  <2>4. ConnInv(c)'
    BY <1>1, <2>1, <2>3, RunningFacts
    DEF ConnInv, ConnType, procVars, setupVars, Running, Chosen, Verified
  <2>5. /\ fds' \in Int /\ fds' <= FdLimit
        /\ fds' + Weight(conn[c].stage) = fds + Weight(r.stage)
    BY <1>1, <2>1, <2>2, RunningFacts DEF Weight, Running
  <2> HIDE DEF r
  <2> QED
    BY <1>1, <2>1, <2>2, <2>4, <2>5, GoesOn DEF Running
<1> QED
  BY <1>2, <1>3 DEF Connected

LEMMA PumpReturnsKeeps ==
  ASSUME TerminatorInv, NEW c \in Conns, PumpReturns(c)
  PROVE  TerminatorInv'
BY ReturnKeeps DEF PumpReturns, Fail, Running, Ended

LEMMA TaskKeeps ==
  ASSUME TerminatorInv, NEW c \in Conns, Task(c)
  PROVE  TerminatorInv'
BY SelectPolicyKeeps, VerifyKeeps, OpenBackendKeeps, ConnectedKeeps,
   PumpReturnsKeeps DEF Task, SetUp

-----------------------------------------------------------------------------
(* Steps of the listener and of its peers.                                 *)

LEMMA AcceptKeeps ==
  ASSUME TerminatorInv, Accept
  PROVE  TerminatorInv'
<1>0. PICK c : c = Head(backlog)
  OBVIOUS
<1> DEFINE r == [conn[c] EXCEPT !.stage = "select"]
<1>1. /\ backlog \in Seq(Conns) /\ backlog # <<>>
      /\ conn \in [Conns -> ConnType] /\ fds \in Nat /\ FdLimit \in Nat
      /\ proc = "listening"
  BY FdLimitAssumption DEF Accept, TerminatorInv, TypeOK
<1>2. /\ 1 \in DOMAIN backlog /\ c = backlog[1] /\ c \in Conns
      /\ conn[c] \in ConnType /\ conn[c].stage = "backlog"
  BY <1>0, <1>1 DEF TerminatorInv, BacklogInv
<1>3. conn' = [conn EXCEPT ![c] = r]
  BY <1>0, <1>1 DEF Accept
<1>4. r \in ConnType /\ r.stage = "select"
  BY <1>2 DEF ConnType, Stages, Running
<1>5. /\ conn' \in [Conns -> ConnType]
      /\ conn'[c] = r
      /\ \A d \in Conns \ {c} : conn'[d] = conn[d]
  <2> HIDE DEF r
  <2> QED
    BY <1>1, <1>2, <1>3, <1>4
<1>6. ConnInv(c)'
  <2>1. UNCHANGED <<cfg, installed, proc>>
    BY DEF Accept, procVars, setupVars
  <2>2. /\ r.ip = conn[c].ip /\ r.signed = conn[c].signed
        /\ r.info = conn[c].info /\ r.policy = conn[c].policy
        /\ r.contacted = conn[c].contacted
    BY <1>2 DEF ConnType
  <2>3. ConnInv(c)
    BY <1>2 DEF TerminatorInv
  <2> HIDE DEF r
  <2> QED
    BY <1>1, <1>2, <1>4, <1>5, <2>1, <2>2, <2>3
    DEF ConnInv, Chosen, Verified, Running
<1>7. backlog' \in Seq(Conns) /\ BacklogInv'
  <2>1. backlog' = Tail(backlog) /\ backlog' \in Seq(Conns)
    BY <1>1 DEF Accept
  <2>2. \A k \in DOMAIN backlog' :
          /\ k \in Nat \ {0} /\ k + 1 \in DOMAIN backlog
          /\ backlog'[k] = backlog[k + 1]
    BY <1>1, <2>1
  <2>3. \A k \in DOMAIN backlog : backlog[k] \in Conns
    BY <1>1
  <2>4. \A k \in DOMAIN backlog' : backlog'[k] \in Conns \ {c}
    BY <1>2, <2>2, <2>3 DEF TerminatorInv, BacklogInv
  <2>5. \A j, k \in DOMAIN backlog' : backlog'[j] = backlog'[k] => j = k
    BY <2>2 DEF TerminatorInv, BacklogInv
  <2>6. \A k \in DOMAIN backlog' : conn[backlog'[k]].stage = "backlog"
    BY <2>2 DEF TerminatorInv, BacklogInv
  <2> HIDE DEF r
  <2> QED
    BY <1>5, <2>1, <2>4, <2>5, <2>6 DEF BacklogInv
<1>8. /\ fds' \in Int /\ fds' <= FdLimit
      /\ fds' + Weight(conn[c].stage) = fds + Weight(conn'[c].stage)
  BY <1>1, <1>2, <1>4, <1>5 DEF Accept, Weight, Running
<1> HIDE DEF r
<1> QED
  BY <1>1, <1>2, <1>5, <1>6, <1>7, <1>8, OneSession DEF Accept

(* A handshake the kernel completes: under a guarded listener it is signed.*)
LEMMA HandshakeKeeps ==
  ASSUME TerminatorInv, NEW c \in Conns, NEW ip \in Ips,
         NEW i \in {None} \cup DOMAIN cfg.policies, Handshake(c, ip, i)
  PROVE  TerminatorInv'
<1> DEFINE r == [Free EXCEPT !.stage = "backlog", !.ip = ip, !.signed = i]
<1>1. /\ proc = "listening" /\ conn[c].stage = "free"
      /\ conn \in [Conns -> ConnType] /\ backlog \in Seq(Conns)
      /\ fds \in 0..FdLimit /\ FdLimit \in Nat
      /\ installed \subseteq DOMAIN cfg.policies
      /\ DOMAIN cfg.policies \subseteq Nat \ {0}
      /\ BacklogInv
  BY FdLimitAssumption, ConfigFacts DEF Handshake, TerminatorInv, TypeOK
<1>2. /\ conn' = [conn EXCEPT ![c] = r]
      /\ backlog' = Append(backlog, c)
      /\ UNCHANGED <<procVars, fds>>
  BY DEF Handshake
<1>3. /\ r.stage = "backlog" /\ r.ip = ip /\ r.signed = i /\ ~r.contacted
      /\ r \in ConnType
  <2>1. i \in Nat /\ ip \in Ips \cup {None}
    BY <1>1
  <2>2. "backlog" \in Stages
    BY DEF Stages
  <2> QED
    BY <2>1, <2>2 DEF Free, ConnType
<1> HIDE DEF r
<1>4. /\ conn' \in [Conns -> ConnType]
      /\ conn'[c] = r
      /\ \A d \in Conns \ {c} : conn'[d] = conn[d]
  BY <1>1, <1>2, <1>3
<1>5. ConnInv(c)'
  <2>1. i # None => i \in installed /\ Covers(cfg.policies[i], ip)
    BY <1>1 DEF Handshake
  <2>2. ~cfg.bypass => i # None
    BY <1>1 DEF Handshake, TerminatorInv, SetupInv, ListensGuarded
  <2>3. UNCHANGED <<cfg, installed, proc>>
    BY <1>2 DEF procVars, setupVars
  <2> QED
    BY <1>1, <1>3, <1>4, <2>1, <2>2, <2>3 DEF ConnInv, Chosen, Verified
<1>6. backlog' \in Seq(Conns) /\ BacklogInv'
  <2>1. /\ backlog' \in Seq(Conns)
        /\ \A k \in DOMAIN backlog' :
             \/ k \in DOMAIN backlog /\ backlog'[k] = backlog[k]
             \/ k = Len(backlog) + 1 /\ backlog'[k] = c
    BY <1>1, <1>2
  <2>2. \A k \in DOMAIN backlog : backlog[k] \in Conns \ {c}
    BY <1>1 DEF BacklogInv
  <2> QED
    BY <1>1, <1>3, <1>4, <2>1, <2>2 DEF BacklogInv
<1>7. /\ fds' \in Int /\ fds' <= FdLimit
      /\ fds' + Weight(conn[c].stage) = fds + Weight(conn'[c].stage)
  BY <1>1, <1>2, <1>3, <1>4 DEF Weight, Running
<1> QED
  BY <1>1, <1>2, <1>4, <1>5, <1>6, <1>7, OneSession

LEMMA ForgetKeeps ==
  ASSUME TerminatorInv, NEW c \in Conns, Forget(c)
  PROVE  TerminatorInv'
<1>1. /\ conn[c].stage \in Ended
      /\ conn \in [Conns -> ConnType] /\ backlog \in Seq(Conns)
      /\ fds \in 0..FdLimit /\ FdLimit \in Nat
      /\ conn' = [conn EXCEPT ![c] = Free]
      /\ UNCHANGED <<procVars, fds, backlog>>
      /\ BacklogInv
  BY FdLimitAssumption DEF Forget, TerminatorInv, TypeOK
<1>2. Free \in ConnType /\ Free.stage = "free" /\ ~Free.contacted
      /\ Free.signed = None
  BY DEF Free, ConnType, Stages
<1>3. /\ conn' \in [Conns -> ConnType]
      /\ conn'[c] = Free
      /\ \A d \in Conns \ {c} : conn'[d] = conn[d]
  BY <1>1, <1>2
<1>4. ConnInv(c)'
  BY <1>2, <1>3 DEF ConnInv, Chosen, Verified, Running
<1>5. BacklogInv'
  <2>1. \A k \in DOMAIN backlog : backlog[k] # c /\ backlog[k] \in Conns
    BY <1>1 DEF BacklogInv, Ended
  <2> QED
    BY <1>1, <1>3, <2>1, BacklogKept
<1>6. /\ fds' \in Int /\ fds' <= FdLimit
      /\ fds' + Weight(conn[c].stage) = fds + Weight(conn'[c].stage)
  BY <1>1, <1>2, <1>3 DEF Weight, Running, Ended
<1> QED
  BY <1>1, <1>3, <1>4, <1>5, <1>6, OneSession

-----------------------------------------------------------------------------
(* The end of the process, and its start.                                  *)

LEMMA ExitKeeps ==
  ASSUME TerminatorInv, NEW error \in {"none", "Config", "AddrParse", "TcpAo", "Io"},
         Exit(error)
  PROVE  TerminatorInv'
<1>1. /\ proc' = "exited" /\ failure' = error /\ fds' = 0 /\ backlog' = <<>>
      /\ UNCHANGED <<cfg, next, installed, required>>
  BY DEF Exit, setupVars
<1>2. conn \in [Conns -> ConnType]
  BY DEF TerminatorInv, TypeOK
<1>3. ASSUME NEW c \in Conns
      PROVE  /\ conn'[c] \in ConnType
             /\ conn'[c].stage \in Ended \cup {"free"}
             /\ ConnInv(c)'
  <2>0. ConnInv(c) /\ conn[c] \in ConnType
    BY <1>2 DEF TerminatorInv
  <2>1. CASE conn[c].stage \in Ended \cup {"free"}
    <3>1. conn'[c] = conn[c]
      BY <2>1 DEF Exit
    <3> QED
      BY <1>1, <2>0, <2>1, <3>1 DEF ConnInv, Ended, Running
  <2>2. CASE conn[c].stage \notin Ended \cup {"free"}
    <3> DEFINE r == [conn[c] EXCEPT !.stage = "killed"]
    <3>1. conn'[c] = r
      BY <2>2 DEF Exit
    <3>2. /\ r \in ConnType /\ r.stage = "killed"
          /\ r.ip = conn[c].ip /\ r.signed = conn[c].signed
          /\ r.info = conn[c].info /\ r.policy = conn[c].policy
          /\ r.contacted = conn[c].contacted
      BY <2>0 DEF ConnType, Stages, Ended
    <3> HIDE DEF r
    <3> QED
      BY <1>1, <2>0, <2>2, <3>1, <3>2
      DEF ConnInv, Ended, Running, Chosen, Verified
  <2> QED
    BY <2>1, <2>2
<1>4. TypeOK'
  <2>1. conn' \in [Conns -> ConnType]
    BY <1>3 DEF Exit
  <2> QED
    BY <1>1, <2>1, FdLimitAssumption DEF TerminatorInv, TypeOK
<1>5. SetupInv'
  BY <1>1 DEF TerminatorInv, SetupInv, ListensGuarded
<1>6. FdInv'
  BY <1>1 DEF FdInv
<1>7. BacklogInv'
  BY <1>1 DEF BacklogInv
<1> QED
  BY <1>3, <1>4, <1>5, <1>6, <1>7 DEF TerminatorInv

(* A step of run() before it listens: no session is affected.              *)
LEMMA SetupStep ==
  ASSUME TerminatorInv, proc \in {"start", "bind", "configure", "listen"},
         UNCHANGED <<cfg, conn, backlog, failure>>,
         proc' \in {"start", "bind", "configure", "listen", "listening"},
         next' \in Nat, installed \subseteq installed',
         installed' \subseteq DOMAIN cfg.policies, required' \in BOOLEAN,
         SetupInv',
         fds' = IF proc' \in {"start", "bind"} THEN 0 ELSE 1
  PROVE  TerminatorInv'
<1>1. \A c \in Conns : conn[c].stage \notin {"backlog"} \cup Running
  BY DEF TerminatorInv, ConnInv
<1>2. TypeOK'
  BY FdLimitAssumption DEF TerminatorInv, TypeOK
<1>3. ASSUME NEW c \in Conns PROVE ConnInv(c)'
  BY <1>1 DEF TerminatorInv, ConnInv
<1>4. FdInv'
  <2>1. Cardinality(WithWire) = 0 /\ Cardinality(WithPlain) = 0
    BY <1>1, NoneHeld
  <2>2. WithWire' = WithWire /\ WithPlain' = WithPlain
    BY DEF WithWire, WithPlain
  <2> QED
    BY <2>1, <2>2 DEF FdInv
<1>5. BacklogInv'
  BY DEF TerminatorInv, BacklogInv
<1> QED
  BY <1>2, <1>3, <1>4, <1>5 DEF TerminatorInv

(* What SetupStep says of the state before.                                *)
LEMMA SetupFds ==
  ASSUME TerminatorInv, proc \in {"start", "bind", "configure", "listen"}
  PROVE  /\ fds = IF proc \in {"start", "bind"} THEN 0 ELSE 1
         /\ next \in Nat /\ required \in BOOLEAN
         /\ installed \subseteq DOMAIN cfg.policies
<1>1. \A c \in Conns : conn[c].stage \notin Running
  BY DEF TerminatorInv, ConnInv
<1> QED
  BY <1>1, NoneHeld DEF TerminatorInv, TypeOK, FdInv

LEMMA StartupKeeps ==
  ASSUME TerminatorInv, Startup
  PROVE  TerminatorInv'
<1>1. CASE \E error \in {"none", "Config", "AddrParse", "TcpAo", "Io"} : Exit(error)
  BY <1>1, ExitKeeps
<1>2. ASSUME ~ \E error \in {"none", "Config", "AddrParse", "TcpAo", "Io"} : Exit(error)
      PROVE  TerminatorInv'
  <2>1. CASE Validate
    <3>1. proc = "start" /\ proc' = "bind"
          /\ UNCHANGED <<setupVars, failure, fds, backlog, conn>>
      BY <1>2, <2>1 DEF Validate
    <3>2. SetupInv'
      BY <3>1 DEF TerminatorInv, SetupInv, ListensGuarded, setupVars
    <3> QED
      BY <3>1, <3>2, SetupFds, SetupStep DEF setupVars
  <2>2. CASE Bind
    <3>1. proc = "bind" /\ proc' = "configure" /\ fds' = 1
          /\ UNCHANGED <<setupVars, failure, backlog, conn>>
      BY <1>2, <2>2 DEF Bind
    <3>2. SetupInv'
      BY <3>1, ConfigFacts
      DEF TerminatorInv, SetupInv, ListensGuarded, setupVars
    <3> QED
      BY <3>1, <3>2, SetupFds, SetupStep DEF setupVars
  <2>3. CASE SkipConfigure
    <3>1. proc = "configure" /\ proc' = "listen" /\ cfg.bypass
          /\ UNCHANGED <<setupVars, failure, fds, backlog, conn>>
      BY <2>3 DEF SkipConfigure
    <3>2. SetupInv'
      BY <3>1 DEF TerminatorInv, SetupInv, ListensGuarded, setupVars
    <3> QED
      BY <3>1, <3>2, SetupFds, SetupStep DEF setupVars
  <2>4. CASE InstallKey
    <3>1. /\ proc = "configure" /\ next' = next + 1 /\ next \in DOMAIN cfg.policies
          /\ UNCHANGED <<cfg, proc, required, failure, fds, backlog, conn>>
          /\ \/ ~HasFamily(next) /\ installed' = installed
             \/ /\ HasFamily(next) /\ Usable(cfg.key[next])
                /\ installed' = installed \cup {next}
      BY <1>2, <2>4 DEF InstallKey
    <3>2. SetupInv'
      BY <3>1, ConfigFacts, SetupFds
      DEF TerminatorInv, SetupInv, ListensGuarded, HasFamily
    <3> QED
      BY <3>1, <3>2, SetupFds, SetupStep
  <2>5. CASE RequireAo
    <3>1. /\ proc = "configure" /\ proc' = "listen" /\ required' = TRUE
          /\ next \notin DOMAIN cfg.policies /\ installed # {}
          /\ UNCHANGED <<cfg, next, installed, failure, fds, backlog, conn>>
      BY <1>2, <2>5 DEF RequireAo
    <3>2. \A i \in DOMAIN cfg.policies : i < next
      <4>1. /\ cfg.policies \in Seq(Entries)
            /\ DOMAIN cfg.policies = 1..Len(cfg.policies)
            /\ Len(cfg.policies) \in Nat
            /\ next \in Nat
        BY <3>1, ConfigFacts, SetupFds DEF TerminatorInv
      <4>2. next # 0
        BY <3>1, <4>1 DEF TerminatorInv, SetupInv
      <4> QED
        BY <3>1, <4>1, <4>2
    <3>3. SetupInv'
      BY <3>1, <3>2 DEF TerminatorInv, SetupInv, ListensGuarded, HasFamily
    <3> QED
      BY <3>1, <3>3, SetupFds, SetupStep
  <2>6. CASE Listen
    <3>1. /\ proc = "listen" /\ proc' = "listening"
          /\ UNCHANGED <<setupVars, failure, fds, backlog, conn>>
      BY <1>2, <2>6 DEF Listen
    <3>2. SetupInv'
      BY <3>1 DEF TerminatorInv, SetupInv, ListensGuarded, HasFamily, setupVars
    <3> QED
      BY <3>1, <3>2, SetupFds, SetupStep DEF setupVars
  <2> QED
    BY <2>1, <2>2, <2>3, <2>4, <2>5, <2>6 DEF Startup
<1> QED
  BY <1>1, <1>2

-----------------------------------------------------------------------------
(* The invariant holds.                                                    *)

LEMMA InitEstablishes ==
  ASSUME Init
  PROVE  TerminatorInv
<1>1. ConfigOk(cfg)
  BY ConfigsAssumption DEF Init
<1>2. Free \in ConnType /\ Free.stage = "free" /\ ~Free.contacted
      /\ Free.signed = None
  BY DEF Free, ConnType, Stages
<1>3. TypeOK
  <2>1. backlog \in Seq(Conns) /\ fds \in 0..FdLimit
    BY FdLimitAssumption DEF Init
  <2>2. conn \in [Conns -> ConnType]
    BY <1>2 DEF Init
  <2>3. next \in Nat /\ installed \subseteq DOMAIN cfg.policies
    BY DEF Init
  <2> QED
    BY <2>1, <2>2, <2>3 DEF Init, TypeOK
<1>4. SetupInv
  BY DEF Init, SetupInv, ListensGuarded
<1>5. ASSUME NEW c \in Conns PROVE ConnInv(c)
  BY <1>2 DEF Init, ConnInv, Running, Chosen, Verified
<1>6. FdInv /\ BacklogInv
  BY DEF Init, FdInv, BacklogInv
<1> QED
  BY <1>3, <1>4, <1>5, <1>6 DEF TerminatorInv

LEMMA NextKeeps ==
  ASSUME TerminatorInv, [Next]_vars
  PROVE  TerminatorInv'
<1>1. CASE Startup
  BY <1>1, StartupKeeps
<1>2. CASE Accept
  BY <1>2, AcceptKeeps
<1>3. CASE AcceptError
  BY <1>3, ExitKeeps DEF AcceptError
<1>4. CASE \E c \in Conns : Task(c)
  BY <1>4, TaskKeeps
<1>5. CASE Peers
  BY <1>5, HandshakeKeeps, ForgetKeeps DEF Peers
<1>6. CASE UNCHANGED vars
  BY <1>6
  DEF vars, TerminatorInv, TypeOK, SetupInv, ListensGuarded, HasFamily, ConnInv,
      FdInv, WithWire, WithPlain, BacklogInv
<1> QED
  BY <1>1, <1>2, <1>3, <1>4, <1>5, <1>6 DEF Next

(* What the terminator has set up and what each session has been through   *)
(* fits its state, at every moment.                                        *)
THEOREM TerminatorInvariant == Spec => []TerminatorInv
<1>1. Init => TerminatorInv
  BY InitEstablishes
<1>2. TerminatorInv /\ [Next]_vars => TerminatorInv'
  BY NextKeeps
<1> QED
  BY <1>1, <1>2, PTL DEF Spec

(* Types hold, and no more descriptors are held than the limit allows.     *)
THEOREM TerminatorTypeOK == Spec => []TypeOK
<1>1. TerminatorInv => TypeOK
  BY DEF TerminatorInv
<1> QED
  BY <1>1, TerminatorInvariant, PTL

(* The listener never listens half configured (configure_listener).        *)
THEOREM TerminatorListensGuarded == Spec => []ListensGuarded
<1>1. TerminatorInv => ListensGuarded
  BY DEF TerminatorInv, SetupInv
<1> QED
  BY <1>1, TerminatorInvariant, PTL

(* The backend is never called for a session that is not authenticated,    *)
(* checked and covered by an entry (handle_connection of the terminator).  *)
THEOREM TerminatorFailClosed == Spec => []FailClosed
<1>1. TerminatorInv => FailClosed
  <2> SUFFICES ASSUME TerminatorInv, ~cfg.bypass,
                      NEW c \in Conns, conn[c].contacted
               PROVE  /\ conn[c].signed \in installed
                      /\ Covers(cfg.policies[conn[c].signed], conn[c].ip)
                      /\ \/ conn[c].info = "required"
                         \/ conn[c].info = "missing" /\ cfg.best_effort
                      /\ conn[c].policy \in DOMAIN cfg.policies
                      /\ cfg.policies[conn[c].policy].ip = conn[c].ip
    BY DEF FailClosed
  <2>1. ConnInv(c) /\ cfg.policies \in Seq(Entries) /\ conn[c].stage # "free"
    BY ConfigFacts DEF TerminatorInv, ConnInv, Free
  <2>2. /\ conn[c].policy # None
        /\ conn[c].policy = SelectPolicy(cfg.policies, conn[c].ip, NoPort)
    BY <2>1 DEF ConnInv
  <2>3. /\ conn[c].policy \in DOMAIN cfg.policies
        /\ cfg.policies[conn[c].policy].ip = conn[c].ip
    BY <2>1, <2>2, SelectedForIp
  <2> QED
    BY <2>1, <2>3 DEF ConnInv
<1> QED
  BY <1>1, TerminatorInvariant, PTL

(* The entry named in the log is the one whose key signed the session, or  *)
(* stands in for it as select_policy says.                                 *)
THEOREM TerminatorAttributed == Spec => []Attributed
<1>1. TerminatorInv => Attributed
  <2> SUFFICES ASSUME TerminatorInv, NEW c \in Conns,
                      conn[c].contacted, conn[c].signed # None,
                      conn[c].policy # conn[c].signed,
                      cfg.policies[conn[c].signed].ip \notin Unspecified
               PROVE  /\ cfg.policies[conn[c].signed].ip = cfg.policies[conn[c].policy].ip
                      /\ cfg.policies[conn[c].signed].port # NoPort
                      /\ cfg.policies[conn[c].policy].port = NoPort
    BY DEF Attributed
  <2>1. /\ ConnInv(c) /\ cfg.policies \in Seq(Entries)
        /\ installed \subseteq DOMAIN cfg.policies
    BY ConfigFacts DEF TerminatorInv, TypeOK
  <2>2. /\ conn[c].policy # None
        /\ conn[c].policy = SelectPolicy(cfg.policies, conn[c].ip, NoPort)
        /\ conn[c].signed \in DOMAIN cfg.policies
        /\ Covers(cfg.policies[conn[c].signed], conn[c].ip)
    BY <2>1 DEF ConnInv
  <2>3. cfg.policies[conn[c].signed].ip = conn[c].ip
    BY <2>2 DEF Covers
  <2>4. cfg.policies[conn[c].policy].ip = conn[c].ip
    BY <2>1, <2>2, SelectedForIp
  <2> QED
    BY <2>1, <2>2, <2>3, <2>4, SelectedOther
<1> QED
  BY <1>1, TerminatorInvariant, PTL

(* With two descriptors for each slot, one for the listener and one for    *)
(* accept() to take, the accept loop never meets the limit: it never ends. *)
LEMMA RoomToAccept ==
  ASSUME TerminatorInv, Ample, proc = "listening"
  PROVE  fds < FdLimit
<1> DEFINE n == Cardinality(Conns)
           w == Cardinality(WithWire)
           p == Cardinality(WithPlain)
<1>1. WithWire \subseteq Conns /\ WithPlain \subseteq Conns
  BY DEF WithWire, WithPlain
<1>2. n \in Nat /\ w \in Nat /\ p \in Nat /\ w <= n /\ p <= n
  BY <1>1, ConnsAssumption, FS_Subset, FS_CardinalityType
<1>3. fds = 1 + w + p
  BY DEF TerminatorInv, FdInv
<1>4. FdLimit \in Nat /\ FdLimit >= 2 * n + 2
  BY FdLimitAssumption DEF Ample
<1> HIDE DEF n, w, p
<1> QED
  BY <1>2, <1>3, <1>4

(* The accept loop does not end for want of descriptors, whatever the tasks*)
(* do with theirs (mode_terminator.rs:34, forward.rs).                     *)
THEOREM TerminatorNeverFalls == Spec => NeverFalls
<1>1. TerminatorInv /\ [Next]_vars
        => [Ample /\ proc = "listening" => proc' = "listening"]_vars
  <2> SUFFICES ASSUME TerminatorInv, Next, Ample, proc = "listening"
               PROVE  proc' = "listening"
    OBVIOUS
  <2>1. ~AcceptError
    BY RoomToAccept, FdLimitAssumption DEF AcceptError, TerminatorInv, TypeOK, Ample
  <2>2. CASE Startup
    BY <2>2 DEF Startup, Validate, Bind, SkipConfigure, InstallKey, RequireAo, Listen
  <2>3. CASE Accept
    BY <2>3 DEF Accept, procVars
  <2>4. CASE \E c \in Conns : Task(c)
    BY <2>4 DEF Task, SetUp, SelectPolicyFor, VerifyInbound, OpenBackend, Connected,
                PumpReturns, Fail, Return, Goto, procVars
  <2>5. CASE Peers
    BY <2>5 DEF Peers, Handshake, Forget, procVars
  <2> QED
    BY <2>1, <2>2, <2>3, <2>4, <2>5 DEF Next
<1> QED
  BY <1>1, TerminatorInvariant, PTL DEF Spec, NeverFalls

(* When the backend is contacted, every keepalive value that fits 32 bits  *)
(* is one the kernel takes and was passed as it was given (apply_keepalive,*)
(* set_sockopt_int); larger values are not spoken of.                      *)
THEOREM TerminatorKeepaliveAsked == Spec => []KeepaliveAsked
<1>1. TerminatorInv => KeepaliveAsked
  <2> SUFFICES ASSUME TerminatorInv, NEW c \in Conns, conn[c].contacted
               PROVE  AsAsked(cfg.keepalive)
    BY DEF KeepaliveAsked
  <2>1. ConfigOk(cfg)
    BY ConfigsAssumption DEF TerminatorInv, TypeOK
  <2>2. cfg.keepalive \in GlobalConfig /\ Applies(cfg.keepalive)
    BY <2>1 DEF TerminatorInv, ConnInv, ConfigOk
  <2> QED
    BY <2>2, AppliesAsAsked
<1> QED
  BY <1>1, TerminatorInvariant, PTL

-----------------------------------------------------------------------------
(* Terminator implements Gate.                                             *)

(* What Gate sees of one session changes only with its stage and with      *)
(* whether the backend was called for it.                                  *)
LEMMA GateOne ==
  ASSUME NEW c \in Conns,
         \A d \in Conns \ {c} : /\ conn'[d].stage = conn[d].stage
                                /\ conn'[d].contacted = conn[d].contacted
  PROVE  [d \in Conns |-> GateStage(d)]'
           = [[d \in Conns |-> GateStage(d)] EXCEPT ![c] = GateStage(c)']
<1>1. \A d \in Conns \ {c} : GateStage(d)' = GateStage(d)
  BY DEF GateStage
<1> QED
  BY <1>1

(* A step of a task changes its own session only; it ends it or goes on,   *)
(* and when it first calls the backend it goes on.                         *)
LEMMA TaskShape ==
  ASSUME TerminatorInv, NEW c \in Conns, Task(c)
  PROVE  /\ proc = "listening" /\ UNCHANGED <<proc, backlog>>
         /\ \A d \in Conns \ {c} : conn'[d] = conn[d]
         /\ conn[c].stage \in Running
         /\ conn'[c].stage \in Running \cup Ended
         /\ \/ conn'[c].contacted = conn[c].contacted
            \/ conn'[c].contacted = TRUE /\ conn'[c].stage \in Running
<1>0. conn \in [Conns -> ConnType]
  BY DEF TerminatorInv, TypeOK
<1>1. conn[c].stage \in Running
  BY DEF Task, SetUp, SelectPolicyFor, VerifyInbound, OpenBackend, Connected,
         PumpReturns, Running
<1>2. proc = "listening"
  BY <1>1, RunningFacts
<1>3. ASSUME NEW stage \in Ended, NEW error, Return(c, stage, error)
      PROVE  /\ UNCHANGED <<proc, backlog>>
             /\ \A d \in Conns \ {c} : conn'[d] = conn[d]
             /\ conn'[c].stage \in Ended
             /\ conn'[c].contacted = conn[c].contacted
  BY <1>0, <1>3 DEF Return, procVars, ConnType
<1>4. ASSUME NEW stage \in Running, Goto(c, stage)
      PROVE  /\ UNCHANGED <<proc, backlog>>
             /\ \A d \in Conns \ {c} : conn'[d] = conn[d]
             /\ conn'[c].stage \in Running
             /\ conn'[c].contacted = conn[c].contacted
  BY <1>0, <1>4 DEF Goto, procVars, ConnType
<1>5. CASE SelectPolicyFor(c)
  <2>1. CASE Fail(c, "NoPolicyForPeer")
    BY <1>1, <1>2, <1>3, <2>1 DEF Fail, Ended
  <2>2. CASE ~Fail(c, "NoPolicyForPeer")
    <3>1. PICK p : /\ conn' = [conn EXCEPT ![c].policy = p, ![c].stage = "verify"]
                   /\ UNCHANGED <<procVars, fds, backlog>>
      BY <1>5, <2>2 DEF SelectPolicyFor
    <3> QED
      BY <1>0, <1>1, <1>2, <3>1 DEF procVars, ConnType, Running
  <2> QED
    BY <2>1, <2>2
<1>6. CASE VerifyInbound(c)
  <2>1. CASE Fail(c, "TcpAo")
    BY <1>1, <1>2, <1>3, <2>1 DEF Fail, Ended
  <2>2. CASE Goto(c, "open")
    BY <1>1, <1>2, <1>4, <2>2 DEF Running
  <2>3. CASE ~Fail(c, "TcpAo") /\ ~Goto(c, "open")
    <3>1. PICK info : /\ conn' = [conn EXCEPT ![c].info = info, ![c].stage = "open"]
                      /\ UNCHANGED <<procVars, fds, backlog>>
      BY <1>6, <2>3 DEF VerifyInbound
    <3> QED
      BY <1>0, <1>1, <1>2, <3>1 DEF procVars, ConnType, Running
  <2> QED
    BY <2>1, <2>2, <2>3
<1>7. CASE OpenBackend(c)
  <2>1. CASE Fail(c, "Io")
    BY <1>1, <1>2, <1>3, <2>1 DEF Fail, Ended
  <2>2. CASE ~Fail(c, "Io")
    <3>1. /\ conn' = [conn EXCEPT ![c].stage = "connect", ![c].contacted = TRUE]
          /\ UNCHANGED <<procVars, backlog>>
      BY <1>7, <2>2 DEF OpenBackend
    <3> QED
      BY <1>0, <1>1, <1>2, <3>1 DEF procVars, ConnType, Running
  <2> QED
    BY <2>1, <2>2
<1>8. CASE Connected(c)
  BY <1>1, <1>2, <1>3, <1>4, <1>8 DEF Connected, Fail, Ended, Running
<1>9. CASE PumpReturns(c)
  BY <1>1, <1>2, <1>3, <1>9 DEF PumpReturns, Fail, Ended
<1> QED
  BY <1>5, <1>6, <1>7, <1>8, <1>9 DEF Task, SetUp

(* A session goes on, is admitted, refused, or over.                       *)
LEMMA TaskImplements ==
  ASSUME TerminatorInv, NEW c \in Conns, Task(c)
  PROVE  G!Next \/ UNCHANGED G!gateVars
<1> DEFINE st == [d \in Conns |-> GateStage(d)]
<1>1. /\ proc = "listening" /\ UNCHANGED <<proc, backlog>>
      /\ \A d \in Conns \ {c} : conn'[d] = conn[d]
      /\ conn[c].stage \in Running
      /\ conn'[c].stage \in Running \cup Ended
      /\ \/ conn'[c].contacted = conn[c].contacted
         \/ conn'[c].contacted = TRUE /\ conn'[c].stage \in Running
  BY TaskShape
<1>2. st' = [st EXCEPT ![c] = GateStage(c)']
  BY <1>1, GateOne
<1>3. GatePhase = "open" /\ GatePhase' = "open"
  BY <1>1 DEF GatePhase
<1>4. GateStage(c) = IF conn[c].contacted THEN "admitted" ELSE "held"
  BY <1>1 DEF GateStage, Running, Ended
<1>5. GateStage(c)' = IF conn'[c].stage \in Running
                        THEN IF conn'[c].contacted THEN "admitted" ELSE "held"
                        ELSE IF conn'[c].contacted THEN "over" ELSE "refused"
  BY <1>1 DEF GateStage, Running, Ended
<1>6. \/ GateStage(c)' = GateStage(c)
      \/ GateStage(c) = "held" /\ GateStage(c)' \in {"admitted", "refused"}
      \/ GateStage(c) = "admitted" /\ GateStage(c)' = "over"
  BY <1>1, <1>4, <1>5
<1>7. st[c] = GateStage(c)
  OBVIOUS
<1> HIDE DEF st
<1>8. CASE GateStage(c)' = GateStage(c)
  <2>1. st' = st
    BY <1>2, <1>7, <1>8 DEF st
  <2> QED
    BY <1>1, <1>3, <2>1 DEF G!gateVars, st
<1>9. CASE GateStage(c)' # GateStage(c)
  BY <1>1, <1>2, <1>3, <1>6, <1>7, <1>9
  DEF G!Next, G!Admit, G!Refuse, G!Finish, G!Turn, st
<1> QED
  BY <1>8, <1>9

(* The accept loop takes the oldest session.                               *)
LEMMA AcceptImplements ==
  ASSUME TerminatorInv, Accept
  PROVE  G!Take
<1>0. PICK c : c = Head(backlog)
  OBVIOUS
<1> DEFINE st == [d \in Conns |-> GateStage(d)]
<1>1. /\ conn \in [Conns -> ConnType] /\ c \in Conns
      /\ conn[c].stage = "backlog" /\ ConnInv(c)
  <2>1. backlog \in Seq(Conns) /\ 1 \in DOMAIN backlog /\ c = backlog[1]
    BY <1>0 DEF Accept, TerminatorInv, TypeOK
  <2> QED
    BY <2>1 DEF TerminatorInv, TypeOK, BacklogInv
<1>2. /\ proc = "listening" /\ proc' = proc
      /\ backlog # <<>> /\ backlog' = Tail(backlog)
      /\ conn' = [conn EXCEPT ![c].stage = "select"]
  BY <1>0 DEF Accept, procVars
<1>3. /\ conn'[c].stage = "select" /\ conn'[c].contacted = conn[c].contacted
      /\ \A d \in Conns \ {c} : conn'[d] = conn[d]
  BY <1>1, <1>2 DEF ConnType
<1>4. ~conn[c].contacted
  BY <1>1 DEF ConnInv
<1>5. GateStage(c) = "waiting" /\ GateStage(c)' = "held"
  BY <1>1, <1>3, <1>4 DEF GateStage, Running, Ended
<1>6. st' = [st EXCEPT ![c] = "held"] /\ st[c] = "waiting"
  <2>1. st' = [st EXCEPT ![c] = GateStage(c)']
    BY <1>1, <1>3, GateOne
  <2> QED
    BY <1>1, <1>5, <2>1
<1>7. GatePhase = "open" /\ GatePhase' = "open"
  BY <1>2 DEF GatePhase
<1> QED
  BY <1>0, <1>2, <1>6, <1>7 DEF G!Take

LEMMA HandshakeImplements ==
  ASSUME TerminatorInv, NEW c \in Conns, NEW ip, NEW i, Handshake(c, ip, i)
  PROVE  G!Arrive(c)
<1> DEFINE st == [d \in Conns |-> GateStage(d)]
<1>1. /\ proc = "listening" /\ proc' = proc /\ conn[c].stage = "free"
      /\ backlog' = Append(backlog, c)
      /\ conn' = [conn EXCEPT ![c] = [Free EXCEPT !.stage = "backlog",
                                                  !.ip = ip, !.signed = i]]
      /\ conn \in [Conns -> ConnType]
  BY DEF Handshake, procVars, TerminatorInv, TypeOK
<1>2. /\ conn'[c].stage = "backlog"
      /\ \A d \in Conns \ {c} : conn'[d] = conn[d]
  BY <1>1 DEF Free
<1>3. GateStage(c) = "none" /\ GateStage(c)' = "waiting"
  BY <1>1, <1>2 DEF GateStage, Running, Ended
<1>4. st' = [st EXCEPT ![c] = "waiting"] /\ st[c] = "none"
  <2>1. st' = [st EXCEPT ![c] = GateStage(c)']
    BY <1>2, GateOne
  <2> QED
    BY <1>3, <2>1
<1>5. GatePhase = "open" /\ GatePhase' = "open"
  BY <1>1 DEF GatePhase
<1> QED
  BY <1>1, <1>4, <1>5 DEF G!Arrive

LEMMA ForgetImplements ==
  ASSUME TerminatorInv, NEW c \in Conns, Forget(c)
  PROVE  G!Forget(c)
<1> DEFINE st == [d \in Conns |-> GateStage(d)]
<1>1. /\ conn[c].stage \in Ended /\ UNCHANGED <<proc, backlog>>
      /\ conn' = [conn EXCEPT ![c] = Free]
      /\ conn \in [Conns -> ConnType]
  BY DEF Forget, procVars, TerminatorInv, TypeOK
<1>2. conn'[c].stage = "free" /\ \A d \in Conns \ {c} : conn'[d] = conn[d]
  BY <1>1 DEF Free
<1>3. GateStage(c) \in {"refused", "over"} /\ GateStage(c)' = "none"
  BY <1>1, <1>2 DEF GateStage, Ended, Running
<1>4. st' = [st EXCEPT ![c] = "none"] /\ st[c] \in {"refused", "over"}
  <2>1. st' = [st EXCEPT ![c] = GateStage(c)']
    BY <1>2, GateOne
  <2> QED
    BY <1>3, <2>1
<1>5. GatePhase' = GatePhase
  BY <1>1 DEF GatePhase
<1> QED
  BY <1>1, <1>4, <1>5 DEF G!Forget

(* The end of the process is the end of every session.                     *)
LEMMA ExitImplements ==
  ASSUME TerminatorInv, proc # "exited", NEW error, Exit(error)
  PROVE  G!Stop
<1> DEFINE st == [d \in Conns |-> GateStage(d)]
<1>1. /\ proc' = "exited" /\ backlog' = <<>>
      /\ conn' = [c \in Conns |-> IF conn[c].stage \in Ended \cup {"free"}
                                    THEN conn[c]
                                    ELSE [conn[c] EXCEPT !.stage = "killed"]]
      /\ conn \in [Conns -> ConnType]
  BY DEF Exit, TerminatorInv, TypeOK
<1>2. ASSUME NEW c \in Conns PROVE GateStage(c)' = G!Stopped(GateStage(c))
  <2>0. conn[c] \in ConnType /\ ConnInv(c)
    BY <1>1 DEF TerminatorInv
  <2>1. CASE conn[c].stage \in Ended \cup {"free"}
    <3>1. conn'[c] = conn[c]
      BY <1>1, <2>1
    <3>2. GateStage(c)' = GateStage(c) /\ GateStage(c) \in {"none", "over", "refused"}
      BY <2>1, <3>1 DEF GateStage, Ended, Running
    <3> QED
      BY <3>2 DEF G!Stopped
  <2>2. CASE conn[c].stage \notin Ended \cup {"free"}
    <3>1. conn'[c].stage = "killed" /\ conn'[c].contacted = conn[c].contacted
      BY <1>1, <2>0, <2>2 DEF ConnType
    <3>2. GateStage(c)' = IF conn[c].contacted THEN "over" ELSE "refused"
      BY <3>1 DEF GateStage, Ended, Running
    <3>3. conn[c].stage = "backlog" \/ conn[c].stage \in Running
      BY <2>0, <2>2 DEF ConnType, Stages
    <3>4. GateStage(c) = IF conn[c].stage = "backlog" THEN "waiting"
                         ELSE IF conn[c].contacted THEN "admitted" ELSE "held"
      BY <3>3 DEF GateStage, Running, Ended
    <3>5. conn[c].stage = "backlog" => ~conn[c].contacted
      BY <2>0 DEF ConnInv
    <3> QED
      BY <3>2, <3>4, <3>5 DEF G!Stopped
  <2> QED
    BY <2>1, <2>2
<1>3. st' = [c \in Conns |-> G!Stopped(st[c])]
  BY <1>2
<1>4. GatePhase # "stopped" /\ GatePhase' = "stopped"
  BY <1>1 DEF GatePhase
<1> QED
  BY <1>1, <1>3, <1>4 DEF G!Stop

(* run() opens the gate when it listens; before, only it can stop it.      *)
LEMMA StartupImplements ==
  ASSUME TerminatorInv, Startup
  PROVE  G!Next \/ UNCHANGED G!gateVars
<1>1. proc \in {"start", "bind", "configure", "listen"}
  BY DEF Startup, Validate, Bind, SkipConfigure, InstallKey, RequireAo, Listen
<1>2. CASE \E error : Exit(error)
  BY <1>1, <1>2, ExitImplements DEF G!Next
<1>3. CASE ~ \E error : Exit(error)
  <2>1. /\ UNCHANGED <<backlog, conn>>
        /\ proc' \in {"start", "bind", "configure", "listen", "listening"}
    BY <1>3
    DEF Startup, Validate, Bind, SkipConfigure, InstallKey, RequireAo, Listen
  <2>2. [c \in Conns |-> GateStage(c)]' = [c \in Conns |-> GateStage(c)]
    BY <2>1 DEF GateStage
  <2>3. GatePhase = "closed" /\ GatePhase' \in {"closed", "open"}
    BY <1>1, <2>1 DEF GatePhase
  <2> QED
    BY <2>1, <2>2, <2>3 DEF G!Next, G!Open, G!gateVars
<1> QED
  BY <1>2, <1>3

LEMMA InitImplementsGate == Init => G!Init
<1> SUFFICES ASSUME Init PROVE G!Init
  OBVIOUS
<1>1. GatePhase = "closed" /\ backlog = <<>>
  BY DEF Init, GatePhase
<1>2. \A c \in Conns : GateStage(c) = "none"
  BY DEF Init, GateStage, Free, Running, Ended
<1> QED
  BY <1>1, <1>2 DEF G!Init

LEMMA NextImplementsGate == TerminatorInv /\ [Next]_vars => [G!Next]_(G!gateVars)
<1> SUFFICES ASSUME TerminatorInv, [Next]_vars
             PROVE  G!Next \/ UNCHANGED G!gateVars
  OBVIOUS
<1>1. CASE Startup
  BY <1>1, StartupImplements
<1>2. CASE Accept
  BY <1>2, AcceptImplements DEF G!Next
<1>3. CASE AcceptError
  BY <1>3, ExitImplements DEF AcceptError, G!Next
<1>4. CASE \E c \in Conns : Task(c)
  BY <1>4, TaskImplements
<1>5. CASE Peers
  BY <1>5, HandshakeImplements, ForgetImplements DEF Peers, G!Next
<1>6. CASE UNCHANGED vars
  <2>1. UNCHANGED <<proc, backlog, conn>>
    BY <1>6 DEF vars
  <2>2. GatePhase' = GatePhase
        /\ [c \in Conns |-> GateStage(c)]' = [c \in Conns |-> GateStage(c)]
    BY <2>1 DEF GatePhase, GateStage
  <2> QED
    BY <2>1, <2>2 DEF G!gateVars
<1> QED
  BY <1>1, <1>2, <1>3, <1>4, <1>5, <1>6 DEF Next

(* The terminator is a gate: it takes sessions in their order, contacts    *)
(* the backend at most once for each and for none it refused, and none     *)
(* outlives it.                                                            *)
THEOREM TerminatorImplementsGate == Spec => GateSpec
<1>1. Init => G!Init
  BY InitImplementsGate
<1>2. TerminatorInv /\ [Next]_vars => [G!Next]_(G!gateVars)
  BY NextImplementsGate
<1> QED
  BY <1>1, <1>2, TerminatorInvariant, PTL DEF Spec, GateSpec, G!Spec

-----------------------------------------------------------------------------
(* The right entry.                                                        *)

(* A list of entries is valid from the moment anything is done with it, and*)
(* a session refused for want of an entry is one select_policy has none    *)
(* for.                                                                    *)
AnswerInv ==
  /\ proc \notin {"start", "exited"} \/ (\E c \in Conns : conn[c].stage # "free") =>
       ValidPolicies(cfg.policies)
  /\ \A c \in Conns :
       conn[c].error = "NoPolicyForPeer" =>
         SelectPolicy(cfg.policies, conn[c].ip, NoPort) = None

(* What a step of a task does to its address and its error.                *)
LEMMA TaskRefuses ==
  ASSUME TerminatorInv, NEW c \in Conns, Task(c)
  PROVE  /\ UNCHANGED cfg /\ conn'[c].ip = conn[c].ip
         /\ conn'[c].error = "NoPolicyForPeer" =>
              \/ conn[c].error = "NoPolicyForPeer"
              \/ SelectPolicy(cfg.policies, conn[c].ip, NoPort) = None
<1> DEFINE Same == UNCHANGED cfg /\ conn'[c].ip = conn[c].ip
<1>0. conn \in [Conns -> ConnType]
  BY DEF TerminatorInv, TypeOK
<1>1. ASSUME NEW stage, NEW error, Return(c, stage, error)
      PROVE  Same /\ conn'[c].error = error
  BY <1>0, <1>1 DEF Return, procVars, setupVars, ConnType
<1>2. ASSUME NEW stage, Goto(c, stage)
      PROVE  Same /\ conn'[c].error = conn[c].error
  BY <1>0, <1>2 DEF Goto, procVars, setupVars, ConnType
<1>3. CASE SelectPolicyFor(c)
  <2>1. CASE SelectPolicy(cfg.policies, conn[c].ip, NoPort) = None
    BY <1>1, <1>3, <2>1 DEF SelectPolicyFor, Fail
  <2>2. CASE SelectPolicy(cfg.policies, conn[c].ip, NoPort) # None
    <3>1. PICK p : /\ conn' = [conn EXCEPT ![c].policy = p, ![c].stage = "verify"]
                   /\ UNCHANGED procVars
      BY <1>3, <2>2 DEF SelectPolicyFor
    <3> QED
      BY <1>0, <3>1 DEF procVars, setupVars, ConnType
  <2> QED
    BY <2>1, <2>2
<1>4. CASE VerifyInbound(c)
  <2>1. CASE Fail(c, "TcpAo") \/ Goto(c, "open")
    BY <1>1, <1>2, <2>1 DEF Fail
  <2>2. CASE ~Fail(c, "TcpAo") /\ ~Goto(c, "open")
    <3>1. PICK info : /\ conn' = [conn EXCEPT ![c].info = info, ![c].stage = "open"]
                      /\ UNCHANGED procVars
      BY <1>4, <2>2 DEF VerifyInbound
    <3> QED
      BY <1>0, <3>1 DEF procVars, setupVars, ConnType
  <2> QED
    BY <2>1, <2>2
<1>5. CASE OpenBackend(c)
  <2>1. CASE Fail(c, "Io")
    BY <1>1, <2>1 DEF Fail
  <2>2. CASE ~Fail(c, "Io")
    <3>1. /\ conn' = [conn EXCEPT ![c].stage = "connect", ![c].contacted = TRUE]
          /\ UNCHANGED procVars
      BY <1>5, <2>2 DEF OpenBackend
    <3> QED
      BY <1>0, <3>1 DEF procVars, setupVars, ConnType
  <2> QED
    BY <2>1, <2>2
<1>6. CASE Connected(c) \/ PumpReturns(c)
  BY <1>1, <1>2, <1>6 DEF Connected, PumpReturns, Fail
<1> QED
  BY <1>3, <1>4, <1>5, <1>6 DEF Task, SetUp

LEMMA AnswerStep ==
  ASSUME TerminatorInv, AnswerInv, [Next]_vars
  PROVE  AnswerInv'
<1>0. conn \in [Conns -> ConnType]
  BY DEF TerminatorInv, TypeOK
<1>1. ASSUME NEW error, Exit(error), NEW d \in Conns
      PROVE  /\ conn'[d].ip = conn[d].ip /\ conn'[d].error = conn[d].error
             /\ conn'[d].stage # "free" => conn[d].stage # "free"
  BY <1>0, <1>1 DEF Exit, ConnType
<1>2. CASE \E error \in {"none", "Config", "AddrParse", "TcpAo", "Io"} : Exit(error)
  BY <1>1, <1>2 DEF Exit, AnswerInv, setupVars
<1>3. ASSUME Startup,
             ~ \E error \in {"none", "Config", "AddrParse", "TcpAo", "Io"} : Exit(error)
      PROVE  AnswerInv'
  <2>1. UNCHANGED <<cfg, conn>>
    BY <1>3 DEF Startup, Validate, Bind, SkipConfigure, InstallKey, RequireAo,
                Listen, setupVars
  <2>2. ValidPolicies(cfg.policies)
    BY <1>3 DEF Startup, Validate, Bind, SkipConfigure, InstallKey, RequireAo,
                Listen, AnswerInv
  <2> QED
    BY <2>1, <2>2 DEF AnswerInv
<1>4. ASSUME NEW c \in Conns, UNCHANGED <<cfg, proc>>, proc = "listening",
             \A d \in Conns \ {c} : conn'[d] = conn[d],
             conn'[c].error = "NoPolicyForPeer" =>
               SelectPolicy(cfg.policies, conn'[c].ip, NoPort) = None
      PROVE  AnswerInv'
  BY <1>4 DEF AnswerInv
<1>5. CASE Accept
  <2>1. PICK c \in Conns : c = Head(backlog)
    BY <1>5 DEF Accept, TerminatorInv, TypeOK
  <2>2. /\ conn' = [conn EXCEPT ![c].stage = "select"]
        /\ UNCHANGED <<cfg, proc>> /\ proc = "listening"
    BY <1>5, <2>1 DEF Accept, procVars, setupVars
  <2>3. /\ \A d \in Conns \ {c} : conn'[d] = conn[d]
        /\ conn'[c].ip = conn[c].ip /\ conn'[c].error = conn[c].error
    BY <1>0, <2>2 DEF ConnType
  <2> QED
    BY <1>4, <2>2, <2>3 DEF AnswerInv
<1>6. ASSUME NEW c \in Conns, Task(c) PROVE AnswerInv'
  BY <1>4, <1>6, TaskShape, TaskRefuses DEF AnswerInv
<1>7. ASSUME NEW c \in Conns, NEW ip, NEW i, Handshake(c, ip, i) PROVE AnswerInv'
  <2>1. /\ conn' = [conn EXCEPT ![c] = [Free EXCEPT !.stage = "backlog",
                                                    !.ip = ip, !.signed = i]]
        /\ UNCHANGED <<cfg, proc>> /\ proc = "listening"
    BY <1>7 DEF Handshake, procVars, setupVars
  <2>2. /\ \A d \in Conns \ {c} : conn'[d] = conn[d]
        /\ conn'[c].error = "none"
    BY <1>0, <2>1 DEF Free
  <2> QED
    BY <1>4, <2>1, <2>2
<1>8. ASSUME NEW c \in Conns, Forget(c) PROVE AnswerInv'
  <2>1. /\ conn' = [conn EXCEPT ![c] = Free] /\ UNCHANGED <<cfg, proc>>
        /\ conn[c].stage # "free"
    BY <1>8 DEF Forget, procVars, setupVars, Ended
  <2>2. /\ \A d \in Conns \ {c} : conn'[d] = conn[d]
        /\ conn'[c].error = "none" /\ conn'[c].stage = "free"
    BY <1>0, <2>1 DEF Free
  <2> QED
    BY <2>1, <2>2 DEF AnswerInv
<1>9. CASE UNCHANGED vars
  BY <1>9 DEF vars, procVars, setupVars, AnswerInv
<1> QED
  BY <1>2, <1>3, <1>5, <1>6, <1>7, <1>8, <1>9 DEF Next, AcceptError, Peers

(* The backend is contacted under the one entry that answers for the peer, *)
(* and none does for a session that is refused for want of one.            *)
THEOREM TerminatorRightEntry == Spec => []RightEntry
<1>1. Init => AnswerInv
  BY DEF Init, AnswerInv, Free
<1>2. TerminatorInv /\ AnswerInv => RightEntry
  <2> SUFFICES ASSUME TerminatorInv, AnswerInv, NEW c \in Conns
               PROVE  LET answers == Answers(EntriesOf(cfg.policies), conn[c].ip, NoPort)
                      IN  /\ conn[c].contacted => answers = {cfg.policies[conn[c].policy]}
                          /\ conn[c].error = "NoPolicyForPeer" => answers = {}
    BY DEF RightEntry
  <2>1. /\ conn[c].contacted =>
             /\ conn[c].policy # None
             /\ conn[c].policy = SelectPolicy(cfg.policies, conn[c].ip, NoPort)
        /\ conn[c].stage = "free" => conn[c] = Free
    BY DEF TerminatorInv, ConnInv
  <2>2. ~Free.contacted /\ Free.error = "none"
    BY DEF Free
  <2>3. conn[c].contacted \/ conn[c].error = "NoPolicyForPeer" =>
          Selected(cfg.policies, conn[c].ip, NoPort)
            = Answers(EntriesOf(cfg.policies), conn[c].ip, NoPort)
    BY <2>1, <2>2, ConfigFacts, SelectedMeaning DEF TerminatorInv, AnswerInv
  <2>4. conn[c].contacted =>
          Selected(cfg.policies, conn[c].ip, NoPort) = {cfg.policies[conn[c].policy]}
    BY <2>1 DEF Selected
  <2>5. conn[c].error = "NoPolicyForPeer" =>
          Selected(cfg.policies, conn[c].ip, NoPort) = {}
    BY DEF AnswerInv, Selected
  <2> QED
    BY <2>3, <2>4, <2>5
<1> QED
  BY <1>1, <1>2, AnswerStep, TerminatorInvariant, PTL DEF Spec

-----------------------------------------------------------------------------
(* What is proved of every gate is proved of the terminator.               *)
GP == INSTANCE GateProofs WITH
        phase <- GatePhase, queue <- backlog, st <- [c \in Conns |-> GateStage(c)]

LEMMA GateSame ==
  /\ G!Init <=> GP!Init
  /\ [G!Next]_(G!gateVars) <=> [GP!Next]_(GP!gateVars)
  /\ G!GateInv <=> GP!GateInv
  BY DEF G!Init, GP!Init, G!Next, GP!Next, G!gateVars, GP!gateVars,
         G!Open, GP!Open, G!Arrive, GP!Arrive, G!Take, GP!Take, G!Turn, GP!Turn,
         G!Admit, GP!Admit, G!Refuse, GP!Refuse, G!Finish, GP!Finish,
         G!Forget, GP!Forget, G!Stop, GP!Stop, G!Stopped, GP!Stopped,
         G!GateInv, GP!GateInv, G!GateTypeOK, GP!GateTypeOK, G!Phases, GP!Phases,
         G!Lives, GP!Lives, G!NoneForgotten, GP!NoneForgotten,
         G!NoneOutlives, GP!NoneOutlives

LEMMA IsGate == Spec => GP!Spec
<1>1. G!Spec <=> GP!Spec
  BY GateSame, PTL DEF G!Spec, GP!Spec
<1> QED
  BY <1>1, TerminatorImplementsGate DEF GateSpec

(* The terminator forgets nobody: a connection whose handshake is complete *)
(* is in the backlog, once, until it is accepted or the process ends; and  *)
(* when the process has ended, so has every session.                       *)
THEOREM TerminatorForgetsNobody == Spec => []G!GateInv
<1>1. GP!Spec => []GP!GateInv
  BY GP!GateInvariant
<1> QED
  BY <1>1, IsGate, GateSame, PTL

(* The terminator accepts connections in the order in which they came.     *)
THEOREM TerminatorServesInOrder == Spec => G!InOrder
<1>1. GP!Spec => GP!InOrder
  BY GP!GateInOrder
<1>2. GP!InOrder <=> G!InOrder
  BY DEF GP!InOrder, G!InOrder, GP!gateVars, G!gateVars
<1> QED
  BY <1>1, <1>2, IsGate, PTL

(* The terminator decides on each connection once: it contacts the backend *)
(* at most once for it, and never after it gave it up.                     *)
THEOREM TerminatorDecidesOnce == Spec => G!OnlyForward
<1>1. GP!Spec => GP!OnlyForward
  BY GP!GateOnlyForward
<1>2. GP!OnlyForward <=> G!OnlyForward
  BY DEF GP!OnlyForward, G!OnlyForward, GP!gateVars, G!gateVars, GP!Goes, G!Goes
<1> QED
  BY <1>1, <1>2, IsGate, PTL

=============================================================================
