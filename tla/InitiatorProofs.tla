--------------------------- MODULE InitiatorProofs ---------------------------
(***************************************************************************)
(* The safety of Initiator for every set of configurations and of keys,    *)
(* every number of connections, every descriptor limit and every bound on  *)
(* the changes of keys.                                                    *)
(***************************************************************************)
EXTENDS Initiator, AoPolicyProofs, FiniteSetTheorems, TLAPS

USE DEF None

-----------------------------------------------------------------------------
(* Descriptors.                                                            *)

(* No connection holds a descriptor when none runs.                        *)
LEMMA NoneHeld ==
  ASSUME \A c \in Conns : conn[c].stage \notin Running
  PROVE  /\ Cardinality(WithPlain) = 0 /\ Cardinality(WithWire) = 0
         /\ Cardinality(WithKeyFile) = 0
<1>1. WithPlain = {} /\ WithWire = {} /\ WithKeyFile = {}
  BY DEF WithPlain, WithWire, WithKeyFile, Running, Wired, Signing
<1> QED
  BY <1>1, FS_EmptySet

(* How many descriptors the task of a connection at a stage holds.         *)
Weight(stage) ==
  IF stage = "read" THEN 3
  ELSE IF stage \in Wired THEN 2 ELSE IF stage \in Running THEN 1 ELSE 0

(* A step that changes one connection takes and gives back what it holds.  *)
LEMMA FdStep ==
  ASSUME FdInv, NEW c \in Conns,
         \A d \in Conns \ {c} : conn'[d].stage = conn[d].stage,
         UNCHANGED proc, fds \in Nat, fds' \in Int,
         fds' + Weight(conn[c].stage) = fds + Weight(conn'[c].stage),
         proc \in {"start", "bind", "exited"} => fds' = fds
  PROVE  FdInv' /\ fds' \in Nat
<1> DEFINE f == [d \in Conns |-> conn[d].stage]
           g == [d \in Conns |-> conn'[d].stage]
           wf == One(f[c], Running)
           wg == One(g[c], Running)
           pf == One(f[c], Wired)
           pg == One(g[c], Wired)
           kf == One(f[c], {"read"})
           kg == One(g[c], {"read"})
           W0 == Cardinality(WithPlain)
           W1 == Cardinality(WithPlain')
           P0 == Cardinality(WithWire)
           P1 == Cardinality(WithWire')
           K0 == Cardinality(WithKeyFile)
           K1 == Cardinality(WithKeyFile')
<1>1. \A d \in Conns \ {c} : g[d] = f[d]
  OBVIOUS
<1>2. /\ WithPlain = At(Conns, f, Running) /\ WithPlain' = At(Conns, g, Running)
  BY DEF WithPlain, At
<1>3. /\ WithWire = At(Conns, f, Wired) /\ WithWire' = At(Conns, g, Wired)
  BY DEF WithWire, At
<1>4. /\ WithKeyFile = At(Conns, f, {"read"}) /\ WithKeyFile' = At(Conns, g, {"read"})
  BY DEF WithKeyFile, At
<1>5. f[c] = conn[c].stage /\ g[c] = conn'[c].stage
  OBVIOUS
<1> HIDE DEF f, g
<1>6. ASSUME NEW P
       PROVE  /\ Cardinality(At(Conns, f, P)) \in Nat
              /\ Cardinality(At(Conns, g, P)) \in Nat
              /\ Cardinality(At(Conns, g, P)) + One(f[c], P)
                   = Cardinality(At(Conns, f, P)) + One(g[c], P)
  BY <1>1, ConnsAssumption, CountStep
<1>7. W0 \in Nat /\ W1 \in Nat /\ W1 + wf = W0 + wg
  BY <1>2, <1>6
<1>8. P0 \in Nat /\ P1 \in Nat /\ P1 + pf = P0 + pg
  BY <1>3, <1>6
<1>9. K0 \in Nat /\ K1 \in Nat /\ K1 + kf = K0 + kg
  BY <1>4, <1>6
<1>10. /\ Weight(conn[c].stage) = wf + pf + kf
      /\ Weight(conn'[c].stage) = wg + pg + kg
      /\ wf \in Nat /\ wg \in Nat /\ pf \in Nat /\ pg \in Nat
      /\ kf \in Nat /\ kg \in Nat
  BY <1>5 DEF Weight, Running, Wired, Signing, One
<1>11. CASE proc \in {"start", "bind", "exited"}
  BY <1>11 DEF FdInv
<1>12. CASE proc \notin {"start", "bind", "exited"}
  <2>1. fds = 1 + W0 + P0 + K0
    BY <1>12 DEF FdInv
  <2>2. fds' + (wf + pf + kf) = fds + (wg + pg + kg)
    BY <1>10
  <2>3. fds' = 1 + W1 + P1 + K1
    <3> HIDE DEF wf, wg, pf, pg, kf, kg, W0, W1, P0, P1, K0, K1
    <3>1. /\ wf \in Nat /\ wg \in Nat /\ pf \in Nat /\ pg \in Nat
          /\ kf \in Nat /\ kg \in Nat
      BY <1>10
    <3>2. \A a, b \in Int, n \in Nat : a + n = b + n => a = b
      OBVIOUS
    <3>3. (1 + W1 + P1 + K1) + (wf + pf + kf) = (1 + W0 + P0 + K0) + (wg + pg + kg)
      BY <3>1, <1>7, <1>8, <1>9
    <3>4. fds' + (wf + pf + kf) = (1 + W0 + P0 + K0) + (wg + pg + kg)
      BY <2>1, <2>2
    <3>5. 1 + W1 + P1 + K1 \in Int /\ wf + pf + kf \in Nat
      BY <3>1, <1>7, <1>8, <1>9
    <3>6. fds' + (wf + pf + kf) = (1 + W1 + P1 + K1) + (wf + pf + kf)
      BY <3>3, <3>4
    <3> DEFINE s == 1 + W1 + P1 + K1
               m == wf + pf + kf
    <3>7. s \in Int /\ m \in Nat /\ fds' + m = s + m
      BY <3>5, <3>6
    <3> HIDE DEF s, m
    <3>8. fds' = s
      BY <3>2, <3>7
    <3> QED
      BY <3>8 DEF s
  <2>4. fds' \in Nat
    BY <2>3, <1>7, <1>8, <1>9
  <2> QED
    BY <1>12, <2>3, <2>4 DEF FdInv
<1> QED
  BY <1>11, <1>12

-----------------------------------------------------------------------------
(* Steps that change one connection.                                          *)

LEMMA ConfigFacts ==
  ASSUME TypeOK
  PROVE  /\ cfg.policies \in Seq(Entries)
         /\ cfg.ip \in Ips /\ cfg.port \in Nat /\ cfg.port # NoPort
         /\ cfg.bypass \in BOOLEAN
         /\ DOMAIN cfg.policies \subseteq Nat \ {0}
<1>1. ConfigOk(cfg)
  BY ConfigsAssumption DEF TypeOK
<1> QED
  BY <1>1, PortAssumption DEF ConfigOk

(* It is enough to look at that connection, and at the descriptors.        *)
LEMMA OneConnection ==
  ASSUME InitiatorInv, UNCHANGED <<procVars, worldVars>>, NEW c \in Conns,
         conn' \in [Conns -> ConnType],
         \A d \in Conns \ {c} : conn'[d] = conn[d],
         ConnInv(c)',
         fds' \in Int, fds' <= FdLimit,
         fds' + Weight(conn[c].stage) = fds + Weight(conn'[c].stage),
         proc \in {"start", "bind", "exited"} => fds' = fds,
         backlog' \in Seq(Conns), BacklogInv'
  PROVE  InitiatorInv'
<1>0. UNCHANGED <<cfg, proc, failure, store, remote, changes>>
  BY DEF procVars, worldVars
<1>1. FdInv' /\ fds' \in Nat
  <2>1. fds \in Nat
    BY DEF InitiatorInv, TypeOK
  <2> QED
    BY <1>0, <2>1, FdStep DEF InitiatorInv
<1>2. TypeOK'
  BY <1>0, <1>1, FdLimitAssumption DEF InitiatorInv, TypeOK
<1>3. ASSUME NEW d \in Conns PROVE ConnInv(d)'
  <2>1. CASE d = c
    BY <2>1
  <2>2. CASE d # c
    <3>1. conn'[d] = conn[d] /\ ConnInv(d)
      BY <2>2 DEF InitiatorInv
    <3> QED
      BY <1>0, <3>1 DEF ConnInv, Stored
  <2> QED
    BY <2>1, <2>2
<1> QED
  BY <1>1, <1>2, <1>3 DEF InitiatorInv

(* A task runs only in a process that listens, and a step of it leaves the *)
(* backlog as it is.                                                       *)
LEMMA RunningFacts ==
  ASSUME InitiatorInv, NEW c \in Conns, conn[c].stage \in Running
  PROVE  /\ proc = "listening"
         /\ conn[c] \in ConnType /\ ConnInv(c)
         /\ fds \in 0..FdLimit /\ FdLimit \in Nat
         /\ backlog \in Seq(Conns)
         /\ \A k \in DOMAIN backlog : backlog[k] # c
BY FdLimitAssumption
DEF InitiatorInv, TypeOK, ConnInv, BacklogInv, Running, Wired, Signing

LEMMA BacklogKept ==
  ASSUME BacklogInv, UNCHANGED backlog, NEW c,
         \A k \in DOMAIN backlog : backlog[k] # c /\ backlog[k] \in Conns,
         \A d \in Conns \ {c} : conn'[d] = conn[d]
  PROVE  BacklogInv'
BY DEF BacklogInv

(* A step of the task: it is enough that the record it leaves fits.        *)
LEMMA TaskStep ==
  ASSUME InitiatorInv, NEW c \in Conns, conn[c].stage \in Running,
         NEW r \in ConnType, GoOn(c, r), r.stage \in Running \cup Ended,
         ConnInv(c)',
         fds' \in Int, fds' <= FdLimit,
         fds' + Weight(conn[c].stage) = fds + Weight(r.stage)
  PROVE  InitiatorInv'
<1> USE RunningFacts
<1>1. /\ conn' \in [Conns -> ConnType]
      /\ conn'[c] = r
      /\ \A d \in Conns \ {c} : conn'[d] = conn[d]
      /\ UNCHANGED <<procVars, backlog, worldVars>>
  BY DEF GoOn, InitiatorInv, TypeOK
<1>2. BacklogInv'
  <2>1. \A k \in DOMAIN backlog : backlog[k] # c /\ backlog[k] \in Conns
    OBVIOUS
  <2> QED
    BY <1>1, <2>1, BacklogKept DEF InitiatorInv
<1> QED
  BY <1>1, <1>2, OneConnection

(* What a step of the task leaves as it is.                                *)
LEMMA GoOnFacts ==
  ASSUME InitiatorInv, NEW c \in Conns, NEW r, GoOn(c, r)
  PROVE  conn'[c] = r /\ UNCHANGED <<cfg, proc, store, backlog>>
BY DEF GoOn, InitiatorInv, TypeOK, procVars, worldVars

(* handle_connection gives up, or is done: the descriptors it held go back.*)
LEMMA ReturnKeeps ==
  ASSUME InitiatorInv, NEW c \in Conns, conn[c].stage \in Running,
         NEW stage \in Ended, NEW error \in {"none", "NoPolicyForPeer", "TcpAo", "Io"},
         Return(c, stage, error)
  PROVE  InitiatorInv'
<1> DEFINE r == [conn[c] EXCEPT !.stage = stage, !.error = error, !.loaded = "none"]
<1>1. /\ proc = "listening"
      /\ conn[c] \in ConnType /\ ConnInv(c)
      /\ fds \in 0..FdLimit /\ FdLimit \in Nat
  BY RunningFacts
<1>2. GoOn(c, r) /\ fds' = fds - Descriptors(c)
  BY DEF Return
<1>3. r \in ConnType
  <2>1. stage \in Stages
    BY DEF Stages
  <2> QED
    BY <1>1, <2>1 DEF ConnType
<1>4. /\ r.stage = stage /\ r.key = conn[c].key /\ r.policy = conn[c].policy
      /\ r.contacted = conn[c].contacted /\ r.required = conn[c].required
      /\ r.seen = conn[c].seen
  BY <1>1 DEF ConnType
<1>5. stage \notin {"free"} \cup Unsigned \cup Running /\ conn[c].stage # "free"
  BY DEF Ended, Running, Wired, Signing, Unsigned
<1> HIDE DEF r
<1>6. conn'[c] = r /\ UNCHANGED <<cfg, proc, store>>
  BY <1>2, GoOnFacts
<1>7. ConnInv(c)'
  BY <1>1, <1>4, <1>5, <1>6 DEF ConnInv, Running, Chosen, Wired, Signing, Stored
<1>8. /\ Weight(conn[c].stage) = Descriptors(c)
      /\ Weight(r.stage) = 0
      /\ Descriptors(c) \in Nat
  BY <1>4, <1>5 DEF Weight, Descriptors, Running, Wired, Signing
<1>9. /\ fds' \in Int /\ fds' <= FdLimit
      /\ fds' + Weight(conn[c].stage) = fds + Weight(r.stage)
  BY <1>1, <1>2, <1>8
<1> QED
  BY <1>2, <1>3, <1>4, <1>7, <1>9, TaskStep

LEMMA FailKeeps ==
  ASSUME InitiatorInv, NEW c \in Conns, conn[c].stage \in Running,
         NEW error \in {"NoPolicyForPeer", "TcpAo", "Io"}, Fail(c, error)
  PROVE  InitiatorInv'
BY ReturnKeeps DEF Fail, Ended

LEMMA SelectPolicyKeeps ==
  ASSUME InitiatorInv, NEW c \in Conns, SelectPolicyFor(c)
  PROVE  InitiatorInv'
<1> DEFINE p == SelectPolicy(cfg.policies, cfg.ip, cfg.port)
           r == [conn[c] EXCEPT !.policy = p, !.stage = "open", !.seen = {store[p]}]
<1>1. conn[c].stage = "select" /\ conn[c].stage \in Running
  BY DEF SelectPolicyFor, Running
<1>2. CASE p = None
  BY <1>1, <1>2, FailKeeps DEF SelectPolicyFor
<1>3. CASE p # None
  <2>1. GoOn(c, r) /\ UNCHANGED fds
    BY <1>3 DEF SelectPolicyFor
  <2>2. p \in DOMAIN cfg.policies /\ p \in Nat
    BY <1>3, ConfigFacts, SelectedWithPort DEF InitiatorInv
  <2>3. store[p] \in Material
    BY <2>2 DEF InitiatorInv, TypeOK
  <2>4. /\ proc = "listening" /\ conn[c] \in ConnType /\ ConnInv(c)
        /\ fds \in 0..FdLimit /\ FdLimit \in Nat
    BY <1>1, RunningFacts
  <2>5. r \in ConnType /\ r.stage = "open" /\ r.policy = p /\ r.seen = {store[p]}
        /\ r.key = conn[c].key /\ r.contacted = conn[c].contacted
        /\ r.required = conn[c].required
    <3> HIDE DEF p
    <3>1. "open" \in Stages
      BY DEF Stages, Running
    <3> QED
      BY <2>2, <2>3, <2>4, <3>1 DEF ConnType
  <2>6. conn[c].key = "none" /\ "none" \notin Keys /\ ~conn[c].contacted
    BY <1>1, <2>4, KeysAssumption DEF ConnInv, Unsigned
  <2>7. p = SelectPolicy(cfg.policies, cfg.ip, cfg.port)
    OBVIOUS
  <2> HIDE DEF p, r
  <2>8. conn'[c] = r /\ UNCHANGED <<cfg, proc, store>>
    BY <2>1, GoOnFacts
  <2>9. ConnInv(c)'
    BY <1>3, <2>4, <2>5, <2>6, <2>7, <2>8
    DEF ConnInv, Running, Wired, Signing, Chosen, Unsigned, Stored
  <2>10. /\ fds' \in Int /\ fds' <= FdLimit
         /\ fds' + Weight(conn[c].stage) = fds + Weight(r.stage)
    BY <1>1, <2>1, <2>4, <2>5 DEF Weight, Running, Wired, Signing
  <2> QED
    BY <1>1, <2>1, <2>5, <2>9, <2>10, TaskStep DEF Running
<1> QED
  BY <1>2, <1>3

(* After select_policy a task keeps its entry and what was seen of its key.*)
LEMMA WiredStep ==
  ASSUME InitiatorInv, NEW c \in Conns, conn[c].stage \in Chosen,
         NEW r \in ConnType, GoOn(c, r), r.stage \in Wired,
         r.policy = conn[c].policy, r.seen = conn[c].seen,
         Applies(cfg.keepalive),
         r.stage \in Unsigned => r.key = "none",
         r.stage \in Unsigned \cup {"require", "dial"} => ~r.contacted,
         r.stage = "read" => r.loaded \in r.seen,
         r.stage = "install" => r.loaded \in r.seen \ NoKeys,
         r.stage = "require" => r.key \in Keys,
         r.stage = "dial" \/ r.contacted =>
           cfg.bypass \/ (r.key \in Keys /\ r.required),
         r.key \in Keys => r.key \in r.seen,
         fds' \in Int, fds' <= FdLimit,
         fds' + Weight(conn[c].stage) = fds + Weight(r.stage)
  PROVE  InitiatorInv'
<1>1. conn[c].stage \in Running /\ r.stage \in Running \cap Chosen
      /\ r.stage \notin {"free", "backlog"}
  BY DEF Chosen, Running, Wired, Signing
<1>2. proc = "listening" /\ ConnInv(c)
  BY <1>1, RunningFacts
<1>3. conn'[c] = r /\ UNCHANGED <<cfg, proc, store>>
  BY GoOnFacts
<1>4. /\ conn[c].policy # None
      /\ conn[c].policy = SelectPolicy(cfg.policies, cfg.ip, cfg.port)
      /\ Stored(c) \in conn[c].seen
  BY <1>2 DEF ConnInv
<1>5. Stored(c)' = Stored(c)
  BY <1>3 DEF Stored
<1>6. ConnInv(c)'
  BY <1>1, <1>2, <1>3, <1>4, <1>5 DEF ConnInv
<1> QED
  BY <1>1, <1>6, TaskStep

(* What is known of a task that has its entry.                             *)
LEMMA ChosenFacts ==
  ASSUME InitiatorInv, NEW c \in Conns, conn[c].stage \in Chosen
  PROVE  /\ conn[c].stage \in Running
         /\ conn[c] \in ConnType /\ ConnInv(c)
         /\ fds \in 0..FdLimit /\ FdLimit \in Nat
         /\ Stored(c) \in conn[c].seen
         /\ Stored(c) \in Material
         /\ "none" \notin Keys
<1>1. conn[c].stage \in Running
  BY DEF Chosen
<1>2. conn[c] \in ConnType /\ ConnInv(c) /\ fds \in 0..FdLimit /\ FdLimit \in Nat
  BY <1>1, RunningFacts
<1>3. Stored(c) \in conn[c].seen
  BY <1>2 DEF ConnInv
<1>4. conn[c].seen \subseteq Material
  BY <1>2 DEF ConnType
<1> QED
  BY <1>1, <1>2, <1>3, <1>4, KeysAssumption

LEMMA OpenWireKeeps ==
  ASSUME InitiatorInv, NEW c \in Conns, OpenWire(c)
  PROVE  InitiatorInv'
<1> DEFINE r == [conn[c] EXCEPT !.stage = "load"]
<1>1. conn[c].stage = "open" /\ conn[c].stage \in Chosen
  BY DEF OpenWire, Chosen, Running
<1>2. /\ conn[c].stage \in Running /\ conn[c] \in ConnType /\ ConnInv(c)
      /\ fds \in 0..FdLimit /\ FdLimit \in Nat /\ "none" \notin Keys
  BY <1>1, ChosenFacts
<1>3. CASE Fail(c, "Io")
  BY <1>2, <1>3, FailKeeps
<1>4. CASE ~Fail(c, "Io")
  <2>1. fds < FdLimit /\ Applies(cfg.keepalive) /\ fds' = fds + 1 /\ GoOn(c, r)
    BY <1>4 DEF OpenWire
  <2>2. r \in ConnType /\ r.stage = "load" /\ r.policy = conn[c].policy
        /\ r.seen = conn[c].seen /\ r.key = conn[c].key
        /\ r.contacted = conn[c].contacted
    <3>1. "load" \in Stages
      BY DEF Stages, Running, Wired, Signing
    <3> QED
      BY <1>2, <3>1 DEF ConnType
  <2>3. conn[c].key = "none" /\ ~conn[c].contacted
    BY <1>1, <1>2 DEF ConnInv, Unsigned
  <2>4. /\ fds' \in Int /\ fds' <= FdLimit
        /\ fds' + Weight(conn[c].stage) = fds + Weight(r.stage)
    BY <1>1, <1>2, <2>1, <2>2 DEF Weight, Running, Wired, Signing
  <2> HIDE DEF r
  <2> QED
    BY <1>1, <1>2, <2>1, <2>2, <2>3, <2>4, WiredStep DEF Wired, Signing
<1> QED
  BY <1>3, <1>4

(* The steps of apply_outbound_policy.  The key that signs is one the store*)
(* held while the connection was looked after.                             *)
LEMMA SkipPolicyKeeps ==
  ASSUME InitiatorInv, NEW c \in Conns, SkipPolicy(c)
  PROVE  InitiatorInv'
<1> DEFINE r == [conn[c] EXCEPT !.stage = "dial"]
<1>1. /\ conn[c].stage = "load" /\ conn[c].stage \in Chosen
      /\ cfg.bypass /\ GoOn(c, r) /\ UNCHANGED fds
  BY DEF SkipPolicy, Chosen, Running, Wired, Signing
<1>2. /\ conn[c] \in ConnType /\ ConnInv(c)
      /\ fds \in 0..FdLimit /\ FdLimit \in Nat /\ "none" \notin Keys
  BY <1>1, ChosenFacts
<1>3. r \in ConnType /\ r.stage = "dial" /\ r.policy = conn[c].policy
      /\ r.seen = conn[c].seen /\ r.key = conn[c].key
      /\ r.contacted = conn[c].contacted
  <2>1. "dial" \in Stages
    BY DEF Stages, Running, Wired
  <2> QED
    BY <1>2, <2>1 DEF ConnType
<1>4. conn[c].key = "none" /\ ~conn[c].contacted /\ Applies(cfg.keepalive)
  BY <1>1, <1>2 DEF ConnInv, Unsigned, Wired, Signing
<1>5. /\ fds' \in Int /\ fds' <= FdLimit
      /\ fds' + Weight(conn[c].stage) = fds + Weight(r.stage)
  BY <1>1, <1>2, <1>3 DEF Weight, Wired, Signing
<1> HIDE DEF r
<1> QED
  BY <1>1, <1>2, <1>3, <1>4, <1>5, WiredStep DEF Wired, Unsigned

LEMMA ReadKeyEnvKeeps ==
  ASSUME InitiatorInv, NEW c \in Conns, ReadKeyEnv(c)
  PROVE  InitiatorInv'
<1> DEFINE r == [conn[c] EXCEPT !.stage = "install", !.loaded = Stored(c)]
<1>1. conn[c].stage = "load" /\ conn[c].stage \in Chosen
  BY DEF ReadKeyEnv, Chosen, Running, Wired, Signing
<1>2. /\ conn[c].stage \in Running /\ conn[c] \in ConnType /\ ConnInv(c)
      /\ fds \in 0..FdLimit /\ FdLimit \in Nat /\ "none" \notin Keys
      /\ Stored(c) \in conn[c].seen /\ Stored(c) \in Material
  BY <1>1, ChosenFacts
<1>3. CASE Fail(c, "TcpAo")
  BY <1>2, <1>3, FailKeeps
<1>4. CASE ~Fail(c, "TcpAo")
  <2>1. Loads(Stored(c)) /\ GoOn(c, r) /\ UNCHANGED fds
    BY <1>4 DEF ReadKeyEnv
  <2>2. r \in ConnType /\ r.stage = "install" /\ r.policy = conn[c].policy
        /\ r.seen = conn[c].seen /\ r.key = conn[c].key
        /\ r.contacted = conn[c].contacted /\ r.loaded = Stored(c)
    <3>1. "install" \in Stages
      BY DEF Stages, Running, Wired, Signing
    <3> QED
      BY <1>2, <3>1 DEF ConnType
  <2>3. conn[c].key = "none" /\ ~conn[c].contacted /\ Applies(cfg.keepalive)
    BY <1>1, <1>2 DEF ConnInv, Unsigned, Wired, Signing
  <2>4. r.loaded \in r.seen \ NoKeys
    BY <1>2, <2>1, <2>2 DEF Loads
  <2>5. /\ fds' \in Int /\ fds' <= FdLimit
        /\ fds' + Weight(conn[c].stage) = fds + Weight(r.stage)
    BY <1>1, <1>2, <2>1, <2>2 DEF Weight, Wired, Signing
  <2> HIDE DEF r
  <2> QED
    BY <1>1, <1>2, <2>1, <2>2, <2>3, <2>4, <2>5, WiredStep DEF Wired, Signing
<1> QED
  BY <1>3, <1>4

LEMMA OpenKeyFileKeeps ==
  ASSUME InitiatorInv, NEW c \in Conns, OpenKeyFile(c)
  PROVE  InitiatorInv'
<1> DEFINE r == [conn[c] EXCEPT !.stage = "read", !.loaded = Stored(c)]
<1>1. conn[c].stage = "load" /\ conn[c].stage \in Chosen
  BY DEF OpenKeyFile, Chosen, Running, Wired, Signing
<1>2. /\ conn[c].stage \in Running /\ conn[c] \in ConnType /\ ConnInv(c)
      /\ fds \in 0..FdLimit /\ FdLimit \in Nat /\ "none" \notin Keys
      /\ Stored(c) \in conn[c].seen /\ Stored(c) \in Material
  BY <1>1, ChosenFacts
<1>3. CASE Fail(c, "TcpAo")
  BY <1>2, <1>3, FailKeeps
<1>4. CASE ~Fail(c, "TcpAo")
  <2>1. fds < FdLimit /\ fds' = fds + 1 /\ GoOn(c, r)
    BY <1>4 DEF OpenKeyFile
  <2>2. r \in ConnType /\ r.stage = "read" /\ r.policy = conn[c].policy
        /\ r.seen = conn[c].seen /\ r.key = conn[c].key
        /\ r.contacted = conn[c].contacted /\ r.loaded = Stored(c)
    <3>1. "read" \in Stages
      BY DEF Stages, Running, Wired, Signing
    <3> QED
      BY <1>2, <3>1 DEF ConnType
  <2>3. conn[c].key = "none" /\ ~conn[c].contacted /\ Applies(cfg.keepalive)
    BY <1>1, <1>2 DEF ConnInv, Unsigned, Wired, Signing
  <2>4. /\ fds' \in Int /\ fds' <= FdLimit
        /\ fds' + Weight(conn[c].stage) = fds + Weight(r.stage)
    BY <1>1, <1>2, <2>1, <2>2 DEF Weight, Wired, Signing
  <2> HIDE DEF r
  <2> QED
    BY <1>1, <1>2, <2>1, <2>2, <2>3, <2>4, WiredStep DEF Wired, Signing
<1> QED
  BY <1>3, <1>4

LEMMA ReadKeyFileKeeps ==
  ASSUME InitiatorInv, NEW c \in Conns, ReadKeyFile(c)
  PROVE  InitiatorInv'
<1> DEFINE r == [conn[c] EXCEPT !.stage = "install"]
<1>1. conn[c].stage = "read" /\ conn[c].stage \in Chosen
  BY DEF ReadKeyFile, Chosen, Running, Wired, Signing
<1>2. /\ conn[c].stage \in Running /\ conn[c] \in ConnType /\ ConnInv(c)
      /\ fds \in 0..FdLimit /\ FdLimit \in Nat /\ "none" \notin Keys
  BY <1>1, ChosenFacts
<1>3. CASE Fail(c, "TcpAo")
  BY <1>2, <1>3, FailKeeps
<1>4. CASE ~Fail(c, "TcpAo")
  <2>1. Loads(conn[c].loaded) /\ fds' = fds - 1 /\ GoOn(c, r)
    BY <1>4 DEF ReadKeyFile
  <2>2. r \in ConnType /\ r.stage = "install" /\ r.policy = conn[c].policy
        /\ r.seen = conn[c].seen /\ r.key = conn[c].key
        /\ r.contacted = conn[c].contacted /\ r.loaded = conn[c].loaded
    <3>1. "install" \in Stages
      BY DEF Stages, Running, Wired, Signing
    <3> QED
      BY <1>2, <3>1 DEF ConnType
  <2>3. conn[c].key = "none" /\ ~conn[c].contacted /\ Applies(cfg.keepalive)
    BY <1>1, <1>2 DEF ConnInv, Unsigned, Wired, Signing
  <2>4. r.loaded \in r.seen \ NoKeys
    BY <1>1, <1>2, <2>1, <2>2 DEF ConnInv, Loads
  <2>5. /\ fds' \in Int /\ fds' <= FdLimit
        /\ fds' + Weight(conn[c].stage) = fds + Weight(r.stage)
    BY <1>1, <1>2, <2>1, <2>2 DEF Weight, Wired, Signing
  <2> HIDE DEF r
  <2> QED
    BY <1>1, <1>2, <2>1, <2>2, <2>3, <2>4, <2>5, WiredStep DEF Wired, Signing
<1> QED
  BY <1>3, <1>4

LEMMA InstallKeyKeeps ==
  ASSUME InitiatorInv, NEW c \in Conns, InstallKey(c)
  PROVE  InitiatorInv'
<1> DEFINE r == [conn[c] EXCEPT !.stage = "require", !.loaded = "none",
                                !.key = conn[c].loaded]
<1>1. conn[c].stage = "install" /\ conn[c].stage \in Chosen
  BY DEF InstallKey, Chosen, Running, Wired, Signing
<1>2. /\ conn[c].stage \in Running /\ conn[c] \in ConnType /\ ConnInv(c)
      /\ fds \in 0..FdLimit /\ FdLimit \in Nat
  BY <1>1, ChosenFacts
<1>3. CASE Fail(c, "TcpAo")
  BY <1>2, <1>3, FailKeeps
<1>4. CASE ~Fail(c, "TcpAo")
  <2>1. Installable(conn[c].loaded) /\ GoOn(c, r) /\ UNCHANGED fds
    BY <1>4 DEF InstallKey
  <2>2. conn[c].loaded \in conn[c].seen \ NoKeys /\ ~conn[c].contacted
        /\ Applies(cfg.keepalive)
    BY <1>1, <1>2 DEF ConnInv, Unsigned, Wired, Signing
  <2>3. conn[c].seen \subseteq Material
    BY <1>2 DEF ConnType
  <2>4. conn[c].loaded \in Keys
    BY <2>1, <2>2, <2>3 DEF Material, Installable
  <2>5. r \in ConnType /\ r.stage = "require" /\ r.policy = conn[c].policy
        /\ r.seen = conn[c].seen /\ r.key = conn[c].loaded
        /\ r.contacted = conn[c].contacted
    <3>1. "require" \in Stages
      BY DEF Stages, Running, Wired, Signing
    <3> QED
      BY <1>2, <2>4, <3>1 DEF ConnType
  <2>6. /\ fds' \in Int /\ fds' <= FdLimit
        /\ fds' + Weight(conn[c].stage) = fds + Weight(r.stage)
    BY <1>1, <1>2, <2>1, <2>5 DEF Weight, Wired, Signing
  <2> HIDE DEF r
  <2> QED
    BY <1>1, <2>1, <2>2, <2>4, <2>5, <2>6, WiredStep DEF Wired, Signing, Unsigned
<1> QED
  BY <1>3, <1>4

LEMMA RequireAoKeeps ==
  ASSUME InitiatorInv, NEW c \in Conns, RequireAo(c)
  PROVE  InitiatorInv'
<1> DEFINE r == [conn[c] EXCEPT !.stage = "dial", !.required = TRUE]
<1>1. conn[c].stage = "require" /\ conn[c].stage \in Chosen
  BY DEF RequireAo, Chosen, Running, Wired, Signing
<1>2. /\ conn[c].stage \in Running /\ conn[c] \in ConnType /\ ConnInv(c)
      /\ fds \in 0..FdLimit /\ FdLimit \in Nat
  BY <1>1, ChosenFacts
<1>3. CASE Fail(c, "TcpAo")
  BY <1>2, <1>3, FailKeeps
<1>4. CASE ~Fail(c, "TcpAo")
  <2>1. GoOn(c, r) /\ UNCHANGED fds
    BY <1>4 DEF RequireAo
  <2>2. r \in ConnType /\ r.stage = "dial" /\ r.policy = conn[c].policy
        /\ r.seen = conn[c].seen /\ r.key = conn[c].key
        /\ r.contacted = conn[c].contacted /\ r.required = TRUE
    <3>1. "dial" \in Stages
      BY DEF Stages, Running, Wired
    <3> QED
      BY <1>2, <3>1 DEF ConnType
  <2>3. /\ conn[c].key \in Keys /\ conn[c].key \in conn[c].seen
        /\ ~conn[c].contacted /\ Applies(cfg.keepalive)
    BY <1>1, <1>2 DEF ConnInv, Wired, Signing
  <2>4. /\ fds' \in Int /\ fds' <= FdLimit
        /\ fds' + Weight(conn[c].stage) = fds + Weight(r.stage)
    BY <1>1, <1>2, <2>1, <2>2 DEF Weight, Wired, Signing
  <2> HIDE DEF r
  <2> QED
    BY <1>1, <2>1, <2>2, <2>3, <2>4, WiredStep DEF Wired, Unsigned
<1> QED
  BY <1>3, <1>4

LEMMA ConnectKeeps ==
  ASSUME InitiatorInv, NEW c \in Conns, Connect(c)
  PROVE  InitiatorInv'
<1> DEFINE r == [conn[c] EXCEPT !.stage = "connect", !.contacted = TRUE]
<1>1. /\ conn[c].stage = "dial" /\ conn[c].stage \in Chosen
      /\ GoOn(c, r) /\ UNCHANGED fds
  BY DEF Connect, Chosen, Running, Wired, Signing
<1>2. /\ conn[c] \in ConnType /\ ConnInv(c)
      /\ fds \in 0..FdLimit /\ FdLimit \in Nat
  BY <1>1, ChosenFacts
<1>3. r \in ConnType /\ r.stage = "connect" /\ r.policy = conn[c].policy
      /\ r.seen = conn[c].seen /\ r.key = conn[c].key
      /\ r.required = conn[c].required
  <2>1. "connect" \in Stages
    BY DEF Stages, Running, Wired
  <2> QED
    BY <1>2, <2>1 DEF ConnType
<1>4. /\ cfg.bypass \/ (conn[c].key \in Keys /\ conn[c].required)
      /\ conn[c].key \in Keys => conn[c].key \in conn[c].seen
      /\ Applies(cfg.keepalive)
  BY <1>1, <1>2 DEF ConnInv, Wired
<1>5. /\ fds' \in Int /\ fds' <= FdLimit
      /\ fds' + Weight(conn[c].stage) = fds + Weight(r.stage)
  BY <1>1, <1>2, <1>3 DEF Weight, Wired
<1> HIDE DEF r
<1> QED
  BY <1>1, <1>3, <1>4, <1>5, WiredStep DEF Wired, Unsigned

LEMMA ConnectedKeeps ==
  ASSUME InitiatorInv, NEW c \in Conns, Connected(c)
  PROVE  InitiatorInv'
<1> DEFINE r == [conn[c] EXCEPT !.stage = "pump"]
<1>1. conn[c].stage = "connect" /\ conn[c].stage \in Chosen
  BY DEF Connected, Chosen, Running, Wired
<1>2. /\ conn[c].stage \in Running /\ conn[c] \in ConnType /\ ConnInv(c)
      /\ fds \in 0..FdLimit /\ FdLimit \in Nat
  BY <1>1, ChosenFacts
<1>3. CASE Fail(c, "Io")
  BY <1>2, <1>3, FailKeeps
<1>4. CASE ~Fail(c, "Io")
  <2>1. GoOn(c, r) /\ UNCHANGED fds
    BY <1>4 DEF Connected
  <2>2. r \in ConnType /\ r.stage = "pump" /\ r.policy = conn[c].policy
        /\ r.seen = conn[c].seen /\ r.key = conn[c].key
        /\ r.contacted = conn[c].contacted /\ r.required = conn[c].required
    <3>1. "pump" \in Stages
      BY DEF Stages, Running, Wired
    <3> QED
      BY <1>2, <3>1 DEF ConnType
  <2>3. /\ conn[c].contacted => cfg.bypass \/ (conn[c].key \in Keys /\ conn[c].required)
        /\ conn[c].key \in Keys => conn[c].key \in conn[c].seen
        /\ Applies(cfg.keepalive)
    BY <1>1, <1>2 DEF ConnInv, Wired
  <2>4. /\ fds' \in Int /\ fds' <= FdLimit
        /\ fds' + Weight(conn[c].stage) = fds + Weight(r.stage)
    BY <1>1, <1>2, <2>1, <2>2 DEF Weight, Wired
  <2> HIDE DEF r
  <2> QED
    BY <1>1, <2>1, <2>2, <2>3, <2>4, WiredStep DEF Wired, Unsigned
<1> QED
  BY <1>3, <1>4

LEMMA PumpReturnsKeeps ==
  ASSUME InitiatorInv, NEW c \in Conns, PumpReturns(c)
  PROVE  InitiatorInv'
BY ReturnKeeps DEF PumpReturns, Fail, Running, Wired, Ended

LEMMA TaskKeeps ==
  ASSUME InitiatorInv, NEW c \in Conns, Task(c)
  PROVE  InitiatorInv'
BY SelectPolicyKeeps, OpenWireKeeps, SkipPolicyKeeps, ReadKeyEnvKeeps,
   OpenKeyFileKeeps, ReadKeyFileKeeps, InstallKeyKeeps, RequireAoKeeps,
   ConnectKeeps, ConnectedKeeps, PumpReturnsKeeps DEF Task, SetUp

(* What a step of a task does to its own record, and to nothing else: it   *)
(* ends the session, with the error of select_policy only if that has no   *)
(* entry; or it goes on, and may call connect().                           *)
LEMMA TaskEffect ==
  ASSUME InitiatorInv, NEW c \in Conns, Task(c)
  PROVE  /\ conn[c].stage \in Running
         /\ UNCHANGED <<procVars, backlog, worldVars>>
         /\ \A d \in Conns \ {c} : conn'[d] = conn[d]
         /\ \/ /\ conn'[c].stage \in Ended
               /\ conn'[c].contacted = conn[c].contacted
               /\ conn'[c].error = "NoPolicyForPeer" =>
                    SelectPolicy(cfg.policies, cfg.ip, cfg.port) = None
            \/ /\ conn'[c].stage \in Running
               /\ conn'[c].error = conn[c].error
               /\ conn'[c].contacted \in {conn[c].contacted, TRUE}
<1>1. conn \in [Conns -> ConnType]
  BY DEF InitiatorInv, TypeOK
<1>2. ASSUME NEW r, GoOn(c, r)
      PROVE  /\ conn'[c] = r
             /\ UNCHANGED <<procVars, backlog, worldVars>>
             /\ \A d \in Conns \ {c} : conn'[d] = conn[d]
  BY <1>1, <1>2 DEF GoOn
<1>3. conn[c].stage \in Running
  BY DEF Task, SetUp, SelectPolicyFor, OpenWire, SkipPolicy, ReadKeyEnv, OpenKeyFile,
         ReadKeyFile, InstallKey, RequireAo, Connect, Connected, PumpReturns,
         Running, Wired, Signing
<1>4. conn[c] \in ConnType
  BY <1>1
<1> DEFINE Goes == /\ UNCHANGED <<procVars, backlog, worldVars>>
                   /\ \A d \in Conns \ {c} : conn'[d] = conn[d]
                   /\ \/ /\ conn'[c].stage \in Ended
                         /\ conn'[c].contacted = conn[c].contacted
                         /\ conn'[c].error = "NoPolicyForPeer" =>
                              SelectPolicy(cfg.policies, cfg.ip, cfg.port) = None
                      \/ /\ conn'[c].stage \in Running
                         /\ conn'[c].error = conn[c].error
                         /\ conn'[c].contacted \in {conn[c].contacted, TRUE}
<1> SUFFICES Goes
  BY <1>3
<1>5. ASSUME NEW stage \in Ended, NEW error, Return(c, stage, error),
             error = "NoPolicyForPeer" =>
               SelectPolicy(cfg.policies, cfg.ip, cfg.port) = None
      PROVE  Goes
  <2> DEFINE r == [conn[c] EXCEPT !.stage = stage, !.error = error, !.loaded = "none"]
  <2>1. r.stage = stage /\ r.error = error /\ r.contacted = conn[c].contacted
    BY <1>4 DEF ConnType
  <2>2. GoOn(c, r)
    BY <1>5 DEF Return
  <2> HIDE DEF r
  <2> QED
    BY <1>2, <1>5, <2>1, <2>2
<1>6. ASSUME NEW error, Fail(c, error),
             error = "NoPolicyForPeer" =>
               SelectPolicy(cfg.policies, cfg.ip, cfg.port) = None
      PROVE  Goes
  <2>1. "failed" \in Ended
    BY DEF Ended
  <2> HIDE DEF Goes
  <2> QED
    BY <1>5, <1>6, <2>1 DEF Fail
<1>7. ASSUME NEW r, GoOn(c, r), r.stage \in Running, r.error = conn[c].error,
             r.contacted \in {conn[c].contacted, TRUE}
      PROVE  Goes
  BY <1>2, <1>7
<1> HIDE DEF Goes
<1>8. CASE SelectPolicyFor(c)
  <2> DEFINE p == SelectPolicy(cfg.policies, cfg.ip, cfg.port)
             r == [conn[c] EXCEPT !.policy = p, !.stage = "open", !.seen = {store[p]}]
  <2>1. r.stage \in Running /\ r.error = conn[c].error /\ r.contacted = conn[c].contacted
    BY <1>4 DEF ConnType, Running
  <2>2. CASE p # None
    <3>1. GoOn(c, r)
      BY <1>8, <2>2 DEF SelectPolicyFor
    <3> QED
      BY <1>7, <2>1, <3>1
  <2>3. CASE p = None
    BY <1>6, <1>8, <2>3 DEF SelectPolicyFor
  <2> QED
    BY <2>2, <2>3
<1>9. CASE OpenWire(c)
  <2> DEFINE r == [conn[c] EXCEPT !.stage = "load"]
  <2>1. r.stage \in Running /\ r.error = conn[c].error /\ r.contacted = conn[c].contacted
    BY <1>4 DEF ConnType, Running, Wired, Signing
  <2>2. GoOn(c, r) \/ Fail(c, "Io")
    BY <1>9 DEF OpenWire
  <2> HIDE DEF r
  <2> QED
    BY <1>6, <1>7, <2>1, <2>2
<1>10. CASE SkipPolicy(c)
  <2> DEFINE r == [conn[c] EXCEPT !.stage = "dial"]
  <2>1. r.stage \in Running /\ r.error = conn[c].error /\ r.contacted = conn[c].contacted
    BY <1>4 DEF ConnType, Running, Wired
  <2>2. GoOn(c, r)
    BY <1>10 DEF SkipPolicy
  <2> HIDE DEF r
  <2> QED
    BY <1>7, <2>1, <2>2
<1>11. CASE ReadKeyEnv(c)
  <2> DEFINE r == [conn[c] EXCEPT !.stage = "install", !.loaded = Stored(c)]
  <2>1. r.stage \in Running /\ r.error = conn[c].error /\ r.contacted = conn[c].contacted
    BY <1>4 DEF ConnType, Running, Wired, Signing
  <2>2. GoOn(c, r) \/ Fail(c, "TcpAo")
    BY <1>11 DEF ReadKeyEnv
  <2> HIDE DEF r
  <2> QED
    BY <1>6, <1>7, <2>1, <2>2
<1>12. CASE OpenKeyFile(c)
  <2> DEFINE r == [conn[c] EXCEPT !.stage = "read", !.loaded = Stored(c)]
  <2>1. r.stage \in Running /\ r.error = conn[c].error /\ r.contacted = conn[c].contacted
    BY <1>4 DEF ConnType, Running, Wired, Signing
  <2>2. GoOn(c, r) \/ Fail(c, "TcpAo")
    BY <1>12 DEF OpenKeyFile
  <2> HIDE DEF r
  <2> QED
    BY <1>6, <1>7, <2>1, <2>2
<1>13. CASE ReadKeyFile(c)
  <2> DEFINE r == [conn[c] EXCEPT !.stage = "install"]
  <2>1. r.stage \in Running /\ r.error = conn[c].error /\ r.contacted = conn[c].contacted
    BY <1>4 DEF ConnType, Running, Wired, Signing
  <2>2. GoOn(c, r) \/ Fail(c, "TcpAo")
    BY <1>13 DEF ReadKeyFile
  <2> HIDE DEF r
  <2> QED
    BY <1>6, <1>7, <2>1, <2>2
<1>14. CASE InstallKey(c)
  <2> DEFINE r == [conn[c] EXCEPT !.stage = "require", !.loaded = "none",
                                  !.key = conn[c].loaded]
  <2>1. r.stage \in Running /\ r.error = conn[c].error /\ r.contacted = conn[c].contacted
    BY <1>4 DEF ConnType, Running, Wired, Signing
  <2>2. GoOn(c, r) \/ Fail(c, "TcpAo")
    BY <1>14 DEF InstallKey
  <2> HIDE DEF r
  <2> QED
    BY <1>6, <1>7, <2>1, <2>2
<1>15. CASE RequireAo(c)
  <2> DEFINE r == [conn[c] EXCEPT !.stage = "dial", !.required = TRUE]
  <2>1. r.stage \in Running /\ r.error = conn[c].error /\ r.contacted = conn[c].contacted
    BY <1>4 DEF ConnType, Running, Wired
  <2>2. GoOn(c, r) \/ Fail(c, "TcpAo")
    BY <1>15 DEF RequireAo
  <2> HIDE DEF r
  <2> QED
    BY <1>6, <1>7, <2>1, <2>2
<1>16. CASE Connect(c)
  <2> DEFINE r == [conn[c] EXCEPT !.stage = "connect", !.contacted = TRUE]
  <2>1. r.stage \in Running /\ r.error = conn[c].error /\ r.contacted = TRUE
    BY <1>4 DEF ConnType, Running, Wired
  <2>2. GoOn(c, r)
    BY <1>16 DEF Connect
  <2> HIDE DEF r
  <2> QED
    BY <1>7, <2>1, <2>2
<1>17. CASE Connected(c)
  <2> DEFINE r == [conn[c] EXCEPT !.stage = "pump"]
  <2>1. r.stage \in Running /\ r.error = conn[c].error /\ r.contacted = conn[c].contacted
    BY <1>4 DEF ConnType, Running, Wired
  <2>2. GoOn(c, r) \/ Fail(c, "Io")
    BY <1>17 DEF Connected
  <2> HIDE DEF r
  <2> QED
    BY <1>6, <1>7, <2>1, <2>2
<1>18. CASE PumpReturns(c)
  BY <1>5, <1>6, <1>18 DEF PumpReturns, Ended
<1> QED
  BY <1>8, <1>9, <1>10, <1>11, <1>12, <1>13, <1>14, <1>15, <1>16, <1>17, <1>18
  DEF Task, SetUp

-----------------------------------------------------------------------------
(* Steps of the listener, of its clients and of the world.                 *)

LEMMA AcceptKeeps ==
  ASSUME InitiatorInv, Accept
  PROVE  InitiatorInv'
<1>0. PICK c : c = Head(backlog)
  OBVIOUS
<1> DEFINE r == [conn[c] EXCEPT !.stage = "select"]
<1>1. /\ backlog \in Seq(Conns) /\ backlog # <<>>
      /\ conn \in [Conns -> ConnType] /\ fds \in Nat /\ FdLimit \in Nat
      /\ proc = "listening"
  BY FdLimitAssumption DEF Accept, InitiatorInv, TypeOK
<1>2. /\ 1 \in DOMAIN backlog /\ c = backlog[1] /\ c \in Conns
      /\ conn[c] \in ConnType /\ conn[c].stage = "backlog"
  BY <1>0, <1>1 DEF InitiatorInv, BacklogInv
<1>3. conn' = [conn EXCEPT ![c] = r]
  BY <1>0, <1>1 DEF Accept
<1>4. r \in ConnType /\ r.stage = "select"
  BY <1>2 DEF ConnType, Stages, Running
<1>5. /\ conn' \in [Conns -> ConnType]
      /\ conn'[c] = r
      /\ \A d \in Conns \ {c} : conn'[d] = conn[d]
  <2> HIDE DEF r
  <2> QED
    BY <1>1, <1>2, <1>3, <1>4
<1>6. ConnInv(c)'
  <2>1. UNCHANGED <<cfg, proc, store>>
    BY DEF Accept, procVars, worldVars
  <2>2. /\ r.key = conn[c].key /\ r.required = conn[c].required
        /\ r.policy = conn[c].policy /\ r.seen = conn[c].seen
        /\ r.contacted = conn[c].contacted
    BY <1>2 DEF ConnType
  <2>3. ConnInv(c)
    BY <1>2 DEF InitiatorInv
  <2> HIDE DEF r
  <2> QED
    BY <1>1, <1>2, <1>4, <1>5, <2>1, <2>2, <2>3
    DEF ConnInv, Chosen, Unsigned, Running, Wired, Signing
<1>7. backlog' \in Seq(Conns) /\ BacklogInv'
  <2>1. backlog' = Tail(backlog) /\ backlog' \in Seq(Conns)
    BY <1>1 DEF Accept
  <2>2. \A k \in DOMAIN backlog' :
          /\ k \in Nat \ {0} /\ k + 1 \in DOMAIN backlog
          /\ backlog'[k] = backlog[k + 1]
    BY <1>1, <2>1
  <2>3. \A k \in DOMAIN backlog : backlog[k] \in Conns
    BY <1>1
  <2>4. \A k \in DOMAIN backlog' : backlog'[k] \in Conns \ {c}
    BY <1>2, <2>2, <2>3 DEF InitiatorInv, BacklogInv
  <2>5. \A j, k \in DOMAIN backlog' : backlog'[j] = backlog'[k] => j = k
    BY <2>2 DEF InitiatorInv, BacklogInv
  <2>6. \A k \in DOMAIN backlog' : conn[backlog'[k]].stage = "backlog"
    BY <2>2 DEF InitiatorInv, BacklogInv
  <2> HIDE DEF r
  <2> QED
    BY <1>5, <2>1, <2>4, <2>5, <2>6 DEF BacklogInv
<1>8. /\ fds' \in Int /\ fds' <= FdLimit
      /\ fds' + Weight(conn[c].stage) = fds + Weight(conn'[c].stage)
  BY <1>1, <1>2, <1>4, <1>5 DEF Accept, Weight, Running, Wired, Signing
<1> HIDE DEF r
<1> QED
  BY <1>1, <1>2, <1>5, <1>6, <1>7, <1>8, OneConnection DEF Accept

LEMMA ClientKeeps ==
  ASSUME InitiatorInv, NEW c \in Conns, ClientConnects(c)
  PROVE  InitiatorInv'
<1> DEFINE r == [conn[c] EXCEPT !.stage = "backlog"]
<1>1. /\ proc = "listening" /\ conn[c].stage = "free"
      /\ conn \in [Conns -> ConnType] /\ backlog \in Seq(Conns)
      /\ fds \in 0..FdLimit /\ FdLimit \in Nat
      /\ BacklogInv /\ ConnInv(c)
  BY FdLimitAssumption DEF ClientConnects, InitiatorInv, TypeOK
<1>2. /\ conn' = [conn EXCEPT ![c] = r]
      /\ backlog' = Append(backlog, c)
      /\ UNCHANGED <<procVars, fds, worldVars>>
  BY <1>1 DEF ClientConnects
<1>3. /\ r.stage = "backlog" /\ ~r.contacted /\ r.key = "none" /\ r \in ConnType
  <2>1. conn[c] = Free /\ conn[c] \in ConnType /\ "backlog" \in Stages
    BY <1>1 DEF ConnInv, Stages
  <2>2. ~conn[c].contacted /\ conn[c].key = "none"
    BY <2>1 DEF Free
  <2> QED
    BY <2>1, <2>2 DEF ConnType
<1> HIDE DEF r
<1>4. /\ conn' \in [Conns -> ConnType]
      /\ conn'[c] = r
      /\ \A d \in Conns \ {c} : conn'[d] = conn[d]
  BY <1>1, <1>2, <1>3
<1>5. ConnInv(c)'
  BY <1>1, <1>2, <1>3, <1>4, KeysAssumption
  DEF ConnInv, Chosen, Unsigned, Running, Wired, Signing, procVars
<1>6. backlog' \in Seq(Conns) /\ BacklogInv'
  <2>1. /\ backlog' \in Seq(Conns)
        /\ \A k \in DOMAIN backlog' :
             \/ k \in DOMAIN backlog /\ backlog'[k] = backlog[k]
             \/ k = Len(backlog) + 1 /\ backlog'[k] = c
    BY <1>1, <1>2
  <2>2. \A k \in DOMAIN backlog : backlog[k] \in Conns \ {c}
    BY <1>1 DEF BacklogInv
  <2> QED
    BY <1>1, <1>3, <1>4, <2>1, <2>2 DEF BacklogInv
<1>7. /\ fds' \in Int /\ fds' <= FdLimit
      /\ fds' + Weight(conn[c].stage) = fds + Weight(conn'[c].stage)
  BY <1>1, <1>2, <1>3, <1>4 DEF Weight, Running, Wired, Signing
<1> QED
  BY <1>1, <1>2, <1>4, <1>5, <1>6, <1>7, OneConnection

LEMMA ForgetKeeps ==
  ASSUME InitiatorInv, NEW c \in Conns, Forget(c)
  PROVE  InitiatorInv'
<1>1. /\ conn[c].stage \in Ended
      /\ conn \in [Conns -> ConnType] /\ backlog \in Seq(Conns)
      /\ fds \in 0..FdLimit /\ FdLimit \in Nat
      /\ conn' = [conn EXCEPT ![c] = Free]
      /\ UNCHANGED <<procVars, fds, backlog, worldVars>>
      /\ BacklogInv
  BY FdLimitAssumption DEF Forget, InitiatorInv, TypeOK
<1>2. Free \in ConnType /\ Free.stage = "free" /\ ~Free.contacted /\ Free.key = "none"
  BY DEF Free, ConnType, Stages
<1>3. /\ conn' \in [Conns -> ConnType]
      /\ conn'[c] = Free
      /\ \A d \in Conns \ {c} : conn'[d] = conn[d]
  BY <1>1, <1>2
<1>4. ConnInv(c)'
  BY <1>2, <1>3, KeysAssumption
  DEF ConnInv, Chosen, Unsigned, Running, Wired, Signing
<1>5. BacklogInv'
  <2>1. \A k \in DOMAIN backlog : backlog[k] # c /\ backlog[k] \in Conns
    BY <1>1 DEF BacklogInv, Ended
  <2> QED
    BY <1>1, <1>3, <2>1, BacklogKept
<1>6. /\ fds' \in Int /\ fds' <= FdLimit
      /\ fds' + Weight(conn[c].stage) = fds + Weight(conn'[c].stage)
  BY <1>1, <1>2, <1>3 DEF Weight, Running, Wired, Signing, Ended
<1> QED
  BY <1>1, <1>3, <1>4, <1>5, <1>6, OneConnection

(* A key file is replaced or written to: whoever works with its entry has  *)
(* seen the key.                                                           *)
LEMMA RotateKeyKeeps ==
  ASSUME InitiatorInv, NEW i \in DOMAIN cfg.policies, NEW key \in Material,
         NEW inPlace \in BOOLEAN, RotateKey(i, key, inPlace)
  PROVE  InitiatorInv'
<1>1. /\ conn \in [Conns -> ConnType] /\ changes \in 0..MaxChanges
      /\ store \in [DOMAIN cfg.policies -> Material]
  BY DEF InitiatorInv, TypeOK
<1>2. /\ changes < MaxChanges /\ changes' = changes + 1
      /\ store' = [store EXCEPT ![i] = key]
      /\ UNCHANGED <<cfg, proc, failure, fds, backlog, remote>>
  BY DEF RotateKey, procVars
<1>3. ASSUME NEW c \in Conns
      PROVE  /\ conn'[c] \in ConnType /\ conn'[c].stage = conn[c].stage
             /\ ConnInv(c)'
  <2>1. conn[c] \in ConnType /\ ConnInv(c)
    BY <1>1 DEF InitiatorInv
  <2>2. CASE conn[c].stage \in Running /\ conn[c].policy = i
    <3> DEFINE loaded == IF inPlace /\ conn[c].stage = "read" THEN key ELSE conn[c].loaded
               r == [conn[c] EXCEPT !.seen = conn[c].seen \cup {key}, !.loaded = loaded]
    <3>1. conn'[c] = r
      BY <2>1, <2>2 DEF RotateKey, ConnType
    <3>2. /\ r \in ConnType /\ r.stage = conn[c].stage
          /\ r.key = conn[c].key /\ r.required = conn[c].required
          /\ r.policy = conn[c].policy /\ r.contacted = conn[c].contacted
          /\ r.seen = conn[c].seen \cup {key}
          /\ r.loaded = loaded
      BY <2>1 DEF ConnType
    <3>3. store'[i] = key /\ conn[c].stage # "free"
      BY <1>1, <1>2, <2>2 DEF Running, Wired, Signing
    <3>4. /\ conn[c].stage = "install" => loaded = conn[c].loaded
          /\ loaded \in {key, conn[c].loaded}
      OBVIOUS
    <3>5. Stored(c)' = key
      BY <2>2, <3>1, <3>2, <3>3 DEF Stored
    <3> HIDE DEF r, loaded
    <3> QED
      BY <1>2, <2>1, <3>1, <3>2, <3>3, <3>4, <3>5 DEF ConnInv
  <2>3. CASE ~(conn[c].stage \in Running /\ conn[c].policy = i)
    <3>1. conn'[c] = conn[c]
      BY <2>3 DEF RotateKey
    <3>2. conn[c].stage \in Chosen => conn[c].policy # i
      BY <2>3 DEF Chosen
    <3>3. conn[c].stage \in Chosen => conn[c].policy \in DOMAIN cfg.policies
      BY <2>1, ConfigFacts, SelectedWithPort DEF ConnInv, InitiatorInv
    <3>4. conn[c].stage \in Chosen => Stored(c)' = Stored(c)
      BY <1>1, <1>2, <3>1, <3>2, <3>3 DEF Stored
    <3> QED
      BY <1>2, <2>1, <3>1, <3>4 DEF ConnInv
  <2> QED
    BY <2>2, <2>3
<1>4. TypeOK'
  <2>1. conn' \in [Conns -> ConnType]
    BY <1>3 DEF RotateKey
  <2>2. store' \in [DOMAIN cfg.policies -> Material] /\ changes' \in 0..MaxChanges
    BY <1>1, <1>2, MaxChangesAssumption
  <2> QED
    BY <1>2, <2>1, <2>2 DEF InitiatorInv, TypeOK
<1>5. FdInv'
  <2>1. WithPlain' = WithPlain /\ WithWire' = WithWire /\ WithKeyFile' = WithKeyFile
    BY <1>3 DEF WithPlain, WithWire, WithKeyFile
  <2> QED
    BY <1>2, <2>1 DEF InitiatorInv, FdInv
<1>6. BacklogInv'
  <2>1. \A k \in DOMAIN backlog : backlog[k] \in Conns
    BY DEF InitiatorInv, TypeOK
  <2> QED
    BY <1>2, <1>3, <2>1 DEF InitiatorInv, BacklogInv
<1> QED
  BY <1>3, <1>4, <1>5, <1>6 DEF InitiatorInv

LEMMA RemoteRestartsKeeps ==
  ASSUME InitiatorInv, NEW keys, RemoteRestarts(keys)
  PROVE  InitiatorInv'
<1>1. /\ changes < MaxChanges /\ changes' = changes + 1
      /\ UNCHANGED <<cfg, proc, failure, fds, backlog, conn, store>>
  BY DEF RemoteRestarts, procVars
<1>2. TypeOK'
  BY <1>1, MaxChangesAssumption DEF InitiatorInv, TypeOK
<1>3. \A c \in Conns : ConnInv(c)'
  BY <1>1 DEF InitiatorInv, ConnInv, Stored
<1>4. FdInv' /\ BacklogInv'
  BY <1>1 DEF InitiatorInv, FdInv, WithWire, WithPlain, WithKeyFile, BacklogInv
<1> QED
  BY <1>2, <1>3, <1>4 DEF InitiatorInv

-----------------------------------------------------------------------------
(* The end of the process, and its start.                                  *)

LEMMA ExitKeeps ==
  ASSUME InitiatorInv, NEW error \in {"none", "Config", "AddrParse", "Io"},
         Exit(error)
  PROVE  InitiatorInv'
<1>1. /\ proc' = "exited" /\ failure' = error /\ fds' = 0 /\ backlog' = <<>>
      /\ UNCHANGED <<cfg, store, remote, changes>>
  BY DEF Exit, worldVars
<1>2. conn \in [Conns -> ConnType]
  BY DEF InitiatorInv, TypeOK
<1>3. ASSUME NEW c \in Conns
      PROVE  /\ conn'[c] \in ConnType
             /\ conn'[c].stage \in Ended \cup {"free"}
             /\ ConnInv(c)'
  <2>0. ConnInv(c) /\ conn[c] \in ConnType
    BY <1>2 DEF InitiatorInv
  <2>1. CASE conn[c].stage \in Ended \cup {"free"}
    <3>1. conn'[c] = conn[c]
      BY <2>1 DEF Exit
    <3> QED
      BY <1>1, <2>0, <2>1, <3>1
      DEF ConnInv, Ended, Running, Wired, Signing, Chosen, Unsigned
  <2>2. CASE conn[c].stage \notin Ended \cup {"free"}
    <3> DEFINE r == [conn[c] EXCEPT !.stage = "killed"]
    <3>1. conn'[c] = r
      BY <2>2 DEF Exit
    <3>2. /\ r \in ConnType /\ r.stage = "killed"
          /\ r.key = conn[c].key /\ r.required = conn[c].required
          /\ r.policy = conn[c].policy /\ r.seen = conn[c].seen
          /\ r.contacted = conn[c].contacted
      BY <2>0 DEF ConnType, Stages, Ended
    <3> HIDE DEF r
    <3> QED
      BY <1>1, <2>0, <2>2, <3>1, <3>2
      DEF ConnInv, Ended, Running, Wired, Signing, Chosen, Unsigned
  <2> QED
    BY <2>1, <2>2
<1>4. TypeOK'
  <2>1. conn' \in [Conns -> ConnType]
    BY <1>3 DEF Exit
  <2> QED
    BY <1>1, <2>1, FdLimitAssumption DEF InitiatorInv, TypeOK
<1>5. FdInv'
  BY <1>1 DEF FdInv
<1>6. BacklogInv'
  BY <1>1 DEF BacklogInv
<1> QED
  BY <1>3, <1>4, <1>5, <1>6 DEF InitiatorInv

LEMMA StartupKeeps ==
  ASSUME InitiatorInv, Startup
  PROVE  InitiatorInv'
<1>1. CASE \E error \in {"none", "Config", "AddrParse", "Io"} : Exit(error)
  BY <1>1, ExitKeeps
<1>2. ASSUME \/ proc = "start" /\ proc' = "bind" /\ fds' = 0
             \/ proc = "bind" /\ proc' = "listening" /\ fds' = 1,
             cfg' = cfg, failure' = failure, backlog' = backlog, conn' = conn,
             store' = store, changes' = changes
      PROVE  InitiatorInv'
  <2>1. \A c \in Conns : conn[c].stage \notin {"backlog"} \cup Running
    BY <1>2 DEF InitiatorInv, ConnInv
  <2>2. TypeOK'
    BY <1>2, FdLimitAssumption DEF InitiatorInv, TypeOK
  <2>3. \A c \in Conns : ConnInv(c)'
    BY <1>2, <2>1 DEF InitiatorInv, ConnInv, Stored
  <2>4. FdInv'
    <3>1. /\ Cardinality(WithWire) = 0 /\ Cardinality(WithPlain) = 0
          /\ Cardinality(WithKeyFile) = 0
      BY <2>1, NoneHeld
    <3>2. WithWire' = WithWire /\ WithPlain' = WithPlain /\ WithKeyFile' = WithKeyFile
      BY <1>2 DEF WithWire, WithPlain, WithKeyFile
    <3> QED
      BY <1>2, <3>1, <3>2 DEF FdInv
  <2>5. BacklogInv'
    BY <1>2 DEF InitiatorInv, BacklogInv
  <2> QED
    BY <2>2, <2>3, <2>4, <2>5 DEF InitiatorInv
<1>3. CASE Validate
  <2>1. proc = "start" => fds = 0
    BY DEF InitiatorInv, FdInv
  <2>2. CASE /\ proc = "start" /\ proc' = "bind"
             /\ UNCHANGED <<cfg, failure, fds, backlog, conn, worldVars>>
    <3>1. proc = "start" /\ proc' = "bind" /\ fds' = 0
      BY <2>1, <2>2
    <3>2. /\ cfg' = cfg /\ failure' = failure /\ backlog' = backlog
          /\ conn' = conn /\ store' = store /\ changes' = changes
      BY <2>2 DEF worldVars
    <3> QED
      BY <1>2, <3>1, <3>2
  <2> QED
    BY <1>1, <1>3, <2>2 DEF Validate
<1>4. CASE Bind
  BY <1>1, <1>2, <1>4 DEF Bind, worldVars
<1> QED
  BY <1>3, <1>4 DEF Startup

-----------------------------------------------------------------------------
(* The invariant holds.                                                    *)

LEMMA InitEstablishes ==
  ASSUME Init
  PROVE  InitiatorInv
<1>1. /\ Free \in ConnType /\ Free.stage = "free" /\ ~Free.contacted
      /\ Free.key = "none"
  BY DEF Free, ConnType, Stages
<1>2. TypeOK
  <2>1. backlog \in Seq(Conns) /\ fds \in 0..FdLimit /\ changes \in 0..MaxChanges
    BY FdLimitAssumption, MaxChangesAssumption DEF Init
  <2>2. conn \in [Conns -> ConnType]
    BY <1>1 DEF Init
  <2> QED
    BY <2>1, <2>2 DEF Init, TypeOK
<1>3. ASSUME NEW c \in Conns PROVE ConnInv(c)
  BY <1>1, KeysAssumption
  DEF Init, ConnInv, Running, Wired, Signing, Chosen, Unsigned
<1>4. FdInv /\ BacklogInv
  BY DEF Init, FdInv, BacklogInv
<1> QED
  BY <1>2, <1>3, <1>4 DEF InitiatorInv

LEMMA NextKeeps ==
  ASSUME InitiatorInv, [Next]_vars
  PROVE  InitiatorInv'
<1>1. CASE Startup
  BY <1>1, StartupKeeps
<1>2. CASE Accept
  BY <1>2, AcceptKeeps
<1>3. CASE AcceptError
  BY <1>3, ExitKeeps DEF AcceptError
<1>4. CASE \E c \in Conns : Task(c)
  BY <1>4, TaskKeeps
<1>5. CASE World
  BY <1>5, ClientKeeps, ForgetKeeps, RotateKeyKeeps, RemoteRestartsKeeps DEF World
<1>6. CASE UNCHANGED vars
  BY <1>6
  DEF vars, InitiatorInv, TypeOK, ConnInv, Stored, FdInv, WithWire, WithPlain,
      WithKeyFile, BacklogInv
<1> QED
  BY <1>1, <1>2, <1>3, <1>4, <1>5, <1>6 DEF Next

(* What each connection has been through fits its state, at every moment,  *)
(* and every descriptor is accounted for.                                  *)
THEOREM InitiatorInvariant == Spec => []InitiatorInv
<1>1. Init => InitiatorInv
  BY InitEstablishes
<1>2. InitiatorInv /\ [Next]_vars => InitiatorInv'
  BY NextKeeps
<1> QED
  BY <1>1, <1>2, PTL DEF Spec

(* Types hold, and no more descriptors are held than the limit allows.     *)
THEOREM InitiatorTypeOK == Spec => []TypeOK
<1>1. InitiatorInv => TypeOK
  BY DEF InitiatorInv
<1> QED
  BY <1>1, InitiatorInvariant, PTL

(* No segment leaves unsigned: when connect() is called the socket has a   *)
(* key and requires AO, although apply_outbound_policy takes several steps *)
(* any of which may fail, and key files change between them.               *)
THEOREM InitiatorSignsFirst == Spec => []SignsFirst
<1>1. InitiatorInv => SignsFirst
  BY DEF InitiatorInv, ConnInv, SignsFirst
<1> QED
  BY <1>1, InitiatorInvariant, PTL

(* A connection signs with a key its entry's file held since the           *)
(* connection was accepted (policy_key_bytes reads it each time).          *)
THEOREM InitiatorKeyFresh == Spec => []KeyFresh
<1>1. InitiatorInv => KeyFresh
  BY DEF InitiatorInv, ConnInv, KeyFresh
<1> QED
  BY <1>1, InitiatorInvariant, PTL

(* With three descriptors for each slot (both sockets, and a key file while*)
(* it is read), one for the listener and one for accept() to take, the     *)
(* accept loop never meets the limit: it never ends.                       *)
LEMMA RoomToAccept ==
  ASSUME InitiatorInv, Ample, proc = "listening"
  PROVE  fds < FdLimit
<1> DEFINE n == Cardinality(Conns)
           w == Cardinality(WithPlain)
           p == Cardinality(WithWire)
           k == Cardinality(WithKeyFile)
<1>1. WithWire \subseteq Conns /\ WithPlain \subseteq Conns /\ WithKeyFile \subseteq Conns
  BY DEF WithWire, WithPlain, WithKeyFile
<1>2. /\ n \in Nat /\ w \in Nat /\ p \in Nat /\ k \in Nat
      /\ w <= n /\ p <= n /\ k <= n
  BY <1>1, ConnsAssumption, FS_Subset, FS_CardinalityType
<1>3. fds = 1 + w + p + k
  BY DEF InitiatorInv, FdInv
<1>4. FdLimit \in Nat /\ FdLimit >= 3 * n + 2
  BY FdLimitAssumption DEF Ample
<1> HIDE DEF n, w, p, k
<1> QED
  BY <1>2, <1>3, <1>4

(* The accept loop does not end for want of descriptors, whatever the tasks*)
(* do with theirs (mode_initiator.rs:29, forward.rs, config.rs:223).       *)
THEOREM InitiatorNeverFalls == Spec => NeverFalls
<1>1. InitiatorInv /\ [Next]_vars
        => [Ample /\ proc = "listening" => proc' = "listening"]_vars
  <2> SUFFICES ASSUME InitiatorInv, Next, Ample, proc = "listening"
               PROVE  proc' = "listening"
    OBVIOUS
  <2>1. ~AcceptError
    BY RoomToAccept, FdLimitAssumption DEF AcceptError, InitiatorInv, TypeOK, Ample
  <2>2. CASE Startup
    BY <2>2 DEF Startup, Validate, Bind
  <2>3. CASE Accept
    BY <2>3 DEF Accept, procVars
  <2>4. CASE \E c \in Conns : Task(c)
    BY <2>4, TaskEffect DEF procVars
  <2>5. CASE World
    BY <2>5 DEF World, ClientConnects, Forget, RotateKey, RemoteRestarts, procVars
  <2> QED
    BY <2>1, <2>2, <2>3, <2>4, <2>5 DEF Next
<1> QED
  BY <1>1, InitiatorInvariant, PTL DEF Spec, NeverFalls

(* When the socket to the terminator is connected, every keepalive value   *)
(* that fits 32 bits is one the kernel takes and was passed as it was given*)
(* (apply_keepalive, set_sockopt_int); larger values are not spoken of.    *)
THEOREM InitiatorKeepaliveAsked == Spec => []KeepaliveAsked
<1>1. InitiatorInv => KeepaliveAsked
  <2> SUFFICES ASSUME InitiatorInv, NEW c \in Conns, conn[c].contacted
               PROVE  AsAsked(cfg.keepalive)
    BY DEF KeepaliveAsked
  <2>1. ConfigOk(cfg)
    BY ConfigsAssumption DEF InitiatorInv, TypeOK
  <2>2. cfg.keepalive \in GlobalConfig /\ Applies(cfg.keepalive)
    BY <2>1 DEF InitiatorInv, ConnInv, ConfigOk
  <2> QED
    BY <2>2, AppliesAsAsked
<1> QED
  BY <1>1, InitiatorInvariant, PTL

-----------------------------------------------------------------------------
(* Initiator implements Gate.                                             *)

(* What Gate sees of one session changes only with its stage and with      *)
(* whether the backend was called for it.                                  *)
LEMMA GateOne ==
  ASSUME NEW c \in Conns,
         \A d \in Conns \ {c} : /\ conn'[d].stage = conn[d].stage
                                /\ conn'[d].contacted = conn[d].contacted
  PROVE  [d \in Conns |-> GateStage(d)]'
           = [[d \in Conns |-> GateStage(d)] EXCEPT ![c] = GateStage(c)']
<1>1. \A d \in Conns \ {c} : GateStage(d)' = GateStage(d)
  BY DEF GateStage
<1> QED
  BY <1>1

(* A step of a task changes its own session only; it ends it or goes on,   *)
(* and when it first calls the backend it goes on.                         *)
LEMMA TaskShape ==
  ASSUME InitiatorInv, NEW c \in Conns, Task(c)
  PROVE  /\ proc = "listening" /\ UNCHANGED <<proc, backlog>>
         /\ \A d \in Conns \ {c} : conn'[d] = conn[d]
         /\ conn[c].stage \in Running
         /\ conn'[c].stage \in Running \cup Ended
         /\ \/ conn'[c].contacted = conn[c].contacted
            \/ conn'[c].contacted = TRUE /\ conn'[c].stage \in Running
BY TaskEffect, RunningFacts DEF procVars

(* A session goes on, is admitted, refused, or over.                       *)
LEMMA TaskImplements ==
  ASSUME InitiatorInv, NEW c \in Conns, Task(c)
  PROVE  G!Next \/ UNCHANGED G!gateVars
<1> DEFINE st == [d \in Conns |-> GateStage(d)]
<1>1. /\ proc = "listening" /\ UNCHANGED <<proc, backlog>>
      /\ \A d \in Conns \ {c} : conn'[d] = conn[d]
      /\ conn[c].stage \in Running
      /\ conn'[c].stage \in Running \cup Ended
      /\ \/ conn'[c].contacted = conn[c].contacted
         \/ conn'[c].contacted = TRUE /\ conn'[c].stage \in Running
  BY TaskShape
<1>2. st' = [st EXCEPT ![c] = GateStage(c)']
  BY <1>1, GateOne
<1>3. GatePhase = "open" /\ GatePhase' = "open"
  BY <1>1 DEF GatePhase
<1>4. GateStage(c) = IF conn[c].contacted THEN "admitted" ELSE "held"
  BY <1>1 DEF GateStage, Running, Wired, Signing, Ended
<1>5. GateStage(c)' = IF conn'[c].stage \in Running
                        THEN IF conn'[c].contacted THEN "admitted" ELSE "held"
                        ELSE IF conn'[c].contacted THEN "over" ELSE "refused"
  BY <1>1 DEF GateStage, Running, Wired, Signing, Ended
<1>6. \/ GateStage(c)' = GateStage(c)
      \/ GateStage(c) = "held" /\ GateStage(c)' \in {"admitted", "refused"}
      \/ GateStage(c) = "admitted" /\ GateStage(c)' = "over"
  BY <1>1, <1>4, <1>5
<1>7. st[c] = GateStage(c)
  OBVIOUS
<1> HIDE DEF st
<1>8. CASE GateStage(c)' = GateStage(c)
  <2>1. st' = st
    BY <1>2, <1>7, <1>8 DEF st
  <2> QED
    BY <1>1, <1>3, <2>1 DEF G!gateVars, st
<1>9. CASE GateStage(c)' # GateStage(c)
  BY <1>1, <1>2, <1>3, <1>6, <1>7, <1>9
  DEF G!Next, G!Admit, G!Refuse, G!Finish, G!Turn, st
<1> QED
  BY <1>8, <1>9

(* The accept loop takes the oldest session.                               *)
LEMMA AcceptImplements ==
  ASSUME InitiatorInv, Accept
  PROVE  G!Take
<1>0. PICK c : c = Head(backlog)
  OBVIOUS
<1> DEFINE st == [d \in Conns |-> GateStage(d)]
<1>1. /\ conn \in [Conns -> ConnType] /\ c \in Conns
      /\ conn[c].stage = "backlog" /\ ConnInv(c)
  <2>1. backlog \in Seq(Conns) /\ 1 \in DOMAIN backlog /\ c = backlog[1]
    BY <1>0 DEF Accept, InitiatorInv, TypeOK
  <2> QED
    BY <2>1 DEF InitiatorInv, TypeOK, BacklogInv
<1>2. /\ proc = "listening" /\ proc' = proc
      /\ backlog # <<>> /\ backlog' = Tail(backlog)
      /\ conn' = [conn EXCEPT ![c].stage = "select"]
  BY <1>0 DEF Accept, procVars
<1>3. /\ conn'[c].stage = "select" /\ conn'[c].contacted = conn[c].contacted
      /\ \A d \in Conns \ {c} : conn'[d] = conn[d]
  BY <1>1, <1>2 DEF ConnType
<1>4. ~conn[c].contacted
  BY <1>1 DEF ConnInv, Unsigned
<1>5. GateStage(c) = "waiting" /\ GateStage(c)' = "held"
  BY <1>1, <1>3, <1>4 DEF GateStage, Running, Wired, Signing, Ended
<1>6. st' = [st EXCEPT ![c] = "held"] /\ st[c] = "waiting"
  <2>1. st' = [st EXCEPT ![c] = GateStage(c)']
    BY <1>1, <1>3, GateOne
  <2> QED
    BY <1>1, <1>5, <2>1
<1>7. GatePhase = "open" /\ GatePhase' = "open"
  BY <1>2 DEF GatePhase
<1> QED
  BY <1>0, <1>2, <1>6, <1>7 DEF G!Take

LEMMA ClientImplements ==
  ASSUME InitiatorInv, NEW c \in Conns, ClientConnects(c)
  PROVE  G!Arrive(c)
<1> DEFINE st == [d \in Conns |-> GateStage(d)]
<1>1. /\ proc = "listening" /\ proc' = proc /\ conn[c].stage = "free"
      /\ backlog' = Append(backlog, c)
      /\ conn' = [conn EXCEPT ![c].stage = "backlog"]
      /\ conn \in [Conns -> ConnType]
  BY DEF ClientConnects, procVars, InitiatorInv, TypeOK
<1>2. /\ conn'[c].stage = "backlog"
      /\ \A d \in Conns \ {c} : conn'[d] = conn[d]
  BY <1>1 DEF ConnType
<1>3. GateStage(c) = "none" /\ GateStage(c)' = "waiting"
  BY <1>1, <1>2 DEF GateStage, Running, Wired, Signing, Ended
<1>4. st' = [st EXCEPT ![c] = "waiting"] /\ st[c] = "none"
  <2>1. st' = [st EXCEPT ![c] = GateStage(c)']
    BY <1>2, GateOne
  <2> QED
    BY <1>3, <2>1
<1>5. GatePhase = "open" /\ GatePhase' = "open"
  BY <1>1 DEF GatePhase
<1> QED
  BY <1>1, <1>4, <1>5 DEF G!Arrive

LEMMA ForgetImplements ==
  ASSUME InitiatorInv, NEW c \in Conns, Forget(c)
  PROVE  G!Forget(c)
<1> DEFINE st == [d \in Conns |-> GateStage(d)]
<1>1. /\ conn[c].stage \in Ended /\ UNCHANGED <<proc, backlog>>
      /\ conn' = [conn EXCEPT ![c] = Free]
      /\ conn \in [Conns -> ConnType]
  BY DEF Forget, procVars, InitiatorInv, TypeOK
<1>2. conn'[c].stage = "free" /\ \A d \in Conns \ {c} : conn'[d] = conn[d]
  BY <1>1 DEF Free
<1>3. GateStage(c) \in {"refused", "over"} /\ GateStage(c)' = "none"
  BY <1>1, <1>2 DEF GateStage, Ended, Running, Wired, Signing
<1>4. st' = [st EXCEPT ![c] = "none"] /\ st[c] \in {"refused", "over"}
  <2>1. st' = [st EXCEPT ![c] = GateStage(c)']
    BY <1>2, GateOne
  <2> QED
    BY <1>3, <2>1
<1>5. GatePhase' = GatePhase
  BY <1>1 DEF GatePhase
<1> QED
  BY <1>1, <1>4, <1>5 DEF G!Forget

(* The end of the process is the end of every session.                     *)
LEMMA ExitImplements ==
  ASSUME InitiatorInv, proc # "exited", NEW error, Exit(error)
  PROVE  G!Stop
<1> DEFINE st == [d \in Conns |-> GateStage(d)]
<1>1. /\ proc' = "exited" /\ backlog' = <<>>
      /\ conn' = [c \in Conns |-> IF conn[c].stage \in Ended \cup {"free"}
                                    THEN conn[c]
                                    ELSE [conn[c] EXCEPT !.stage = "killed"]]
      /\ conn \in [Conns -> ConnType]
  BY DEF Exit, InitiatorInv, TypeOK
<1>2. ASSUME NEW c \in Conns PROVE GateStage(c)' = G!Stopped(GateStage(c))
  <2>0. conn[c] \in ConnType /\ ConnInv(c)
    BY <1>1 DEF InitiatorInv
  <2>1. CASE conn[c].stage \in Ended \cup {"free"}
    <3>1. conn'[c] = conn[c]
      BY <1>1, <2>1
    <3>2. GateStage(c)' = GateStage(c) /\ GateStage(c) \in {"none", "over", "refused"}
      BY <2>1, <3>1 DEF GateStage, Ended, Running, Wired, Signing
    <3> QED
      BY <3>2 DEF G!Stopped
  <2>2. CASE conn[c].stage \notin Ended \cup {"free"}
    <3>1. conn'[c].stage = "killed" /\ conn'[c].contacted = conn[c].contacted
      BY <1>1, <2>0, <2>2 DEF ConnType
    <3>2. GateStage(c)' = IF conn[c].contacted THEN "over" ELSE "refused"
      BY <3>1 DEF GateStage, Ended, Running, Wired, Signing
    <3>3. conn[c].stage = "backlog" \/ conn[c].stage \in Running
      BY <2>0, <2>2 DEF ConnType, Stages
    <3>4. GateStage(c) = IF conn[c].stage = "backlog" THEN "waiting"
                         ELSE IF conn[c].contacted THEN "admitted" ELSE "held"
      BY <3>3 DEF GateStage, Running, Wired, Signing, Ended
    <3>5. conn[c].stage = "backlog" => ~conn[c].contacted
      BY <2>0 DEF ConnInv, Unsigned
    <3> QED
      BY <3>2, <3>4, <3>5 DEF G!Stopped
  <2> QED
    BY <2>1, <2>2
<1>3. st' = [c \in Conns |-> G!Stopped(st[c])]
  BY <1>2
<1>4. GatePhase # "stopped" /\ GatePhase' = "stopped"
  BY <1>1 DEF GatePhase
<1> QED
  BY <1>1, <1>3, <1>4 DEF G!Stop

(* run() opens the gate when it listens; before, only it can stop it.      *)
LEMMA StartupImplements ==
  ASSUME InitiatorInv, Startup
  PROVE  G!Next \/ UNCHANGED G!gateVars
<1>1. proc \in {"start", "bind"}
  BY DEF Startup, Validate, Bind
<1>2. CASE \E error : Exit(error)
  BY <1>1, <1>2, ExitImplements DEF G!Next
<1>3. CASE ~ \E error : Exit(error)
  <2>1. /\ UNCHANGED <<backlog, conn>>
        /\ proc' \in {"start", "bind", "listening"}
    BY <1>3 DEF Startup, Validate, Bind
  <2>2. [c \in Conns |-> GateStage(c)]' = [c \in Conns |-> GateStage(c)]
    BY <2>1 DEF GateStage
  <2>3. GatePhase = "closed" /\ GatePhase' \in {"closed", "open"}
    BY <1>1, <2>1 DEF GatePhase
  <2> QED
    BY <2>1, <2>2, <2>3 DEF G!Next, G!Open, G!gateVars
<1> QED
  BY <1>2, <1>3

(* The keys of either side are not the gate's business.                    *)
LEMMA RotateKeyImplements ==
  ASSUME InitiatorInv, NEW i, NEW key, NEW inPlace, RotateKey(i, key, inPlace)
  PROVE  UNCHANGED G!gateVars
<1>1. conn \in [Conns -> ConnType] /\ UNCHANGED <<proc, backlog>>
  BY DEF RotateKey, procVars, InitiatorInv, TypeOK
<1>2. ASSUME NEW c \in Conns PROVE GateStage(c)' = GateStage(c)
  <2>1. conn'[c].stage = conn[c].stage /\ conn'[c].contacted = conn[c].contacted
    BY <1>1 DEF RotateKey, ConnType
  <2> QED
    BY <2>1 DEF GateStage
<1>3. GatePhase' = GatePhase
  BY <1>1 DEF GatePhase
<1> QED
  BY <1>1, <1>2, <1>3 DEF G!gateVars

LEMMA RemoteRestartsImplements ==
  ASSUME NEW keys, RemoteRestarts(keys)
  PROVE  UNCHANGED G!gateVars
BY DEF RemoteRestarts, procVars, G!gateVars, GatePhase, GateStage

LEMMA InitImplementsGate == Init => G!Init
<1> SUFFICES ASSUME Init PROVE G!Init
  OBVIOUS
<1>1. GatePhase = "closed" /\ backlog = <<>>
  BY DEF Init, GatePhase
<1>2. \A c \in Conns : GateStage(c) = "none"
  BY DEF Init, GateStage, Free, Running, Wired, Signing, Ended
<1> QED
  BY <1>1, <1>2 DEF G!Init

LEMMA NextImplementsGate == InitiatorInv /\ [Next]_vars => [G!Next]_(G!gateVars)
<1> SUFFICES ASSUME InitiatorInv, [Next]_vars
             PROVE  G!Next \/ UNCHANGED G!gateVars
  OBVIOUS
<1>1. CASE Startup
  BY <1>1, StartupImplements
<1>2. CASE Accept
  BY <1>2, AcceptImplements DEF G!Next
<1>3. CASE AcceptError
  BY <1>3, ExitImplements DEF AcceptError, G!Next
<1>4. CASE \E c \in Conns : Task(c)
  BY <1>4, TaskImplements
<1>5. CASE World
  <2>1. CASE \E c \in Conns : ClientConnects(c) \/ Forget(c)
    BY <2>1, ClientImplements, ForgetImplements DEF G!Next
  <2>2. CASE \E i, key, inPlace : RotateKey(i, key, inPlace)
    BY <2>2, RotateKeyImplements
  <2>3. CASE \E keys : RemoteRestarts(keys)
    BY <2>3, RemoteRestartsImplements
  <2> QED
    BY <1>5, <2>1, <2>2, <2>3 DEF World
<1>6. CASE UNCHANGED vars
  <2>1. UNCHANGED <<proc, backlog, conn>>
    BY <1>6 DEF vars
  <2>2. GatePhase' = GatePhase
        /\ [c \in Conns |-> GateStage(c)]' = [c \in Conns |-> GateStage(c)]
    BY <2>1 DEF GatePhase, GateStage
  <2> QED
    BY <2>1, <2>2 DEF G!gateVars
<1> QED
  BY <1>1, <1>2, <1>3, <1>4, <1>5, <1>6 DEF Next

(* The initiator is a gate: it takes clients in their order, contacts the  *)
(* terminator at most once for each and for none it gave up, and none      *)
(* outlives it.                                                            *)
THEOREM InitiatorImplementsGate == Spec => GateSpec
<1>1. Init => G!Init
  BY InitImplementsGate
<1>2. InitiatorInv /\ [Next]_vars => [G!Next]_(G!gateVars)
  BY NextImplementsGate
<1> QED
  BY <1>1, <1>2, InitiatorInvariant, PTL DEF Spec, GateSpec, G!Spec

-----------------------------------------------------------------------------
(* The right entry.                                                        *)

(* A list of entries is valid from the moment anything is done with it, and*)
(* a connection is given up for want of an entry only if select_policy has *)
(* none for the terminator.                                                *)
AnswerInv ==
  /\ proc \notin {"start", "exited"} \/ (\E c \in Conns : conn[c].stage # "free") =>
       ValidPolicies(cfg.policies)
  /\ \A c \in Conns :
       conn[c].error = "NoPolicyForPeer" =>
         SelectPolicy(cfg.policies, cfg.ip, cfg.port) = None

(* What a step of a task does to its error.                                *)
LEMMA TaskRefuses ==
  ASSUME InitiatorInv, NEW c \in Conns, Task(c)
  PROVE  /\ UNCHANGED cfg
         /\ conn'[c].error = "NoPolicyForPeer" =>
              \/ conn[c].error = "NoPolicyForPeer"
              \/ SelectPolicy(cfg.policies, cfg.ip, cfg.port) = None
BY TaskEffect DEF procVars

LEMMA AnswerStep ==
  ASSUME InitiatorInv, AnswerInv, [Next]_vars
  PROVE  AnswerInv'
<1>0. conn \in [Conns -> ConnType]
  BY DEF InitiatorInv, TypeOK
<1>1. ASSUME NEW error, Exit(error), NEW d \in Conns
      PROVE  /\ conn'[d].error = conn[d].error
             /\ conn'[d].stage # "free" => conn[d].stage # "free"
  BY <1>0, <1>1 DEF Exit, ConnType
<1>2. CASE \E error \in {"none", "Config", "AddrParse", "Io"} : Exit(error)
  BY <1>1, <1>2 DEF Exit, AnswerInv
<1>3. ASSUME Startup,
             ~ \E error \in {"none", "Config", "AddrParse", "Io"} : Exit(error)
      PROVE  AnswerInv'
  <2>1. UNCHANGED <<cfg, conn>>
    BY <1>3 DEF Startup, Validate, Bind
  <2>2. ValidPolicies(cfg.policies)
    BY <1>3 DEF Startup, Validate, Bind, AnswerInv
  <2> QED
    BY <2>1, <2>2 DEF AnswerInv
<1>4. ASSUME NEW c \in Conns, UNCHANGED <<cfg, proc>>, proc = "listening",
             \A d \in Conns \ {c} : conn'[d] = conn[d],
             conn'[c].error = "NoPolicyForPeer" =>
               SelectPolicy(cfg.policies, cfg.ip, cfg.port) = None
      PROVE  AnswerInv'
  BY <1>4 DEF AnswerInv
<1>5. CASE Accept
  <2>1. PICK c \in Conns : c = Head(backlog)
    BY <1>5 DEF Accept, InitiatorInv, TypeOK
  <2>2. /\ conn' = [conn EXCEPT ![c].stage = "select"]
        /\ UNCHANGED <<cfg, proc>> /\ proc = "listening"
    BY <1>5, <2>1 DEF Accept, procVars
  <2>3. /\ \A d \in Conns \ {c} : conn'[d] = conn[d]
        /\ conn'[c].error = conn[c].error
    BY <1>0, <2>2 DEF ConnType
  <2> QED
    BY <1>4, <2>2, <2>3 DEF AnswerInv
<1>6. ASSUME NEW c \in Conns, Task(c) PROVE AnswerInv'
  BY <1>4, <1>6, TaskShape, TaskRefuses DEF AnswerInv
<1>7. ASSUME NEW c \in Conns, ClientConnects(c) PROVE AnswerInv'
  <2>1. /\ conn' = [conn EXCEPT ![c].stage = "backlog"]
        /\ UNCHANGED <<cfg, proc>> /\ proc = "listening"
    BY <1>7 DEF ClientConnects, procVars
  <2>2. /\ \A d \in Conns \ {c} : conn'[d] = conn[d]
        /\ conn'[c].error = conn[c].error
    BY <1>0, <2>1 DEF ConnType
  <2> QED
    BY <1>4, <2>1, <2>2 DEF AnswerInv
<1>8. ASSUME NEW c \in Conns, Forget(c) PROVE AnswerInv'
  <2>1. /\ conn' = [conn EXCEPT ![c] = Free] /\ UNCHANGED <<cfg, proc>>
        /\ conn[c].stage # "free"
    BY <1>8 DEF Forget, procVars, Ended
  <2>2. /\ \A d \in Conns \ {c} : conn'[d] = conn[d]
        /\ conn'[c].error = "none" /\ conn'[c].stage = "free"
    BY <1>0, <2>1 DEF Free
  <2> QED
    BY <2>1, <2>2 DEF AnswerInv
<1>9. ASSUME UNCHANGED <<cfg, proc>>,
             \A d \in Conns : /\ conn'[d].stage = conn[d].stage
                              /\ conn'[d].error = conn[d].error
      PROVE  AnswerInv'
  BY <1>9 DEF AnswerInv
<1>10. ASSUME NEW i, NEW key, NEW inPlace, RotateKey(i, key, inPlace) PROVE AnswerInv'
  <2>1. UNCHANGED <<cfg, proc>>
    BY <1>10 DEF RotateKey, procVars
  <2>2. ASSUME NEW d \in Conns
        PROVE  conn'[d].stage = conn[d].stage /\ conn'[d].error = conn[d].error
    BY <1>0, <1>10 DEF RotateKey, ConnType
  <2> QED
    BY <1>9, <2>1, <2>2
<1>11. ASSUME NEW keys, RemoteRestarts(keys) PROVE AnswerInv'
  BY <1>9, <1>11 DEF RemoteRestarts, procVars
<1>12. CASE UNCHANGED vars
  BY <1>9, <1>12 DEF vars, procVars
<1> QED
  BY <1>2, <1>3, <1>5, <1>6, <1>7, <1>8, <1>10, <1>11, <1>12
  DEF Next, AcceptError, World

(* The terminator is contacted under the one entry that answers for its    *)
(* address and port, and none does for a connection given up for want of   *)
(* one.                                                                    *)
THEOREM InitiatorRightEntry == Spec => []RightEntry
<1>1. Init => AnswerInv
  BY DEF Init, AnswerInv, Free
<1>2. InitiatorInv /\ AnswerInv => RightEntry
  <2> SUFFICES ASSUME InitiatorInv, AnswerInv, NEW c \in Conns
               PROVE  LET answers == Answers(EntriesOf(cfg.policies), cfg.ip, cfg.port)
                      IN  /\ conn[c].contacted => answers = {cfg.policies[conn[c].policy]}
                          /\ conn[c].error = "NoPolicyForPeer" => answers = {}
    BY DEF RightEntry
  <2>1. /\ conn[c].contacted =>
             /\ conn[c].policy # None
             /\ conn[c].policy = SelectPolicy(cfg.policies, cfg.ip, cfg.port)
        /\ conn[c].stage = "free" => conn[c] = Free
    BY DEF InitiatorInv, ConnInv
  <2>2. ~Free.contacted /\ Free.error = "none"
    BY DEF Free
  <2>3. conn[c].contacted \/ conn[c].error = "NoPolicyForPeer" =>
          Selected(cfg.policies, cfg.ip, cfg.port)
            = Answers(EntriesOf(cfg.policies), cfg.ip, cfg.port)
    BY <2>1, <2>2, ConfigFacts, SelectedMeaning DEF InitiatorInv, AnswerInv
  <2>4. conn[c].contacted =>
          Selected(cfg.policies, cfg.ip, cfg.port) = {cfg.policies[conn[c].policy]}
    BY <2>1 DEF Selected
  <2>5. conn[c].error = "NoPolicyForPeer" =>
          Selected(cfg.policies, cfg.ip, cfg.port) = {}
    BY DEF AnswerInv, Selected
  <2> QED
    BY <2>3, <2>4, <2>5
<1> QED
  BY <1>1, <1>2, AnswerStep, InitiatorInvariant, PTL DEF Spec

-----------------------------------------------------------------------------
(* What is proved of every gate is proved of the initiator.                *)
GP == INSTANCE GateProofs WITH
        phase <- GatePhase, queue <- backlog, st <- [c \in Conns |-> GateStage(c)]

LEMMA GateSame ==
  /\ G!Init <=> GP!Init
  /\ [G!Next]_(G!gateVars) <=> [GP!Next]_(GP!gateVars)
  /\ G!GateInv <=> GP!GateInv
  BY DEF G!Init, GP!Init, G!Next, GP!Next, G!gateVars, GP!gateVars,
         G!Open, GP!Open, G!Arrive, GP!Arrive, G!Take, GP!Take, G!Turn, GP!Turn,
         G!Admit, GP!Admit, G!Refuse, GP!Refuse, G!Finish, GP!Finish,
         G!Forget, GP!Forget, G!Stop, GP!Stop, G!Stopped, GP!Stopped,
         G!GateInv, GP!GateInv, G!GateTypeOK, GP!GateTypeOK, G!Phases, GP!Phases,
         G!Lives, GP!Lives, G!NoneForgotten, GP!NoneForgotten,
         G!NoneOutlives, GP!NoneOutlives

LEMMA IsGate == Spec => GP!Spec
<1>1. G!Spec <=> GP!Spec
  BY GateSame, PTL DEF G!Spec, GP!Spec
<1> QED
  BY <1>1, InitiatorImplementsGate DEF GateSpec

(* The initiator forgets nobody: a client connection whose handshake is    *)
(* complete is in the backlog, once, until it is accepted or the process   *)
(* ends; and when the process has ended, so has every session.             *)
THEOREM InitiatorForgetsNobody == Spec => []G!GateInv
<1>1. GP!Spec => []GP!GateInv
  BY GP!GateInvariant
<1> QED
  BY <1>1, IsGate, GateSame, PTL

(* The initiator accepts connections in the order in which they came.      *)
THEOREM InitiatorServesInOrder == Spec => G!InOrder
<1>1. GP!Spec => GP!InOrder
  BY GP!GateInOrder
<1>2. GP!InOrder <=> G!InOrder
  BY DEF GP!InOrder, G!InOrder, GP!gateVars, G!gateVars
<1> QED
  BY <1>1, <1>2, IsGate, PTL

(* The initiator decides on each connection once: it contacts the          *)
(* terminator at most once for it, and never after it gave it up.          *)
THEOREM InitiatorDecidesOnce == Spec => G!OnlyForward
<1>1. GP!Spec => GP!OnlyForward
  BY GP!GateOnlyForward
<1>2. GP!OnlyForward <=> G!OnlyForward
  BY DEF GP!OnlyForward, G!OnlyForward, GP!gateVars, G!gateVars, GP!Goes, G!Goes
<1> QED
  BY <1>1, <1>2, IsGate, PTL

==============================================================================
