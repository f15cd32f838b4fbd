----------------------------- MODULE Initiator ------------------------------
(***************************************************************************)
(* The proxy in initiator mode: start-up, the accept loop of                *)
(* mode_initiator::run, and the task handle_connection runs for each plain *)
(* client: it signs a new socket with the key of the entry for remote_ao,  *)
(* connects it, and pumps.  The key is read again for each connection.     *)
(*                                                                         *)
(* The clients, the kernel, the key files and the terminator at the other  *)
(* end of the wire are the environment.                                    *)
(***************************************************************************)
EXTENDS AoPolicy, Keepalive

CONSTANTS
  Configs,       \* the configurations it may be started with
  Keys,          \* what key files may hold that install_key takes
  Conns,         \* slots for connections, reused
  FdLimit,       \* descriptors it may hold for sockets and key files
  AcceptFaults,  \* may accept() fail although descriptors are left?
  MaxChanges     \* bound on the changes of key files and of the remote's keys

(* As in Terminator; ip and port are remote_ao.                            *)
ConfigOk(c) ==
  /\ c.policies \in Seq(Entries)
  /\ c.ip \in Ips /\ c.port \in Nat
  /\ c.keepalive \in GlobalConfig
  /\ {c.parses, c.addresses, c.dry_run, c.bypass} \subseteq BOOLEAN

ASSUME ConfigsAssumption == \A c \in Configs : ConfigOk(c)
ASSUME PortAssumption == NoPort \notin Nat
ASSUME KeysAssumption == Keys \cap (NoKeys \cup BadKeys) = {} /\ "none" \notin Keys
ASSUME FdLimitAssumption == FdLimit \in Nat \ {0}
ASSUME ConnsAssumption == IsFiniteSet(Conns)
ASSUME AcceptFaultsAssumption == AcceptFaults \in BOOLEAN
ASSUME MaxChangesAssumption == MaxChanges \in Nat

VARIABLES
  cfg,      \* the configuration, read once
  proc,     \* how far run() is
  failure,  \* what the process exited with, or "none"
  fds,      \* descriptors held
  backlog,  \* clients nobody accepted
  conn,     \* the connections
  store,    \* what loading the key of each entry gives now
  remote,   \* the <<key id, key>> pairs the terminator's listener holds for us;
            \* none: it does not ask for TCP-AO
  changes   \* how often store or remote changed

vars == <<cfg, proc, failure, fds, backlog, conn, store, remote, changes>>
worldVars == <<store, remote, changes>>
procVars == <<cfg, proc, failure>>

(* loaded: what the open key file holds, then the key read, until it is    *)
(* installed; key: what the socket to the terminator signs with; required: *)
(* it takes no unsigned segment; contacted: connect() was called; seen:    *)
(* history, the keys the store held for the chosen entry since then.       *)
Free == [stage |-> "free", policy |-> None, loaded |-> "none", key |-> "none",
         required |-> FALSE, contacted |-> FALSE, error |-> "none", seen |-> {}]

Ended == {"closed", "failed", "killed"}
Signing == {"load", "read", "install", "require"}
Wired == Signing \cup {"dial", "connect", "pump"}
Running == Wired \cup {"select", "open"}

Material == Keys \cup NoKeys \cup BadKeys

Init ==
  /\ cfg \in Configs
  /\ proc = "start" /\ failure = "none" /\ fds = 0 /\ backlog = <<>>
  /\ conn = [c \in Conns |-> Free]
  /\ store \in [DOMAIN cfg.policies -> Material]
  /\ remote \in SUBSET ({cfg.policies[i].keyid : i \in DOMAIN cfg.policies} \X Keys)
  /\ changes = 0

-----------------------------------------------------------------------------
(* Slip: tasks outlive run().                                              *)
ExitQuietly(error) ==
  /\ proc' = "exited"
  /\ failure' = error
  /\ fds' = 0
  /\ backlog' = <<>>
  /\ conn' = [c \in Conns |-> IF conn[c].stage = "backlog"
                                THEN [conn[c] EXCEPT !.stage = "killed"]
                                ELSE conn[c]]
  /\ UNCHANGED <<cfg, worldVars>>

(* run() returns and the process exits.                                    *)
Exit(error) ==
  /\ proc' = "exited"
  /\ failure' = error
  /\ fds' = 0
  /\ backlog' = <<>>
  /\ conn' = [c \in Conns |-> IF conn[c].stage \in Ended \cup {"free"}
                                THEN conn[c]
                                ELSE [conn[c] EXCEPT !.stage = "killed"]]
  /\ UNCHANGED <<cfg, worldVars>>

Validate ==
  LET valid == cfg.parses /\ ValidPolicies(cfg.policies) IN
  /\ proc = "start"
  /\ \/ /\ valid /\ ~cfg.dry_run /\ cfg.addresses
        /\ proc' = "bind"
        /\ UNCHANGED <<cfg, failure, fds, backlog, conn, worldVars>>
     \/ valid /\ cfg.dry_run /\ Exit("none")
     \/ ~valid /\ Exit("Config")
     \/ valid /\ ~cfg.dry_run /\ ~cfg.addresses /\ Exit("AddrParse")

Bind ==
  /\ proc = "bind"
  /\ \/ /\ proc' = "listening" /\ fds' = 1
        /\ UNCHANGED <<cfg, failure, backlog, conn, worldVars>>
     \/ Exit("Io")

(* Slip: the loop awaits handle_connection itself, without a task.         *)
AcceptServed ==
  /\ proc = "listening" /\ backlog # <<>> /\ fds < FdLimit
  /\ \A c \in Conns : conn[c].stage \notin Running
  /\ backlog' = Tail(backlog)
  /\ fds' = fds + 1
  /\ conn' = [conn EXCEPT ![Head(backlog)].stage = "select"]
  /\ UNCHANGED <<procVars, worldVars>>

Accept ==
  /\ proc = "listening" /\ backlog # <<>> /\ fds < FdLimit
  /\ backlog' = Tail(backlog)
  /\ fds' = fds + 1
  /\ conn' = [conn EXCEPT ![Head(backlog)].stage = "select"]
  /\ UNCHANGED <<procVars, worldVars>>

(* As in Terminator.                                                       *)
AcceptError ==
  /\ proc = "listening"
  /\ AcceptFaults \/ fds >= FdLimit
  /\ Exit("Io")

Startup == Validate \/ Bind

-----------------------------------------------------------------------------
(* handle_connection.  Returning drops the client's socket, the one to the *)
(* terminator once there is one, and a key file that is open.              *)

GoOn(c, r) ==
  /\ conn' = [conn EXCEPT ![c] = r]
  /\ UNCHANGED <<procVars, backlog, worldVars>>

(* Slip: the socket to the terminator is never closed.                     *)
PlainOnly(c) == 1

Descriptors(c) ==
  IF conn[c].stage = "read" THEN 3 ELSE IF conn[c].stage \in Wired THEN 2 ELSE 1

Return(c, stage, error) ==
  /\ GoOn(c, [conn[c] EXCEPT !.stage = stage, !.error = error, !.loaded = "none"])
  /\ fds' = fds - Descriptors(c)

Fail(c, error) == Return(c, "failed", error)

SelectPolicyFor(c) ==
  LET p == SelectPolicy(cfg.policies, cfg.ip, cfg.port) IN
  /\ conn[c].stage = "select"
  /\ \/ /\ p # None
        /\ GoOn(c, [conn[c] EXCEPT !.policy = p, !.stage = "open",
                                   !.seen = {store[p]}])
        /\ UNCHANGED fds
     \/ p = None /\ Fail(c, "NoPolicyForPeer")

(* TcpSocket::new and its keepalive; the settings that follow connect()    *)
(* repeat values the kernel has accepted.                                  *)
OpenWire(c) ==
  /\ conn[c].stage = "open"
  /\ \/ /\ fds < FdLimit /\ Applies(cfg.keepalive)
        /\ fds' = fds + 1
        /\ GoOn(c, [conn[c] EXCEPT !.stage = "load"])
     \/ /\ fds >= FdLimit \/ ~Applies(cfg.keepalive)
        /\ Fail(c, "Io")

(* apply_outbound_policy, which returns at once under the test bypass.     *)
SkipPolicy(c) ==
  /\ conn[c].stage = "load" /\ cfg.bypass
  /\ GoOn(c, [conn[c] EXCEPT !.stage = "dial"])
  /\ UNCHANGED fds

Source(c) == cfg.policies[conn[c].policy].source
Stored(c) == store[conn[c].policy]

(* load_key_bytes, from the environment or from a file.                    *)
ReadKeyEnv(c) ==
  /\ conn[c].stage = "load" /\ ~cfg.bypass /\ Source(c) = "env"
  /\ \/ /\ Loads(Stored(c))
        /\ GoOn(c, [conn[c] EXCEPT !.stage = "install", !.loaded = Stored(c)])
        /\ UNCHANGED fds
     \/ ~Loads(Stored(c)) /\ Fail(c, "TcpAo")

(* Slip: the key another connection signs with is taken again.             *)
OpenKeyOnce(c) ==
  /\ conn[c].stage = "load" /\ ~cfg.bypass /\ Source(c) = "file"
  /\ \/ /\ fds < FdLimit
        /\ fds' = fds + 1
        /\ GoOn(c, [conn[c] EXCEPT !.stage = "read", !.loaded = Stored(c)])
     \/ \E d \in Conns :
          /\ conn[d].key # "none"
          /\ GoOn(c, [conn[c] EXCEPT !.stage = "install", !.loaded = conn[d].key])
          /\ UNCHANGED fds

(* fs::read opens the file, which takes a descriptor...                    *)
OpenKeyFile(c) ==
  /\ conn[c].stage = "load" /\ ~cfg.bypass /\ Source(c) = "file"
  /\ \/ /\ fds < FdLimit
        /\ fds' = fds + 1
        /\ GoOn(c, [conn[c] EXCEPT !.stage = "read", !.loaded = Stored(c)])
     \/ Fail(c, "TcpAo")

(* ...and reads what that file holds by then.                              *)
ReadKeyFile(c) ==
  /\ conn[c].stage = "read"
  /\ \/ /\ Loads(conn[c].loaded)
        /\ fds' = fds - 1
        /\ GoOn(c, [conn[c] EXCEPT !.stage = "install"])
     \/ ~Loads(conn[c].loaded) /\ Fail(c, "TcpAo")

(* The kernel may refuse any key, and the requirement.                     *)
InstallKey(c) ==
  /\ conn[c].stage = "install"
  /\ \/ /\ Installable(conn[c].loaded)
        /\ GoOn(c, [conn[c] EXCEPT !.stage = "require", !.loaded = "none",
                                   !.key = conn[c].loaded])
        /\ UNCHANGED fds
     \/ Fail(c, "TcpAo")

RequireAo(c) ==
  /\ conn[c].stage = "require"
  /\ \/ /\ GoOn(c, [conn[c] EXCEPT !.stage = "dial", !.required = TRUE])
        /\ UNCHANGED fds
     \/ Fail(c, "TcpAo")

(* Slip: connect() is called before apply_outbound_policy is through.      *)
ConnectEarly(c) ==
  /\ conn[c].stage \in {"require", "dial"}
  /\ GoOn(c, [conn[c] EXCEPT !.stage = "connect", !.contacted = TRUE])
  /\ UNCHANGED fds

(* The call of connect(), which sends the first segment.                   *)
Connect(c) ==
  /\ conn[c].stage = "dial"
  /\ GoOn(c, [conn[c] EXCEPT !.stage = "connect", !.contacted = TRUE])
  /\ UNCHANGED fds

(* The terminator's kernel completes the handshake of a socket signed with *)
(* a key it holds, or of an unsigned one if it holds none; it drops the    *)
(* segments of any other.                                                  *)
Agree(c) ==
  IF conn[c].key = "none"
    THEN remote = {} /\ ~conn[c].required
    ELSE <<cfg.policies[conn[c].policy].keyid, conn[c].key>> \in remote

Connected(c) ==
  /\ conn[c].stage = "connect"
  /\ \/ /\ Agree(c)
        /\ GoOn(c, [conn[c] EXCEPT !.stage = "pump"])
        /\ UNCHANGED fds
     \/ Fail(c, "Io")

(* pump returns its stats, or an error.                                    *)
PumpReturns(c) ==
  /\ conn[c].stage = "pump"
  /\ Return(c, "closed", "none") \/ Fail(c, "Io")

(* What a task does before its pump, and all it does.                      *)
SetUp(c) ==
  \/ SelectPolicyFor(c) \/ OpenWire(c)
  \/ SkipPolicy(c) \/ ReadKeyEnv(c) \/ OpenKeyFile(c) \/ ReadKeyFile(c)
  \/ InstallKey(c) \/ RequireAo(c)
  \/ Connect(c) \/ Connected(c)

Task(c) == SetUp(c) \/ PumpReturns(c)

-----------------------------------------------------------------------------
(* The environment.                                                        *)

ClientConnects(c) ==
  /\ proc = "listening" /\ conn[c].stage = "free"
  /\ conn' = [conn EXCEPT ![c].stage = "backlog"]
  /\ backlog' = Append(backlog, c)
  /\ UNCHANGED <<procVars, fds, worldVars>>

Forget(c) ==
  /\ conn[c].stage \in Ended
  /\ conn' = [conn EXCEPT ![c] = Free]
  /\ UNCHANGED <<procVars, fds, backlog, worldVars>>

(* An operator replaces a key file, or writes into it: then a task that has*)
(* it open reads the new key.  An environment variable cannot change.      *)
RotateKey(i, key, inPlace) ==
  /\ changes < MaxChanges
  /\ cfg.policies[i].source = "file" /\ store[i] # key
  /\ store' = [store EXCEPT ![i] = key]
  /\ conn' = [c \in Conns |->
       IF conn[c].stage \in Running /\ conn[c].policy = i
         THEN [conn[c] EXCEPT
                 !.seen = @ \cup {key},
                 !.loaded = IF inPlace /\ conn[c].stage = "read" THEN key ELSE @]
         ELSE conn[c]]
  /\ changes' = changes + 1
  /\ UNCHANGED <<procVars, fds, backlog, remote>>

(* The terminator is started again with other keys.                        *)
RemoteRestarts(keys) ==
  /\ changes < MaxChanges
  /\ remote' = keys
  /\ changes' = changes + 1
  /\ UNCHANGED <<procVars, fds, backlog, conn, store>>

World ==
  \/ \E c \in Conns : ClientConnects(c) \/ Forget(c)
  \/ \E i \in DOMAIN cfg.policies, key \in Material, inPlace \in BOOLEAN :
       RotateKey(i, key, inPlace)
  \/ \E keys \in SUBSET ({cfg.policies[i].keyid : i \in DOMAIN cfg.policies} \X Keys) :
       RemoteRestarts(keys)

Next ==
  \/ Startup \/ Accept \/ AcceptError
  \/ \E c \in Conns : Task(c)
  \/ World

Spec == Init /\ [][Next]_vars

(* As in Terminator: run() is polled, and so is every task up to its pump, *)
(* where connect() ends by the kernel's own limit.  A pump may never end.  *)
FairSpec ==
  /\ Spec
  /\ WF_vars(Startup)
  /\ WF_vars(backlog # <<>> /\ (Accept \/ AcceptError))
  /\ \A c \in Conns : WF_vars(SetUp(c))

-----------------------------------------------------------------------------
(* Properties.                                                             *)

Stages == {"free", "backlog"} \cup Running \cup Ended
ConnType == [stage : Stages, policy : Nat, loaded : Material \cup {"none"},
             key : Keys \cup {"none"}, required : BOOLEAN, contacted : BOOLEAN,
             error : {"none", "NoPolicyForPeer", "TcpAo", "Io"},
             seen : SUBSET Material]

(* Every variable keeps its type and descriptors their limit.              *)
TypeOK ==
  /\ cfg \in Configs
  /\ proc \in {"start", "bind", "listening", "exited"}
  /\ failure \in {"none", "Config", "AddrParse", "Io"}
  /\ fds \in 0..FdLimit
  /\ backlog \in Seq(Conns)
  /\ conn \in [Conns -> ConnType]
  /\ store \in [DOMAIN cfg.policies -> Material]
  /\ changes \in 0..MaxChanges

(* No segment leaves unsigned: when connect() is called the socket has a   *)
(* key and requires AO, whichever of the steps of apply_outbound_policy    *)
(* failed for this connection or for another at the same time.             *)
SignsFirst ==
  ~cfg.bypass =>
    \A c \in Conns : conn[c].contacted => conn[c].key \in Keys /\ conn[c].required

(* Whatever the order of the entries, the terminator is contacted under    *)
(* the one entry that answers for its address and port (Answers of         *)
(* AoPolicy), and a connection is given up for want of an entry only if    *)
(* none does.                                                              *)
RightEntry ==
  \A c \in Conns :
    LET answers == Answers(EntriesOf(cfg.policies), cfg.ip, cfg.port) IN
    /\ conn[c].contacted => answers = {cfg.policies[conn[c].policy]}
    /\ conn[c].error = "NoPolicyForPeer" => answers = {}

(* Key rotation: a connection signs with a key its file held after the     *)
(* connection was accepted, never with one read for an earlier connection. *)
KeyFresh == \A c \in Conns : conn[c].key \in Keys => conn[c].key \in conn[c].seen

(* As KeepaliveAsked of Terminator.                                        *)
KeepaliveAsked == \A c \in Conns : conn[c].contacted => AsAsked(cfg.keepalive)

(* As NeverFalls of Terminator, with three descriptors for every slot: a   *)
(* task holds both sockets while it reads its key file.                    *)
Ample == ~AcceptFaults /\ FdLimit >= 3 * Cardinality(Conns) + 2
NeverFalls == [][Ample /\ proc = "listening" => proc' = "listening"]_vars

(* Every client whose connection the kernel completed is answered, however *)
(* long the pumps of others go on: it comes to be forwarded, is given up,  *)
(* or dies with the process.                                               *)
Answered ==
  \A c \in Conns : conn[c].stage = "backlog" ~> conn[c].stage \in {"pump"} \cup Ended


(* The initiator is a gate for its clients (module Gate).                  *)
GateStage(c) ==
  CASE conn[c].stage = "free" -> "none"
    [] conn[c].stage = "backlog" -> "waiting"
    [] conn[c].stage \in Running -> IF conn[c].contacted THEN "admitted" ELSE "held"
    [] conn[c].stage \in Ended -> IF conn[c].contacted THEN "over" ELSE "refused"

GatePhase ==
  CASE proc = "listening" -> "open"
    [] proc = "exited" -> "stopped"
    [] OTHER -> "closed"

G == INSTANCE Gate WITH
       phase <- GatePhase, queue <- backlog, st <- [c \in Conns |-> GateStage(c)]

GateSpec == G!Spec

-----------------------------------------------------------------------------
(* The inductive invariant.                                                *)

(* What a connection has been through when it is at each stage.            *)
Chosen == Running \ {"select"}
Unsigned == {"backlog", "select", "open", "load", "read", "install"}

ConnInv(c) ==
  /\ conn[c].stage = "free" => conn[c] = Free
  /\ conn[c].stage \in {"backlog"} \cup Running => proc = "listening"
  /\ conn[c].stage \in Chosen \/ conn[c].contacted =>
       /\ conn[c].policy # None
       /\ conn[c].policy = SelectPolicy(cfg.policies, cfg.ip, cfg.port)
  /\ conn[c].stage \in Unsigned => conn[c].key = "none"
  /\ conn[c].stage \in Unsigned \cup {"require", "dial"} => ~conn[c].contacted
  /\ conn[c].stage \in Wired \/ conn[c].contacted => Applies(cfg.keepalive)
  /\ conn[c].stage = "read" => conn[c].loaded \in conn[c].seen
  /\ conn[c].stage = "install" => conn[c].loaded \in conn[c].seen \ NoKeys
  /\ conn[c].stage = "require" => conn[c].key \in Keys
  /\ conn[c].stage = "dial" \/ conn[c].contacted =>
       cfg.bypass \/ (conn[c].key \in Keys /\ conn[c].required)
  /\ conn[c].key \in Keys => conn[c].key \in conn[c].seen
  /\ conn[c].stage \in Chosen => Stored(c) \in conn[c].seen

(* Every descriptor belongs to the listener or to the task of a connection.*)
WithPlain == {c \in Conns : conn[c].stage \in Running}
WithWire == {c \in Conns : conn[c].stage \in Wired}
WithKeyFile == {c \in Conns : conn[c].stage = "read"}
FdInv ==
  fds = IF proc \in {"start", "bind", "exited"} THEN 0
        ELSE 1 + Cardinality(WithPlain) + Cardinality(WithWire)
               + Cardinality(WithKeyFile)

(* The backlog holds each waiting client once.                             *)
BacklogInv ==
  /\ \A k \in DOMAIN backlog : conn[backlog[k]].stage = "backlog"
  /\ \A j, k \in DOMAIN backlog : backlog[j] = backlog[k] => j = k

InitiatorInv ==
  /\ TypeOK
  /\ \A c \in Conns : ConnInv(c)
  /\ FdInv
  /\ BacklogInv

=============================================================================
