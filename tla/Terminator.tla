----------------------------- MODULE Terminator -----------------------------
(***************************************************************************)
(* The proxy in terminator mode: start-up from Config::validate to a        *)
(* listening TCP-AO socket, the accept loop of mode_terminator::run and the *)
(* task handle_connection runs for each session, up to and after its pump.  *)
(*                                                                         *)
(* The kernel (which handshakes it completes, what getsockopt answers, file*)
(* descriptors), the peers and the plain backend are the environment.      *)
(* What happens inside a pump is module Pump.                              *)
(***************************************************************************)
EXTENDS AoPolicy, Keepalive

CONSTANTS
  Configs,       \* the configurations and environments it may be started in
  Conns,         \* slots for sessions, reused when a session is forgotten
  FdLimit,       \* descriptors it may hold for sockets and key files
  AcceptFaults   \* may accept() fail although descriptors are left?

(* parses: Config::load succeeds and finds the section of the mode;        *)
(* addresses: the listen and forward addresses parse; key[i]: what loading *)
(* the key of entry i gives; keepalive: see Keepalive;                     *)
(* bypass, best_effort: the test variables, never true in a release build. *)
ConfigOk(c) ==
  /\ c.policies \in Seq(Entries)
  /\ DOMAIN c.key = DOMAIN c.policies
  /\ c.family \in {"v4", "v6"}
  /\ c.keepalive \in GlobalConfig
  /\ {c.parses, c.addresses, c.dry_run, c.bypass, c.best_effort} \subseteq BOOLEAN

ASSUME ConfigsAssumption == \A c \in Configs : ConfigOk(c)
ASSUME FdLimitAssumption == FdLimit \in Nat \ {0}
ASSUME ConnsAssumption == IsFiniteSet(Conns)
ASSUME AcceptFaultsAssumption == AcceptFaults \in BOOLEAN

VARIABLES
  cfg,        \* the configuration, read once
  proc,       \* how far run() is
  next,       \* the entry configure_listener is at
  installed,  \* the entries whose keys the listener holds
  required,   \* TCP_AO_INFO with ao_required was set on the listener
  failure,    \* what the process exited with, or "none"
  fds,        \* descriptors held
  backlog,    \* sessions the kernel has completed and nobody accepted
  conn        \* the sessions

vars == <<cfg, proc, next, installed, required, failure, fds, backlog, conn>>
setupVars == <<cfg, next, installed, required>>
procVars == <<setupVars, proc, failure>>

(* signed: the entry whose key signs the session, None if it is unsigned;  *)
(* info: what getsockopt said of it; policy: what select_policy picked;    *)
(* contacted: connect() to the backend was called for it.                  *)
Free == [stage |-> "free", ip |-> None, signed |-> None, info |-> "none",
         policy |-> None, contacted |-> FALSE, error |-> "none"]

Ended == {"closed", "failed", "killed"}
Running == {"select", "verify", "open", "connect", "pump"}

Init ==
  /\ cfg \in Configs
  /\ proc = "start" /\ next = 1 /\ installed = {} /\ required = FALSE
  /\ failure = "none" /\ fds = 0 /\ backlog = <<>>
  /\ conn = [c \in Conns |-> Free]

-----------------------------------------------------------------------------
(* Slip: tasks outlive run().                                              *)
ExitQuietly(error) ==
  /\ proc' = "exited"
  /\ failure' = error
  /\ fds' = 0
  /\ backlog' = <<>>
  /\ conn' = [c \in Conns |-> IF conn[c].stage = "backlog"
                                THEN [conn[c] EXCEPT !.stage = "killed"]
                                ELSE conn[c]]
  /\ UNCHANGED setupVars

(* run() returns and the process exits: the kernel closes every socket and *)
(* resets what was in the backlog.                                         *)
Exit(error) ==
  /\ proc' = "exited"
  /\ failure' = error
  /\ fds' = 0
  /\ backlog' = <<>>
  /\ conn' = [c \in Conns |-> IF conn[c].stage \in Ended \cup {"free"}
                                THEN conn[c]
                                ELSE [conn[c] EXCEPT !.stage = "killed"]]
  /\ UNCHANGED setupVars

(* Config::load, Config::validate, --dry-run, then the addresses of run(). *)
Validate ==
  LET valid == cfg.parses /\ ValidPolicies(cfg.policies) IN
  /\ proc = "start"
  /\ \/ /\ valid /\ ~cfg.dry_run /\ cfg.addresses
        /\ proc' = "bind"
        /\ UNCHANGED <<setupVars, failure, fds, backlog, conn>>
     \/ valid /\ cfg.dry_run /\ Exit("none")
     \/ ~valid /\ Exit("Config")
     \/ valid /\ ~cfg.dry_run /\ ~cfg.addresses /\ Exit("AddrParse")

Bind ==
  /\ proc = "bind"
  /\ \/ /\ proc' = "configure" /\ fds' = 1
        /\ UNCHANGED <<setupVars, failure, backlog, conn>>
     \/ Exit("Io")

(* configure_listener returns at once under the test bypass.               *)
SkipConfigure ==
  /\ proc = "configure" /\ cfg.bypass
  /\ proc' = "listen"
  /\ UNCHANGED <<setupVars, failure, fds, backlog, conn>>

HasFamily(i) == FamilyOf(cfg.policies[i].ip) = cfg.family

(* Slip: an entry whose key cannot be used is passed over.                 *)
InstallUsableKey ==
  /\ proc = "configure" /\ ~cfg.bypass
  /\ next \in DOMAIN cfg.policies
  /\ next' = next + 1
  /\ installed' = IF HasFamily(next) /\ Usable(cfg.key[next])
                    THEN installed \cup {next} ELSE installed
  /\ UNCHANGED <<cfg, proc, required, failure, fds, backlog, conn>>

(* One turn of configure_listener's loop.  The kernel may refuse any key,  *)
(* and refuses one that clashes with a key it has.  A key file takes a     *)
(* descriptor, which is back before anything else asks for one.            *)
InstallKey ==
  /\ proc = "configure" /\ ~cfg.bypass
  /\ next \in DOMAIN cfg.policies
  /\ \/ /\ ~HasFamily(next)
        /\ next' = next + 1
        /\ UNCHANGED <<cfg, proc, installed, required, failure, fds, backlog, conn>>
     \/ /\ HasFamily(next) /\ Usable(cfg.key[next])
        /\ cfg.policies[next].source = "file" => fds < FdLimit
        /\ \A i \in installed : ~Clash(cfg.policies[i], cfg.policies[next])
        /\ installed' = installed \cup {next}
        /\ next' = next + 1
        /\ UNCHANGED <<cfg, proc, required, failure, fds, backlog, conn>>
     \/ HasFamily(next) /\ Exit("TcpAo")

(* Slip: a list with no entry of the family is as good as any other.       *)
RequireAnyway ==
  /\ proc = "configure" /\ ~cfg.bypass
  /\ next \notin DOMAIN cfg.policies
  /\ required' = TRUE
  /\ proc' = "listen"
  /\ UNCHANGED <<cfg, next, installed, failure, fds, backlog, conn>>

(* After the loop: no entry of the family is an error, else AO is required. *)
RequireAo ==
  /\ proc = "configure" /\ ~cfg.bypass
  /\ next \notin DOMAIN cfg.policies
  /\ \/ /\ installed # {}
        /\ required' = TRUE
        /\ proc' = "listen"
        /\ UNCHANGED <<cfg, next, installed, failure, fds, backlog, conn>>
     \/ Exit("TcpAo")

Listen ==
  /\ proc = "listen"
  /\ \/ /\ proc' = "listening"
        /\ UNCHANGED <<setupVars, failure, fds, backlog, conn>>
     \/ Exit("Io")

(* Slip: the loop awaits handle_connection itself, without a task.         *)
AcceptServed ==
  /\ proc = "listening" /\ backlog # <<>> /\ fds < FdLimit
  /\ \A c \in Conns : conn[c].stage \notin Running
  /\ backlog' = Tail(backlog)
  /\ fds' = fds + 1
  /\ conn' = [conn EXCEPT ![Head(backlog)].stage = "select"]
  /\ UNCHANGED procVars

(* The accept loop: hand the session to a task of its own.                 *)
Accept ==
  /\ proc = "listening" /\ backlog # <<>> /\ fds < FdLimit
  /\ backlog' = Tail(backlog)
  /\ fds' = fds + 1
  /\ conn' = [conn EXCEPT ![Head(backlog)].stage = "select"]
  /\ UNCHANGED procVars

(* accept().await? : any error ends run(), and with it the process.  The   *)
(* kernel wants a descriptor before it looks whether anybody waits, and    *)
(* the loop asks again after the last session it got.                      *)
AcceptError ==
  /\ proc = "listening"
  /\ AcceptFaults \/ fds >= FdLimit
  /\ Exit("Io")

Startup == Validate \/ Bind \/ SkipConfigure \/ InstallKey \/ RequireAo \/ Listen

-----------------------------------------------------------------------------
(* handle_connection.  Returning drops the sockets the task holds: the     *)
(* session's, and from "connect" on the backend's too.                     *)

Goto(c, stage) ==
  /\ conn' = [conn EXCEPT ![c].stage = stage]
  /\ UNCHANGED <<procVars, fds, backlog>>

(* Slip: the backend's socket is never closed.                             *)
WireOnly(c) == 1

Sockets(c) == IF conn[c].stage \in {"connect", "pump"} THEN 2 ELSE 1

Return(c, stage, error) ==
  /\ conn' = [conn EXCEPT ![c].stage = stage, ![c].error = error]
  /\ fds' = fds - Sockets(c)
  /\ UNCHANGED <<procVars, backlog>>

Fail(c, error) == Return(c, "failed", error)

SelectPolicyFor(c) ==
  LET p == SelectPolicy(cfg.policies, conn[c].ip, NoPort) IN
  /\ conn[c].stage = "select"
  /\ \/ /\ p # None
        /\ conn' = [conn EXCEPT ![c].policy = p, ![c].stage = "verify"]
        /\ UNCHANGED <<procVars, fds, backlog>>
     \/ p = None /\ Fail(c, "NoPolicyForPeer")

(* What getsockopt(TCP_AO_INFO) may say of a session: the listener's flag  *)
(* if it is signed, and nothing (ENOENT) or an error in any case.          *)
AoInfo(c) ==
  {"missing", "error"} \cup
    (IF conn[c].signed = None THEN {}
     ELSE IF required THEN {"required"} ELSE {"optional"})

(* Slip: ENOENT is taken for best effort whatever the environment says.    *)
VerifyLoosely(c) ==
  /\ conn[c].stage = "verify"
  /\ \E info \in AoInfo(c) :
       IF info \in {"required", "missing"}
         THEN /\ conn' = [conn EXCEPT ![c].info = info, ![c].stage = "open"]
              /\ UNCHANGED <<procVars, fds, backlog>>
         ELSE Fail(c, "TcpAo")

(* handle_missing_inbound_ao_info, ensure_ao_required.                     *)
Passes(info) == info = "required" \/ (info = "missing" /\ cfg.best_effort)

(* ensure_inbound_session_has_ao.                                          *)
VerifyInbound(c) ==
  /\ conn[c].stage = "verify"
  /\ \/ cfg.bypass /\ Goto(c, "open")
     \/ /\ ~cfg.bypass
        /\ \E info \in AoInfo(c) :
             IF Passes(info)
               THEN /\ conn' = [conn EXCEPT ![c].info = info, ![c].stage = "open"]
                    /\ UNCHANGED <<procVars, fds, backlog>>
               ELSE Fail(c, "TcpAo")

(* TcpSocket::new, keepalive, and the call of connect().  The keepalive    *)
(* settings that follow on both connected sockets repeat values the kernel *)
(* has just accepted.                                                      *)
OpenBackend(c) ==
  /\ conn[c].stage = "open"
  /\ \/ /\ fds < FdLimit /\ Applies(cfg.keepalive)
        /\ conn' = [conn EXCEPT ![c].stage = "connect", ![c].contacted = TRUE]
        /\ fds' = fds + 1
        /\ UNCHANGED <<procVars, backlog>>
     \/ /\ fds >= FdLimit \/ ~Applies(cfg.keepalive)
        /\ Fail(c, "Io")

Connected(c) ==
  /\ conn[c].stage = "connect"
  /\ Goto(c, "pump") \/ Fail(c, "Io")

(* pump returns its stats, or an error.                                    *)
PumpReturns(c) ==
  /\ conn[c].stage = "pump"
  /\ Return(c, "closed", "none") \/ Fail(c, "Io")

(* What a task does before its pump, and all it does.                      *)
SetUp(c) ==
  SelectPolicyFor(c) \/ VerifyInbound(c) \/ OpenBackend(c) \/ Connected(c)

Task(c) == SetUp(c) \/ PumpReturns(c)

-----------------------------------------------------------------------------
(* The environment.                                                        *)

(* The kernel completes a handshake from address ip: the peer signs with   *)
(* the key of entry i, or does not sign and nothing asks it to.            *)
Handshake(c, ip, i) ==
  /\ proc = "listening" /\ conn[c].stage = "free"
  /\ FamilyOf(ip) = cfg.family
  /\ \/ i \in installed /\ Covers(cfg.policies[i], ip)
     \/ /\ i = None /\ ~required
        /\ \A j \in installed : ~Covers(cfg.policies[j], ip)
  /\ conn' = [conn EXCEPT ![c] = [Free EXCEPT !.stage = "backlog",
                                              !.ip = ip, !.signed = i]]
  /\ backlog' = Append(backlog, c)
  /\ UNCHANGED <<procVars, fds>>

(* The slot of a session that is over is used for another one.             *)
Forget(c) ==
  /\ conn[c].stage \in Ended
  /\ conn' = [conn EXCEPT ![c] = Free]
  /\ UNCHANGED <<procVars, fds, backlog>>

Peers ==
  \E c \in Conns :
    \/ \E ip \in Ips, i \in {None} \cup DOMAIN cfg.policies : Handshake(c, ip, i)
    \/ Forget(c)

Next ==
  \/ Startup \/ Accept \/ AcceptError
  \/ \E c \in Conns : Task(c)
  \/ Peers

Spec == Init /\ [][Next]_vars

(* The runtime polls run(), also when accept() has something to take, and  *)
(* every task up to its pump, where connect() ends by the kernel's own     *)
(* limit.  Nothing says that a pump ends: it goes on while bytes flow, and *)
(* without an idle timeout also when none do.                              *)
FairSpec ==
  /\ Spec
  /\ WF_vars(Startup)
  /\ WF_vars(backlog # <<>> /\ (Accept \/ AcceptError))
  /\ \A c \in Conns : WF_vars(SetUp(c))

-----------------------------------------------------------------------------
(* Properties.                                                             *)

Stages == {"free", "backlog"} \cup Running \cup Ended
ConnType == [stage : Stages, ip : Ips \cup {None}, signed : Nat,
             info : {"none", "required", "optional", "missing", "error"},
             policy : Nat, contacted : BOOLEAN,
             error : {"none", "NoPolicyForPeer", "TcpAo", "Io"}]

(* Every variable keeps its type and descriptors their limit.              *)
TypeOK ==
  /\ cfg \in Configs
  /\ proc \in {"start", "bind", "configure", "listen", "listening", "exited"}
  /\ next \in Nat /\ installed \subseteq DOMAIN cfg.policies
  /\ required \in BOOLEAN
  /\ failure \in {"none", "Config", "AddrParse", "TcpAo", "Io"}
  /\ fds \in 0..FdLimit
  /\ backlog \in Seq(Conns)
  /\ conn \in [Conns -> ConnType]

(* The listener that configure_listener hands on is never half configured: *)
(* when it listens, the key of every entry of its family is installed,     *)
(* there is one, and AO is required of every peer; a key that cannot be    *)
(* loaded or installed ends the process before it listens.                 *)
ListensGuarded ==
  proc \in {"listen", "listening"} /\ ~cfg.bypass =>
    /\ required /\ installed # {}
    /\ installed = {i \in DOMAIN cfg.policies : HasFamily(i)}
    /\ \A i \in installed : Usable(cfg.key[i])

(* Fail closed: handle_connection calls the backend only for a session the *)
(* kernel authenticated with the key of an entry that covers its peer,     *)
(* whose AO state it then checked, and for which it found an entry with    *)
(* the peer's own address.                                                 *)
FailClosed ==
  ~cfg.bypass =>
    \A c \in Conns : conn[c].contacted =>
      /\ conn[c].signed \in installed
      /\ Covers(cfg.policies[conn[c].signed], conn[c].ip)
      /\ conn[c].info = "required" \/ (conn[c].info = "missing" /\ cfg.best_effort)
      /\ conn[c].policy \in DOMAIN cfg.policies
      /\ cfg.policies[conn[c].policy].ip = conn[c].ip

(* The entry select_policy picks, whose name and key id are logged for the *)
(* session, is the one whose key signed it, except that an entry for any   *)
(* port answers for one with a port, and an entry with an address for the  *)
(* unspecified one.                                                        *)
Attributed ==
  \A c \in Conns :
    LET signer == cfg.policies[conn[c].signed]
        chosen == cfg.policies[conn[c].policy]
    IN conn[c].contacted /\ conn[c].signed # None =>
         \/ conn[c].policy = conn[c].signed
         \/ signer.ip \in Unspecified
         \/ signer.ip = chosen.ip /\ signer.port # NoPort /\ chosen.port = NoPort

(* Whatever the order of the entries, the backend is contacted for a       *)
(* session under the one entry that answers for its peer (Answers of       *)
(* AoPolicy), and a session is refused for want of an entry only if none   *)
(* answers.                                                                *)
RightEntry ==
  \A c \in Conns :
    LET answers == Answers(EntriesOf(cfg.policies), conn[c].ip, NoPort) IN
    /\ conn[c].contacted => answers = {cfg.policies[conn[c].policy]}
    /\ conn[c].error = "NoPolicyForPeer" => answers = {}

(* A session goes on only if every keepalive value that fits 32 bits is one*)
(* the kernel takes as it was configured: one that the cast makes negative *)
(* ends the session and never becomes another value.                       *)
KeepaliveAsked == \A c \in Conns : conn[c].contacted => AsAsked(cfg.keepalive)

(* With two descriptors for every slot, one for the listener, one for      *)
(* accept() to ask for, and no other fault in accept(), the accept loop    *)
(* runs for ever, however many sessions fail or end before.                *)
Ample == ~AcceptFaults /\ FdLimit >= 2 * Cardinality(Conns) + 2
NeverFalls == [][Ample /\ proc = "listening" => proc' = "listening"]_vars

(* Every session whose handshake the kernel completed is answered, however *)
(* long the pumps of others go on: it comes to be forwarded, is refused, or*)
(* dies with the process.                                                  *)
Answered ==
  \A c \in Conns : conn[c].stage = "backlog" ~> conn[c].stage \in {"pump"} \cup Ended

(* prefix_len_for_ip lets the unspecified address stand for every peer: a  *)
(* session that such an entry's key authenticated should not be refused    *)
(* for want of an entry.                                                   *)
WildcardServed ==
  \A c \in Conns :
    conn[c].error = "NoPolicyForPeer" /\ conn[c].signed # None =>
      cfg.policies[conn[c].signed].ip \notin Unspecified

(* The terminator is a gate for its peers (module Gate).                   *)
GateStage(c) ==
  CASE conn[c].stage = "free" -> "none"
    [] conn[c].stage = "backlog" -> "waiting"
    [] conn[c].stage \in Running -> IF conn[c].contacted THEN "admitted" ELSE "held"
    [] conn[c].stage \in Ended -> IF conn[c].contacted THEN "over" ELSE "refused"

GatePhase ==
  CASE proc = "listening" -> "open"
    [] proc = "exited" -> "stopped"
    [] OTHER -> "closed"

G == INSTANCE Gate WITH
       phase <- GatePhase, queue <- backlog, st <- [c \in Conns |-> GateStage(c)]

GateSpec == G!Spec

-----------------------------------------------------------------------------
(* The inductive invariant.                                                *)

(* While configure_listener is at work, and after it.                      *)
SetupInv ==
  /\ proc \in {"start", "bind"} => installed = {} /\ ~required /\ next = 1
  /\ proc = "configure" =>
       /\ ~required
       /\ installed = {i \in DOMAIN cfg.policies : i < next /\ HasFamily(i)}
  /\ \A i \in installed : Usable(cfg.key[i])
  /\ ListensGuarded

(* What a session has been through when it is at each stage.               *)
Chosen == {"verify", "open", "connect", "pump"}
Verified == {"open", "connect", "pump"}

ConnInv(c) ==
  /\ conn[c].stage = "free" => conn[c] = Free
  /\ conn[c].stage \in {"backlog"} \cup Running => proc = "listening"
  /\ conn[c].signed # None =>
       /\ conn[c].signed \in installed
       /\ Covers(cfg.policies[conn[c].signed], conn[c].ip)
  /\ conn[c].stage # "free" /\ ~cfg.bypass => conn[c].signed # None
  /\ conn[c].stage \in Chosen \/ conn[c].contacted =>
       /\ conn[c].policy # None
       /\ conn[c].policy = SelectPolicy(cfg.policies, conn[c].ip, NoPort)
  /\ conn[c].stage = "backlog" => ~conn[c].contacted
  /\ conn[c].contacted => Applies(cfg.keepalive)
  /\ (conn[c].stage \in Verified \/ conn[c].contacted) /\ ~cfg.bypass =>
       conn[c].info = "required" \/ (conn[c].info = "missing" /\ cfg.best_effort)

(* Every descriptor belongs to the listener or to the task of a session.   *)
WithWire == {c \in Conns : conn[c].stage \in Running}
WithPlain == {c \in Conns : conn[c].stage \in {"connect", "pump"}}
FdInv ==
  fds = IF proc \in {"start", "bind", "exited"} THEN 0
        ELSE 1 + Cardinality(WithWire) + Cardinality(WithPlain)

(* The backlog holds each waiting session once.                            *)
BacklogInv ==
  /\ \A k \in DOMAIN backlog : conn[backlog[k]].stage = "backlog"
  /\ \A j, k \in DOMAIN backlog : backlog[j] = backlog[k] => j = k

TerminatorInv ==
  /\ TypeOK
  /\ SetupInv
  /\ \A c \in Conns : ConnInv(c)
  /\ FdInv
  /\ BacklogInv

=============================================================================
