----------------------------- MODULE Entrypoint -----------------------------
(***************************************************************************)
(* The container's entrypoint, deploy/entrypoint/terminator.sh and          *)
(* initiator.sh: a bash script, process 1 of its container, that renders   *)
(* the configuration, starts the application (if APP_CMD is set) and the   *)
(* proxy, waits for the first of them to end or for a signal, and stops    *)
(* the other.                                                              *)
(*                                                                         *)
(* What bash does is modelled from the commands the scripts use: a trapped *)
(* signal interrupts a wait and its handler runs before the next command,  *)
(* also inside a handler; wait -n returns for a child that has ended       *)
(* before.  Before the trap is set the kernel drops the signal, because    *)
(* process 1 has not asked for it.                                         *)
(***************************************************************************)
EXTENDS Integers

CONSTANTS
  Codes,       \* what a child may exit with of itself
  MaxSignals   \* bound on the INT and TERM signals that are sent

ASSUME CodesAssumption == Codes \subseteq 0..255
ASSUME MaxSignalsAssumption == MaxSignals \in Nat

Children == {"app", "proxy"}

VARIABLES
  hasApp,    \* APP_CMD is not empty
  pc,        \* the command the script is at
  code,      \* what shutdown will exit with; the exit status at the end
  trapped,   \* the trap is set
  pending,   \* a signal has come that its handler has not taken
  heard,     \* history: the handler has run
  signals,   \* history: how many signals were sent
  child      \* the two processes

scriptVars == <<pc, code>>
vars == <<hasApp, scriptVars, trapped, pending, heard, signals, child>>

(* told: shutdown sent it a TERM while it ran.                             *)
Unborn == [state |-> "unborn", told |-> FALSE, code |-> 0]

Init ==
  /\ hasApp \in BOOLEAN
  /\ pc = "prepare" /\ code = 0
  /\ trapped = FALSE /\ pending = FALSE /\ heard = FALSE /\ signals = 0
  /\ child = [p \in Children |-> Unborn]

-----------------------------------------------------------------------------
(* The script.                                                             *)

Goto(l) ==
  /\ pc' = l
  /\ UNCHANGED <<hasApp, code, trapped, pending, heard, signals, child>>

(* required_env, infer_peer_values, the template and render_config; with   *)
(* set -e each of them may end the script.                                 *)
Prepare ==
  /\ pc = "prepare"
  /\ \/ Goto("app")
     \/ /\ pc' = "exited" /\ code' = 1
        /\ UNCHANGED <<hasApp, trapped, pending, heard, signals, child>>

Start(p, l) ==
  /\ child' = [child EXCEPT ![p].state = "runs"]
  /\ pc' = l
  /\ UNCHANGED <<hasApp, code, trapped, pending, heard, signals>>

StartApp ==
  /\ pc = "app"
  /\ IF hasApp THEN Start("app", "proxy") ELSE Goto("proxy")

StartProxy == pc = "proxy" /\ Start("proxy", "trap")

SetTrap ==
  /\ pc = "trap"
  /\ trapped' = TRUE
  /\ pc' = "wait"
  /\ UNCHANGED <<hasApp, code, pending, heard, signals, child>>

(* Slips: the wait is for the proxy in any case; the status is read after  *)
(* set -e, which has one of its own.                                       *)
AwaitProxy ==
  /\ pc = "wait" /\ ~pending
  /\ child["proxy"].state = "dead"
  /\ pc' = "kill_app" /\ code' = child["proxy"].code
  /\ UNCHANGED <<hasApp, trapped, pending, heard, signals, child>>
AwaitNoStatus ==
  /\ pc = "wait" /\ ~pending
  /\ \E p \in Children : child[p].state = "dead"
  /\ pc' = "kill_app" /\ code' = 0
  /\ UNCHANGED <<hasApp, trapped, pending, heard, signals, child>>

(* wait -n on both, or wait on the proxy alone; status=$?, shutdown.       *)
AwaitFirst ==
  /\ pc = "wait" /\ ~pending
  /\ \E p \in IF hasApp THEN Children ELSE {"proxy"} :
       /\ child[p].state = "dead"
       /\ code' = child[p].code
  /\ pc' = "kill_app"
  /\ UNCHANGED <<hasApp, trapped, pending, heard, signals, child>>

(* shutdown.                                                               *)
Kill(p, l) ==
  /\ child' = [child EXCEPT ![p].told = @ \/ child[p].state = "runs"]
  /\ pc' = l
  /\ UNCHANGED <<hasApp, code, trapped, pending, heard, signals>>

(* Slip: only the proxy is told to stop.                                   *)
SpareApp == pc = "kill_app" /\ ~pending /\ Goto("kill_proxy")

KillApp == pc = "kill_app" /\ ~pending /\ Kill("app", "kill_proxy")
KillProxy == pc = "kill_proxy" /\ ~pending /\ Kill("proxy", "wait_app")

(* Slip: a wait that a signal interrupts is not taken up again.            *)
WaitOnce ==
  /\ pc = "wait_app"
  /\ pending \/ child["app"].state # "runs"
  /\ pending' = FALSE
  /\ pc' = "wait_proxy"
  /\ UNCHANGED <<hasApp, code, trapped, heard, signals, child>>

WaitApp ==
  /\ pc = "wait_app" /\ ~pending
  /\ child["app"].state # "runs"
  /\ Goto("wait_proxy")

WaitProxy ==
  /\ pc = "wait_proxy" /\ ~pending
  /\ child["proxy"].state # "runs"
  /\ Goto("exit")

(* exit: a signal that comes now may come too late.                        *)
Leave == pc = "exit" /\ Goto("exited")

(* The trap: shutdown 143, wherever the script is.                         *)
Handle ==
  /\ pending /\ pc # "exited"
  /\ pending' = FALSE /\ heard' = TRUE
  /\ pc' = "kill_app" /\ code' = 143
  /\ UNCHANGED <<hasApp, trapped, signals, child>>

Script ==
  \/ Prepare \/ StartApp \/ StartProxy \/ SetTrap \/ AwaitFirst
  \/ KillApp \/ KillProxy \/ WaitApp \/ WaitProxy \/ Leave \/ Handle

-----------------------------------------------------------------------------
(* The environment.                                                        *)

Signal ==
  /\ pc # "exited" /\ signals < MaxSignals
  /\ signals' = signals + 1
  /\ pending' = trapped
  /\ UNCHANGED <<hasApp, scriptVars, trapped, heard, child>>

(* A process ends, of itself or because it was told to.                    *)
End(p) ==
  /\ child[p].state = "runs" /\ pc # "exited"
  /\ \E c \in Codes \cup (IF child[p].told THEN {143} ELSE {}) :
       child' = [child EXCEPT ![p] = [state |-> "dead", told |-> @.told, code |-> c]]
  /\ UNCHANGED <<hasApp, scriptVars, trapped, pending, heard, signals>>

Next == Script \/ Signal \/ \E p \in Children : End(p)

Spec == Init /\ [][Next]_vars

(* The script is scheduled, and a process that gets a TERM ends: the proxy *)
(* does not handle it, and neither does the shell that runs APP_CMD.       *)
Obey(p) == child[p].told /\ End(p)

FairSpec ==
  /\ Spec
  /\ WF_vars(Script)
  /\ \A p \in Children : WF_vars(Obey(p))

-----------------------------------------------------------------------------
(* Properties.                                                             *)

(* Every variable keeps its type.                                          *)
Shutting == {"kill_app", "kill_proxy", "wait_app", "wait_proxy", "exit"}
ChildType == [state : {"unborn", "runs", "dead"}, told : BOOLEAN, code : 0..255]
Flags ==
  /\ hasApp \in BOOLEAN
  /\ trapped \in BOOLEAN /\ pending \in BOOLEAN /\ heard \in BOOLEAN
TypeOK ==
  /\ Flags
  /\ pc \in {"prepare", "app", "proxy", "trap", "wait", "exited"} \cup Shutting
  /\ code \in 0..255
  /\ signals \in 0..MaxSignals
  /\ child \in [Children -> ChildType]

(* The script outlives its children: whatever signals come, and however    *)
(* often they interrupt shutdown and its waits, it exits only when neither *)
(* process runs, so that none is cut off by the end of the container.      *)
NothingLeft == pc = "exited" => \A p \in Children : child[p].state # "runs"

(* The exit status tells why the container stopped: 143 if a signal did,   *)
(* also one that comes while another end is being dealt with; else the     *)
(* status of a process that ended of itself, never of one that was told.   *)
StatusHonest ==
  pc = "exited" /\ child["proxy"].state # "unborn" =>
    IF heard THEN code = 143
    ELSE \E p \in Children :
           child[p].state = "dead" /\ ~child[p].told /\ child[p].code = code

(* Application and proxy live and die together: if one ends, even before   *)
(* the script waits for it, the container stops.                           *)
OneEndsAll == \A p \in Children : child[p].state = "dead" ~> pc = "exited"

(* A signal that comes once the trap is set stops the container, whatever  *)
(* the script is doing.                                                    *)
StopEnds == pending ~> pc = "exited"

-----------------------------------------------------------------------------
(* The inductive invariant.                                                *)

(* Which processes there are, and which have been told to stop.            *)
Told(p) == child[p].state = "runs" => child[p].told

ChildInv ==
  /\ pc \in {"prepare", "app"} => \A p \in Children : child[p] = Unborn
  /\ pc = "proxy" => child["proxy"] = Unborn
  /\ pc \in {"trap", "wait"} \cup Shutting => child["proxy"].state # "unborn"
  /\ pc = "kill_proxy" => Told("app")
  /\ pc \in {"wait_app", "wait_proxy", "exit"} => \A p \in Children : Told(p)
  /\ pc \in {"wait_proxy", "exit", "exited"} => child["app"].state # "runs"
  /\ pc \in {"exit", "exited"} => child["proxy"].state # "runs"

(* Before a signal is heard, shutdown carries the status of a process that *)
(* ended before anybody was told to.                                       *)
StatusInv ==
  /\ heard => pc \in Shutting \cup {"exited"} /\ code = 143
  /\ ~heard /\ pc \in Shutting \cup {"exited"} /\ child["proxy"].state # "unborn" =>
       \E p \in Children :
         child[p].state = "dead" /\ ~child[p].told /\ child[p].code = code
  /\ pc \in {"prepare", "app", "proxy", "trap", "wait"} =>
       \A p \in Children : ~child[p].told
  /\ pc \in {"prepare", "app", "proxy", "trap"} => ~pending /\ ~trapped

EntryInv == TypeOK /\ ChildInv /\ StatusInv

=============================================================================
