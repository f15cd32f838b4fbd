-------------------------- MODULE EntrypointProofs --------------------------
(***************************************************************************)
(* Theorems about Entrypoint, for all exit codes and however many signals. *)
(***************************************************************************)
EXTENDS Entrypoint, TLAPS

(* One process changes, the other does not.                                *)
LEMMA ChildUpdate ==
  ASSUME TypeOK, NEW p \in Children, NEW r \in ChildType,
         child' = [child EXCEPT ![p] = r]
  PROVE  /\ child' \in [Children -> ChildType]
         /\ child'[p] = r
         /\ \A q \in Children \ {p} : child'[q] = child[q]
  BY DEF TypeOK

LEMMA ChildFields ==
  ASSUME TypeOK, NEW p \in Children
  PROVE  /\ child[p] \in ChildType
         /\ child[p].state \in {"unborn", "runs", "dead"}
         /\ child[p].told \in BOOLEAN /\ child[p].code \in 0..255
  BY DEF TypeOK, ChildType

LEMMA InitEntryInv == Init => EntryInv
  <1> SUFFICES ASSUME Init PROVE EntryInv
    OBVIOUS
  <1>1. TypeOK
    <2>1. Unborn \in ChildType
      BY DEF Unborn, ChildType
    <2> QED
      <3>1. child \in [Children -> ChildType]
        BY <2>1 DEF Init
      <3>2. Flags
        BY DEF Init, Flags
      <3> QED
        BY <3>1, <3>2, MaxSignalsAssumption DEF Init, TypeOK
  <1>2. ChildInv /\ StatusInv
    BY DEF Init, ChildInv, StatusInv, Told, Unborn, Shutting
  <1> QED
    BY <1>1, <1>2 DEF EntryInv

(* The commands that start and watch the two processes.                    *)
LEMMA StartKeepsInv ==
  ASSUME EntryInv, Prepare \/ StartApp \/ StartProxy \/ SetTrap \/ AwaitFirst
  PROVE  EntryInv'
  <1>0. TypeOK /\ ChildInv /\ StatusInv
    BY DEF EntryInv
  <1>1. CASE Prepare
    <2>1. UNCHANGED child
      BY <1>1 DEF Prepare, Goto
    <2>2. TypeOK'
      <3>1. Flags'
        BY <1>0, <1>1, <2>1 DEF TypeOK, Flags, Prepare, Goto
      <3>2. pc' \in {"prepare", "app", "proxy", "trap", "wait", "exited"} \cup Shutting
        BY <1>0, <1>1, <2>1 DEF TypeOK, Shutting, Prepare, Goto
      <3> QED
        BY <1>0, <1>1, <2>1, <3>1, <3>2
        DEF TypeOK, Prepare, Goto
    <2>3. ChildInv'
      BY <1>0, <1>1, <2>1, ChildFields
      DEF ChildInv, Told, Unborn, Shutting, Children, Prepare, Goto
    <2>4. StatusInv'
      BY <1>0, <1>1, <2>1, ChildFields
      DEF ChildInv, StatusInv, Told, Unborn, Shutting, Children, Prepare, Goto
    <2> QED
      BY <2>2, <2>3, <2>4 DEF EntryInv
  <1>2. CASE StartApp /\ hasApp
    <2> DEFINE r == [child["app"] EXCEPT !.state = "runs"]
    <2>1. r \in ChildType
      BY <1>0, <1>2, ChildFields DEF ChildType, Children
    <2>2. child' = [child EXCEPT !["app"] = r]
      BY <1>2 DEF StartApp, Start
    <2>3. /\ child' \in [Children -> ChildType] /\ child'["app"] = r
          /\ \A q \in Children \ {"app"} : child'[q] = child[q]
      BY <1>0, <2>1, <2>2, ChildUpdate DEF Children
    <2>4. TypeOK'
      <3>1. Flags'
        BY <1>0, <1>2, <2>3 DEF TypeOK, Flags, StartApp, Start
      <3>2. pc' \in {"prepare", "app", "proxy", "trap", "wait", "exited"} \cup Shutting
        BY <1>0, <1>2, <2>3 DEF TypeOK, Shutting, StartApp, Start
      <3> QED
        BY <1>0, <1>2, <2>3, <3>1, <3>2 DEF TypeOK, StartApp, Start
    <2>5. ChildInv'
      BY <1>0, <1>2, <2>3, ChildFields
      DEF ChildInv, Told, Unborn, Shutting, Children, StartApp, Start
    <2>6. StatusInv'
      BY <1>0, <1>2, <2>3, ChildFields
      DEF ChildInv, StatusInv, Unborn, Shutting, Children, StartApp, Start
    <2> QED
      BY <2>4, <2>5, <2>6 DEF EntryInv
  <1>3. CASE StartApp /\ ~hasApp
    <2>1. UNCHANGED child
      BY <1>3 DEF StartApp, Goto
    <2>2. TypeOK'
      <3>1. Flags'
        BY <1>0, <1>3, <2>1 DEF TypeOK, Flags, StartApp, Goto
      <3>2. pc' \in {"prepare", "app", "proxy", "trap", "wait", "exited"} \cup Shutting
        BY <1>0, <1>3, <2>1 DEF TypeOK, Shutting, StartApp, Goto
      <3> QED
        BY <1>0, <1>3, <2>1, <3>1, <3>2
        DEF TypeOK, StartApp, Goto
    <2>3. ChildInv'
      BY <1>0, <1>3, <2>1, ChildFields
      DEF ChildInv, Told, Unborn, Shutting, Children, StartApp, Goto
    <2>4. StatusInv'
      BY <1>0, <1>3, <2>1, ChildFields
      DEF ChildInv, StatusInv, Told, Unborn, Shutting, Children, StartApp, Goto
    <2> QED
      BY <2>2, <2>3, <2>4 DEF EntryInv
  <1>4. CASE StartProxy
    <2> DEFINE r == [child["proxy"] EXCEPT !.state = "runs"]
    <2>1. r \in ChildType
      BY <1>0, <1>4, ChildFields DEF ChildType, Children
    <2>2. child' = [child EXCEPT !["proxy"] = r]
      BY <1>4 DEF StartProxy, Start
    <2>3. /\ child' \in [Children -> ChildType] /\ child'["proxy"] = r
          /\ \A q \in Children \ {"proxy"} : child'[q] = child[q]
      BY <1>0, <2>1, <2>2, ChildUpdate DEF Children
    <2>4. TypeOK'
      <3>1. Flags'
        BY <1>0, <1>4, <2>3 DEF TypeOK, Flags, StartProxy, Start
      <3>2. pc' \in {"prepare", "app", "proxy", "trap", "wait", "exited"} \cup Shutting
        BY <1>0, <1>4, <2>3 DEF TypeOK, Shutting, StartProxy, Start
      <3> QED
        BY <1>0, <1>4, <2>3, <3>1, <3>2 DEF TypeOK, StartProxy, Start
    <2>5. ChildInv'
      BY <1>0, <1>4, <2>3, ChildFields
      DEF ChildInv, Told, Unborn, Shutting, Children, StartProxy, Start
    <2>6. StatusInv'
      BY <1>0, <1>4, <2>3, ChildFields
      DEF ChildInv, StatusInv, Unborn, Shutting, Children, StartProxy, Start
    <2> QED
      BY <2>4, <2>5, <2>6 DEF EntryInv
  <1>5. CASE SetTrap
    <2>1. UNCHANGED child
      BY <1>5 DEF SetTrap
    <2>2. TypeOK'
      <3>1. Flags'
        BY <1>0, <1>5, <2>1 DEF TypeOK, Flags, SetTrap
      <3>2. pc' \in {"prepare", "app", "proxy", "trap", "wait", "exited"} \cup Shutting
        BY <1>0, <1>5, <2>1 DEF TypeOK, Shutting, SetTrap
      <3> QED
        BY <1>0, <1>5, <2>1, <3>1, <3>2
        DEF TypeOK, SetTrap
    <2>3. ChildInv'
      BY <1>0, <1>5, <2>1, ChildFields
      DEF ChildInv, Told, Unborn, Shutting, Children, SetTrap
    <2>4. StatusInv'
      BY <1>0, <1>5, <2>1, ChildFields
      DEF ChildInv, StatusInv, Told, Unborn, Shutting, Children, SetTrap
    <2> QED
      BY <2>2, <2>3, <2>4 DEF EntryInv
  <1>6. CASE AwaitFirst
    <2>1. UNCHANGED child
      BY <1>6 DEF AwaitFirst
    <2>2. TypeOK'
      <3>1. Flags'
        BY <1>0, <1>6, <2>1 DEF TypeOK, Flags, AwaitFirst
      <3>2. pc' \in {"prepare", "app", "proxy", "trap", "wait", "exited"} \cup Shutting
        BY <1>0, <1>6, <2>1 DEF TypeOK, Shutting, AwaitFirst
      <3> QED
        BY <1>0, <1>6, <2>1, ChildFields, <3>1, <3>2
        DEF TypeOK, Children, AwaitFirst
    <2>3. ChildInv'
      BY <1>0, <1>6, <2>1, ChildFields
      DEF ChildInv, Told, Unborn, Shutting, Children, AwaitFirst
    <2>4. StatusInv'
      BY <1>0, <1>6, <2>1, ChildFields
      DEF ChildInv, StatusInv, Told, Unborn, Shutting, Children, AwaitFirst
    <2> QED
      BY <2>2, <2>3, <2>4 DEF EntryInv
  <1> QED
    BY <1>1, <1>2, <1>3, <1>4, <1>5, <1>6

(* shutdown, and the handler that starts it again.                         *)
LEMMA ShutdownKeepsInv ==
  ASSUME EntryInv, KillApp \/ KillProxy \/ WaitApp \/ WaitProxy \/ Leave \/ Handle
  PROVE  EntryInv'
  <1>0. TypeOK /\ ChildInv /\ StatusInv
    BY DEF EntryInv
  <1>1. CASE KillApp
    <2> DEFINE r == [child["app"] EXCEPT
                       !.told = child["app"].told \/ child["app"].state = "runs"]
    <2>1. r \in ChildType
      BY <1>0, <1>1, ChildFields DEF ChildType, Children
    <2>2. child' = [child EXCEPT !["app"] = r]
      BY <1>1 DEF KillApp, Kill
    <2>3. /\ child' \in [Children -> ChildType] /\ child'["app"] = r
          /\ \A q \in Children \ {"app"} : child'[q] = child[q]
      BY <1>0, <2>1, <2>2, ChildUpdate DEF Children
    <2>7. /\ child'["app"].state = child["app"].state
          /\ child'["app"].code = child["app"].code
          /\ child'["app"].told <=> child["app"].told \/ child["app"].state = "runs"
      BY <1>0, <2>3, ChildFields DEF ChildType, Children
    <2>4. TypeOK'
      <3>1. Flags'
        BY <1>0, <1>1, <2>3 DEF TypeOK, Flags, KillApp, Kill
      <3>2. pc' \in {"prepare", "app", "proxy", "trap", "wait", "exited"} \cup Shutting
        BY <1>0, <1>1, <2>3 DEF TypeOK, Shutting, KillApp, Kill
      <3> QED
        BY <1>0, <1>1, <2>3, <3>1, <3>2 DEF TypeOK, KillApp, Kill
    <2>5. ChildInv'
      BY <1>0, <1>1, <2>3, <2>7, ChildFields
      DEF ChildInv, Told, Unborn, Shutting, Children, KillApp, Kill
    <2>6. StatusInv'
      BY <1>0, <1>1, <2>3, ChildFields
      DEF ChildInv, StatusInv, Unborn, Shutting, Children, KillApp, Kill
    <2> QED
      BY <2>4, <2>5, <2>6 DEF EntryInv
  <1>2. CASE KillProxy
    <2> DEFINE r == [child["proxy"] EXCEPT
                       !.told = child["proxy"].told \/ child["proxy"].state = "runs"]
    <2>1. r \in ChildType
      BY <1>0, <1>2, ChildFields DEF ChildType, Children
    <2>2. child' = [child EXCEPT !["proxy"] = r]
      BY <1>2 DEF KillProxy, Kill
    <2>3. /\ child' \in [Children -> ChildType] /\ child'["proxy"] = r
          /\ \A q \in Children \ {"proxy"} : child'[q] = child[q]
      BY <1>0, <2>1, <2>2, ChildUpdate DEF Children
    <2>7. /\ child'["proxy"].state = child["proxy"].state
          /\ child'["proxy"].code = child["proxy"].code
          /\ child'["proxy"].told <=> child["proxy"].told \/ child["proxy"].state = "runs"
      BY <1>0, <2>3, ChildFields DEF ChildType, Children
    <2>4. TypeOK'
      <3>1. Flags'
        BY <1>0, <1>2, <2>3 DEF TypeOK, Flags, KillProxy, Kill
      <3>2. pc' \in {"prepare", "app", "proxy", "trap", "wait", "exited"} \cup Shutting
        BY <1>0, <1>2, <2>3 DEF TypeOK, Shutting, KillProxy, Kill
      <3> QED
        BY <1>0, <1>2, <2>3, <3>1, <3>2 DEF TypeOK, KillProxy, Kill
    <2>5. ChildInv'
      BY <1>0, <1>2, <2>3, <2>7, ChildFields
      DEF ChildInv, Told, Unborn, Shutting, Children, KillProxy, Kill
    <2>6. StatusInv'
      BY <1>0, <1>2, <2>3, ChildFields
      DEF ChildInv, StatusInv, Unborn, Shutting, Children, KillProxy, Kill
    <2> QED
      BY <2>4, <2>5, <2>6 DEF EntryInv
  <1>3. CASE WaitApp
    <2>1. UNCHANGED child
      BY <1>3 DEF WaitApp, Goto
    <2>2. TypeOK'
      <3>1. Flags'
        BY <1>0, <1>3, <2>1 DEF TypeOK, Flags, WaitApp, Goto
      <3>2. pc' \in {"prepare", "app", "proxy", "trap", "wait", "exited"} \cup Shutting
        BY <1>0, <1>3, <2>1 DEF TypeOK, Shutting, WaitApp, Goto
      <3> QED
        BY <1>0, <1>3, <2>1, <3>1, <3>2
        DEF TypeOK, WaitApp, Goto
    <2>3. ChildInv'
      BY <1>0, <1>3, <2>1, ChildFields
      DEF ChildInv, Told, Unborn, Shutting, Children, WaitApp, Goto
    <2>4. StatusInv'
      BY <1>0, <1>3, <2>1, ChildFields
      DEF ChildInv, StatusInv, Told, Unborn, Shutting, Children, WaitApp, Goto
    <2> QED
      BY <2>2, <2>3, <2>4 DEF EntryInv
  <1>4. CASE WaitProxy
    <2>1. UNCHANGED child
      BY <1>4 DEF WaitProxy, Goto
    <2>2. TypeOK'
      <3>1. Flags'
        BY <1>0, <1>4, <2>1 DEF TypeOK, Flags, WaitProxy, Goto
      <3>2. pc' \in {"prepare", "app", "proxy", "trap", "wait", "exited"} \cup Shutting
        BY <1>0, <1>4, <2>1 DEF TypeOK, Shutting, WaitProxy, Goto
      <3> QED
        BY <1>0, <1>4, <2>1, <3>1, <3>2
        DEF TypeOK, WaitProxy, Goto
    <2>3. ChildInv'
      BY <1>0, <1>4, <2>1, ChildFields
      DEF ChildInv, Told, Unborn, Shutting, Children, WaitProxy, Goto
    <2>4. StatusInv'
      BY <1>0, <1>4, <2>1, ChildFields
      DEF ChildInv, StatusInv, Told, Unborn, Shutting, Children, WaitProxy, Goto
    <2> QED
      BY <2>2, <2>3, <2>4 DEF EntryInv
  <1>5. CASE Leave
    <2>1. UNCHANGED child
      BY <1>5 DEF Leave, Goto
    <2>2. TypeOK'
      <3>1. Flags'
        BY <1>0, <1>5, <2>1 DEF TypeOK, Flags, Leave, Goto
      <3>2. pc' \in {"prepare", "app", "proxy", "trap", "wait", "exited"} \cup Shutting
        BY <1>0, <1>5, <2>1 DEF TypeOK, Shutting, Leave, Goto
      <3> QED
        BY <1>0, <1>5, <2>1, <3>1, <3>2
        DEF TypeOK, Leave, Goto
    <2>3. ChildInv'
      BY <1>0, <1>5, <2>1, ChildFields
      DEF ChildInv, Told, Unborn, Shutting, Children, Leave, Goto
    <2>4. StatusInv'
      BY <1>0, <1>5, <2>1, ChildFields
      DEF ChildInv, StatusInv, Told, Unborn, Shutting, Children, Leave, Goto
    <2> QED
      BY <2>2, <2>3, <2>4 DEF EntryInv
  <1>6. CASE Handle
    <2>1. UNCHANGED child
      BY <1>6 DEF Handle
    <2>2. TypeOK'
      <3>1. Flags'
        BY <1>0, <1>6, <2>1 DEF TypeOK, Flags, Handle
      <3>2. pc' \in {"prepare", "app", "proxy", "trap", "wait", "exited"} \cup Shutting
        BY <1>0, <1>6, <2>1 DEF TypeOK, Shutting, Handle
      <3> QED
        BY <1>0, <1>6, <2>1, <3>1, <3>2
        DEF TypeOK, Handle
    <2>3. ChildInv'
      <3>1. pc \in {"wait"} \cup Shutting /\ pc' = "kill_app"
        BY <1>0, <1>6 DEF TypeOK, StatusInv, Handle
      <3> QED
        BY <1>0, <2>1, <3>1 DEF ChildInv
    <2>4. StatusInv'
      BY <1>0, <1>6, <2>1, ChildFields
      DEF ChildInv, StatusInv, Told, Unborn, Shutting, Children, Handle
    <2> QED
      BY <2>2, <2>3, <2>4 DEF EntryInv
  <1> QED
    BY <1>1, <1>2, <1>3, <1>4, <1>5, <1>6

(* Signals, and the ends of the two processes.                             *)
LEMMA EnvironmentKeepsInv ==
  ASSUME EntryInv, Signal \/ \E p \in Children : End(p)
  PROVE  EntryInv'
  <1>0. TypeOK /\ ChildInv /\ StatusInv
    BY DEF EntryInv
  <1>1. CASE Signal
    <2>1. UNCHANGED child
      BY <1>1 DEF Signal, scriptVars
    <2>2. TypeOK'
      <3>1. Flags'
        BY <1>0, <1>1, <2>1 DEF TypeOK, Flags, Signal, scriptVars
      <3>2. pc' \in {"prepare", "app", "proxy", "trap", "wait", "exited"} \cup Shutting
        BY <1>0, <1>1, <2>1 DEF TypeOK, Shutting, Signal, scriptVars
      <3> QED
        BY <1>0, <1>1, <2>1, MaxSignalsAssumption, <3>1, <3>2
        DEF TypeOK, Signal, scriptVars
    <2>3. ChildInv'
      BY <1>0, <1>1, <2>1, ChildFields
      DEF ChildInv, Told, Unborn, Shutting, Children, Signal, scriptVars
    <2>4. StatusInv'
      BY <1>0, <1>1, <2>1, ChildFields
      DEF ChildInv, StatusInv, Told, Unborn, Shutting, Children, Signal, scriptVars
    <2> QED
      BY <2>2, <2>3, <2>4 DEF EntryInv
  <1>2. ASSUME NEW p \in Children, End(p) PROVE EntryInv'
    <2>0. Codes \cup (IF child[p].told THEN {143} ELSE {}) \subseteq 0..255
      BY CodesAssumption
    <2>1. PICK c \in Codes \cup (IF child[p].told THEN {143} ELSE {}) :
            child' = [child EXCEPT ![p] =
                        [state |-> "dead", told |-> child[p].told, code |-> c]]
      BY <1>0, <1>2 DEF End, TypeOK
    <2> DEFINE r == [state |-> "dead", told |-> child[p].told, code |-> c]
    <2>2. r \in ChildType
      <3>1. c \in 0..255
        BY <2>0, <2>1
      <3> QED
        BY <1>0, <3>1, ChildFields DEF ChildType
    <2>8. child' = [child EXCEPT ![p] = r]
      BY <2>1
    <2> HIDE DEF r
    <2>3. /\ child' \in [Children -> ChildType] /\ child'[p] = r
          /\ \A q \in Children \ {p} : child'[q] = child[q]
      BY <1>0, <2>2, <2>8 DEF TypeOK
    <2>7. /\ child[p].state = "runs" /\ child'[p].state = "dead"
          /\ child'[p].told = child[p].told
          /\ UNCHANGED <<pc, code, trapped, pending, heard, signals, hasApp>>
      BY <1>0, <1>2, <2>3, ChildFields DEF r, ChildType, End, scriptVars
    <2>4. TypeOK'
      <3>1. Flags'
        BY <1>0, <1>2, <2>3 DEF TypeOK, Flags, End, scriptVars
      <3>2. pc' \in {"prepare", "app", "proxy", "trap", "wait", "exited"} \cup Shutting
        BY <1>0, <1>2, <2>3 DEF TypeOK, Shutting, End, scriptVars
      <3> QED
        BY <1>0, <1>2, <2>3, <3>1, <3>2 DEF TypeOK, End, scriptVars
    <2>5. ChildInv'
      <3>1. /\ \A q \in Children : Told(q) => Told(q)'
            /\ \A q \in Children : child[q].state # "runs" => child'[q].state # "runs"
            /\ \A q \in Children : child[q].state # "unborn" => child'[q].state # "unborn"
        BY <2>3, <2>7 DEF Told
      <3>2. child[p] # Unborn
        BY <2>7 DEF Unborn
      <3>3. pc = "proxy" => p = "app"
        BY <1>0, <3>2 DEF ChildInv, Children
      <3> QED
        BY <1>0, <2>3, <2>7, <3>1, <3>2, <3>3 DEF ChildInv, Children
    <2>6. StatusInv'
      <3>1. \A q \in Children :
              child[q].state = "dead" => child'[q] = child[q]
        BY <2>3, <2>7
      <3>2. \A q \in Children : child'[q].told = child[q].told
        BY <2>3, <2>7
      <3>3. child["proxy"].state # "unborn" \/ child'["proxy"].state = "unborn" \/ p = "proxy"
        BY <2>3 DEF Children
      <3> QED
        BY <1>0, <2>3, <2>7, <3>1, <3>2, <3>3 DEF StatusInv, Children
    <2> QED
      BY <2>4, <2>5, <2>6 DEF EntryInv
  <1> QED
    BY <1>1, <1>2

(* EntryInv holds whatever the processes do and whenever signals come.     *)
THEOREM EntryInvariant == Spec => []EntryInv
  <1>1. EntryInv /\ [Next]_vars => EntryInv'
    <2> SUFFICES ASSUME EntryInv, [Next]_vars PROVE EntryInv'
      OBVIOUS
    <2>1. CASE Next
      BY <2>1, StartKeepsInv, ShutdownKeepsInv, EnvironmentKeepsInv
      DEF Next, Script
    <2>2. CASE UNCHANGED vars
      BY <2>2
      DEF vars, scriptVars, EntryInv, TypeOK, Flags, ChildInv, StatusInv, Told
    <2> QED
      BY <2>1, <2>2
  <1> QED
    BY <1>1, InitEntryInv, PTL DEF Spec

(* The script never exits before the two processes, however often signals  *)
(* interrupt its shutdown.                                                 *)
THEOREM EntryNothingLeft == Spec => []NothingLeft
  <1>1. EntryInv => NothingLeft
    BY DEF EntryInv, ChildInv, NothingLeft, Children
  <1> QED
    BY <1>1, EntryInvariant, PTL

(* The exit status is 143 after a signal, and otherwise that of a process  *)
(* that ended of itself.                                                   *)
THEOREM EntryStatusHonest == Spec => []StatusHonest
  <1>1. EntryInv => StatusHonest
    BY DEF EntryInv, StatusInv, StatusHonest
  <1> QED
    BY <1>1, EntryInvariant, PTL

=============================================================================
