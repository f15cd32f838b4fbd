------------------------------ MODULE AoPolicy ------------------------------
(***************************************************************************)
(* The [[ao_policy]] entries both modes work from: which lists pass         *)
(* Config::validate (src/config.rs), which entry select_policy picks       *)
(* (src/tcpao/policy.rs), and what an entry's key means to the kernel once *)
(* install_key has handed it over (src/tcpao/linux.rs).                    *)
(*                                                                         *)
(* An entry is a record [name, ip, port, keyid, source].  A list of entries*)
(* is a sequence, and "the entry picked" is its index, 0 for Option::None. *)
(***************************************************************************)
EXTENDS Integers, FiniteSets, Sequences

CONSTANTS
  V4, V6,       \* the IP addresses of each family
  Unspecified,  \* 0.0.0.0 and ::
  NoPort,       \* peer_port that is Option::None
  NoKeys,       \* what a key source may hold that is no key: it is absent or
                \* empty
  BadKeys       \* keys that install_key refuses: longer than the kernel's 80
                \* bytes, or with a mac_alg that is blank or has no room

ASSUME AddressAssumption == V4 \cap V6 = {} /\ Unspecified \subseteq V4 \cup V6

Ips == V4 \cup V6
None == 0

Entries == [name : STRING, ip : Ips, port : Nat \cup {NoPort}, keyid : 0..255,
            source : STRING]

FamilyOf(ip) == IF ip \in V4 THEN "v4" ELSE "v6"

(* KeySource::kind: "file:..." and "env:..." with something after them.    *)
WellFormedSources == {"file", "env"}

ValidPolicies(ps) ==
  /\ ps # <<>>
  /\ \A i \in DOMAIN ps : ps[i].source \in WellFormedSources
  /\ \A i, j \in DOMAIN ps :
       \/ ps[i].name = ps[j].name
       \/ ps[i].ip = ps[j].ip /\ ps[i].port = ps[j].port
       => i = j

-----------------------------------------------------------------------------
(* select_policy.                                                          *)

ForIp(ps, ip) == {i \in DOMAIN ps : ps[i].ip = ip}
IpOnly(ps, ip) == {i \in ForIp(ps, ip) : ps[i].port = NoPort}
Exact(ps, ip, port) == {i \in ForIp(ps, ip) : ps[i].port = port}

FirstOf(S) == IF S = {} THEN None ELSE CHOOSE i \in S : \A j \in S : i <= j

OnlyOf(S) ==
  IF \E i \in S : S = {i} THEN CHOOSE i \in S : TRUE ELSE None

(* Slip: an ambiguous peer is served by the first entry for its address.   *)
SelectAnyForIp(ps, ip, port) ==
  FirstOf(IF port = NoPort THEN ForIp(ps, ip) ELSE Exact(ps, ip, port))

(* Slip: the first entry that fits, whether or not another one names the   *)
(* port.                                                                   *)
SelectFirstFit(ps, ip, port) ==
  FirstOf({i \in ForIp(ps, ip) : ps[i].port \in {port, NoPort}})

SelectPolicy(ps, ip, port) ==
  IF port # NoPort
    THEN FirstOf(IF Exact(ps, ip, port) # {} THEN Exact(ps, ip, port)
                                             ELSE IpOnly(ps, ip))
    ELSE OnlyOf(IF IpOnly(ps, ip) # {} THEN IpOnly(ps, ip)
                                       ELSE ForIp(ps, ip))

(* What that means for a list that passes validate, seen as a set of       *)
(* entries: the entry for the address and the port; else the one for the   *)
(* address and any port; and when the port is not known, else the only one *)
(* there is for the address.                                               *)
EntriesOf(ps) == {ps[i] : i \in DOMAIN ps}
Selected(ps, ip, port) == {ps[i] : i \in {SelectPolicy(ps, ip, port)} \ {None}}

Answers(es, ip, port) ==
  {e \in es :
     /\ e.ip = ip
     /\ \/ e.port = port
        \/ /\ port # NoPort /\ e.port = NoPort
           /\ \A f \in es : f.ip = ip => f.port # port
        \/ port = NoPort /\ \A f \in es : f.ip = ip => f = e}

-----------------------------------------------------------------------------
(* Keys in the kernel.  install_key gives an entry's address with its whole*)
(* length as prefix, or prefix 0 for the unspecified address; never a port.*)

Covers(p, ip) ==
  \/ p.ip = ip
  \/ p.ip \in Unspecified /\ FamilyOf(p.ip) = FamilyOf(ip)

(* TCP_AO_ADD_KEY refuses a key whose id is taken for an address both keys *)
(* cover (the kernel's rule).                                              *)
Clash(p, q) == p.keyid = q.keyid /\ (Covers(p, q.ip) \/ Covers(q, p.ip))

(* load_key_bytes gives a key, and install_key finds nothing wrong with it *)
(* and its mac_alg before it asks the kernel.                              *)
Loads(key) == key \notin NoKeys
Installable(key) == key \notin BadKeys
Usable(key) == Loads(key) /\ Installable(key)

=============================================================================
