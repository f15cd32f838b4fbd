---------------------------- MODULE MCInitiator -----------------------------
(* Initiator towards one terminator, a1:179, with entries for its port, for *)
(* any port and for another peer, and keys that change while it runs.      *)
EXTENDS Initiator

CONSTANTS a1, a2, anyport

MCV4 == {a1, a2}
MCNoPort == anyport

Entry(name, ip, port, keyid, source) ==
  [name |-> name, ip |-> ip, port |-> port, keyid |-> keyid, source |-> source]

PortAndIp == <<Entry("a", a1, anyport, 1, "file"), Entry("b", a1, 179, 2, "env")>>
IpOnlyOne == <<Entry("a", a1, anyport, 1, "file")>>
OtherPort == <<Entry("a", a1, 180, 1, "file")>>
SamePeer  == <<Entry("a", a1, 179, 1, "file"), Entry("b", a1, 179, 2, "file")>>

(* As in MCTerminator.                                                     *)
MCWord == 16
MCMost == [o \in Options |-> IF o = "probes" THEN 2 ELSE 4]
Alive(time, intvl, probes) ==
  [on |-> TRUE, time |-> time, intvl |-> intvl, probes |-> probes]

Plain(ps) ==
  [policies |-> ps, ip |-> a1, port |-> 179, parses |-> TRUE, addresses |-> TRUE,
   dry_run |-> FALSE, keepalive |-> Alive(4, Unset, 2), bypass |-> FALSE]

MCConfigs ==
  {Plain(ps) : ps \in {PortAndIp, IpOnlyOne, OtherPort, SamePeer}}
  \cup {[Plain(IpOnlyOne) EXCEPT !.bypass = TRUE],
        [Plain(IpOnlyOne) EXCEPT !.keepalive = Alive(15, 1, 1)],
        [Plain(IpOnlyOne) EXCEPT !.keepalive = Alive(16 + 4, 1, Unset)],
        [Plain(IpOnlyOne) EXCEPT !.addresses = FALSE],
        [Plain(IpOnlyOne) EXCEPT !.dry_run = TRUE]}

=============================================================================
