---------------------------- MODULE MCTerminator ----------------------------
(* Terminator on a few peers and every shape of policy list that            *)
(* select_policy, validate and configure_listener tell apart.              *)
EXTENDS Terminator

CONSTANTS a1, a2, any4, b6, anyport

MCV4 == {a1, a2, any4}
MCV6 == {b6}
MCUnspecified == {any4}
MCNoPort == anyport

Entry(name, ip, port, keyid) ==
  [name |-> name, ip |-> ip, port |-> port, keyid |-> keyid, source |-> "file"]

One       == <<Entry("a", a1, anyport, 1)>>
PortAndIp == <<Entry("a", a1, 179, 1), Entry("b", a1, anyport, 2), Entry("c", a2, 179, 1)>>
TwoPorts  == <<Entry("a", a1, 179, 1), Entry("b", a1, 180, 2)>>
Wildcard  == <<Entry("a", any4, anyport, 9), Entry("b", a1, anyport, 1)>>
Families  == <<Entry("a", b6, anyport, 1), Entry("b", a1, 179, 1)>>
Foreign   == <<Entry("a", b6, anyport, 1)>>
Clashing  == <<Entry("a", a1, 179, 1), Entry("b", a1, anyport, 1)>>
SameName  == <<Entry("a", a1, anyport, 1), Entry("a", a2, anyport, 1)>>
SamePeer  == <<Entry("a", a1, anyport, 1), Entry("b", a1, anyport, 2)>>
BadSource == <<[Entry("a", a1, anyport, 1) EXCEPT !.source = "vault"]>>

(* Sixteen values for an i32, of which the kernel takes the first four.    *)
MCWord == 16
MCMost == [o \in Options |-> IF o = "probes" THEN 2 ELSE 4]
Alive(time, intvl, probes) ==
  [on |-> TRUE, time |-> time, intvl |-> intvl, probes |-> probes]
Off == [Alive(0, Unset, Unset) EXCEPT !.on = FALSE]
Alives == {Alive(t, 1, 2) : t \in {Unset, 4, 15, 16 + 4}}
          \cup {Alive(16 + 4, i, 2) : i \in {1, 5, 16 + 8}}
          \cup {Alive(Unset, 1, p) : p \in {2, 3, 15}}

Plain(ps) ==
  [policies |-> ps, key |-> [i \in DOMAIN ps |-> "k"], family |-> "v4",
   parses |-> TRUE, addresses |-> TRUE, dry_run |-> FALSE,
   keepalive |-> Alive(4, Unset, 2), bypass |-> FALSE, best_effort |-> FALSE]

Served == {One, PortAndIp, TwoPorts, Wildcard, Families}
Rejected == {<<>>, Foreign, Clashing, SameName, SamePeer, BadSource}

MCConfigs ==
  {Plain(ps) : ps \in Served \cup Rejected}
  \cup {[Plain(ps) EXCEPT !.key[Len(ps)] = "absent"] : ps \in Served}
  \cup {[Plain(One) EXCEPT !.keepalive = g] : g \in Alives}
  \cup {[Plain(One) EXCEPT !.best_effort = TRUE],
        [Plain(One) EXCEPT !.bypass = TRUE],
        [Plain(One) EXCEPT !.key[1] = "toolong"],
        [Plain(One) EXCEPT !.keepalive = Off],
        [Plain(One) EXCEPT !.parses = FALSE],
        [Plain(One) EXCEPT !.addresses = FALSE],
        [Plain(One) EXCEPT !.dry_run = TRUE]}

=============================================================================
