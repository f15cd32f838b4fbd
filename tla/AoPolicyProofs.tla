--------------------------- MODULE AoPolicyProofs ---------------------------
(***************************************************************************)
(* What select_policy returns for every list of entries, what              *)
(* apply_keepalive asks of the kernel, and a fact about counting: what the *)
(* proofs of both modes share.                                             *)
(***************************************************************************)
EXTENDS AoPolicy, Keepalive, FiniteSetTheorems, WellFoundedInduction, TLAPS

USE DEF None

(* What it returns without a port is an entry for the address asked for.   *)
LEMMA SelectedForIp ==
  ASSUME NEW ps \in Seq(Entries), NEW ip
  PROVE  SelectPolicy(ps, ip, NoPort) # None =>
           /\ SelectPolicy(ps, ip, NoPort) \in DOMAIN ps
           /\ ps[SelectPolicy(ps, ip, NoPort)].ip = ip
BY DEF SelectPolicy, OnlyOf, IpOnly, ForIp

(* It returns a natural number in any case.                                *)
LEMMA SelectedNat ==
  ASSUME NEW ps \in Seq(Entries), NEW ip
  PROVE  SelectPolicy(ps, ip, NoPort) \in Nat
<1>1. DOMAIN ps \subseteq Nat
  OBVIOUS
<1> QED
  BY <1>1, SelectedForIp

(* If it does not return an entry for the address, then it returns one for *)
(* any port, and that entry has a port.                                    *)
LEMMA SelectedOther ==
  ASSUME NEW ps \in Seq(Entries), NEW ip,
         NEW i \in DOMAIN ps, ps[i].ip = ip,
         SelectPolicy(ps, ip, NoPort) \notin {None, i}
  PROVE  /\ ps[i].port # NoPort
         /\ ps[SelectPolicy(ps, ip, NoPort)].port = NoPort
BY DEF SelectPolicy, OnlyOf, IpOnly, ForIp

(* With a port it is an entry for the address, and for the port or, if     *)
(* there is none for the port, for any port.                               *)
LEMMA FirstOfMember ==
  ASSUME NEW S, S \subseteq Nat \ {0}
  PROVE  /\ FirstOf(S) \in Nat
         /\ FirstOf(S) # None => FirstOf(S) \in S
<1>1. CASE S = {}
  BY <1>1 DEF FirstOf
<1>2. CASE S # {}
  <2>1. \E i \in S : \A j \in S : ~(<<j, i>> \in OpToRel(<, Nat))
    BY <1>2, NatLessThanWellFounded, WFMin
  <2>2. \E i \in S : \A j \in S : i <= j
    <3>1. \A i, j \in Nat : j < i => <<j, i>> \in OpToRel(<, Nat)
      BY DEF OpToRel
    <3>2. \A i, j \in Nat : ~(j < i) => i <= j
      OBVIOUS
    <3> QED
      BY <2>1, <3>1, <3>2
  <2>3. FirstOf(S) \in S
    BY <1>2, <2>2 DEF FirstOf
  <2> QED
    BY <2>3
<1> QED
  BY <1>1, <1>2

LEMMA SelectedWithPort ==
  ASSUME NEW ps \in Seq(Entries), NEW ip, NEW port, port # NoPort
  PROVE  /\ SelectPolicy(ps, ip, port) \in Nat
         /\ SelectPolicy(ps, ip, port) # None =>
              LET p == ps[SelectPolicy(ps, ip, port)] IN
              /\ SelectPolicy(ps, ip, port) \in DOMAIN ps
              /\ p.ip = ip
              /\ p.port = port \/ (p.port = NoPort /\ Exact(ps, ip, port) = {})
<1>1. DOMAIN ps \subseteq Nat \ {0}
  OBVIOUS
<1>2. /\ Exact(ps, ip, port) \subseteq Nat \ {0}
      /\ IpOnly(ps, ip) \subseteq Nat \ {0}
  BY <1>1 DEF Exact, IpOnly, ForIp
<1>3. CASE Exact(ps, ip, port) # {}
  <2>1. SelectPolicy(ps, ip, port) = FirstOf(Exact(ps, ip, port))
    BY <1>3 DEF SelectPolicy
  <2> QED
    BY <1>2, <2>1, FirstOfMember DEF Exact, ForIp
<1>4. CASE Exact(ps, ip, port) = {}
  <2>1. SelectPolicy(ps, ip, port) = FirstOf(IpOnly(ps, ip))
    BY <1>4 DEF SelectPolicy
  <2> QED
    BY <1>2, <1>4, <2>1, FirstOfMember DEF IpOnly, ForIp
<1> QED
  BY <1>3, <1>4

-----------------------------------------------------------------------------
(* What select_policy means for a list that passes validate.               *)

LEMMA OnlyOne ==
  ASSUME NEW S, S \subseteq Nat, NEW i \in S, \A j \in S : j = i
  PROVE  FirstOf(S) = i /\ OnlyOf(S) = i
<1>1. S = {i}
  OBVIOUS
<1>2. i \in Nat /\ i <= i
  OBVIOUS
<1> QED
  BY <1>1, <1>2 DEF FirstOf, OnlyOf

(* It answers with the one entry that Answers names, or with none if there *)
(* is no such entry: an address with entries for two ports and none for any*)
(* has none when the port is not known.                                    *)
THEOREM SelectedMeaning ==
  ASSUME NEW ps \in Seq(Entries), ValidPolicies(ps), NEW ip, NEW port
  PROVE  Selected(ps, ip, port) = Answers(EntriesOf(ps), ip, port)
<1> DEFINE k == SelectPolicy(ps, ip, port)
<1>1. DOMAIN ps \subseteq Nat \ {0}
  OBVIOUS
<1>2. /\ Exact(ps, ip, port) \subseteq Nat /\ IpOnly(ps, ip) \subseteq Nat
      /\ ForIp(ps, ip) \subseteq Nat
  BY <1>1 DEF Exact, IpOnly, ForIp
<1>3. \A i, j \in DOMAIN ps :
        (ps[i].ip = ps[j].ip /\ ps[i].port = ps[j].port) \/ ps[i] = ps[j] => i = j
  BY DEF ValidPolicies
<1>4. ASSUME k # None
      PROVE  k \in DOMAIN ps /\ ps[k] \in Answers(EntriesOf(ps), ip, port)
  <2>1. CASE port # NoPort
    <3>1. /\ k \in DOMAIN ps /\ ps[k].ip = ip
          /\ ps[k].port = port \/ (ps[k].port = NoPort /\ Exact(ps, ip, port) = {})
      BY <1>4, <2>1, SelectedWithPort
    <3>2. Exact(ps, ip, port) = {} =>
            \A f \in EntriesOf(ps) : f.ip = ip => f.port # port
      BY DEF Exact, ForIp, EntriesOf
    <3> QED
      BY <2>1, <3>1, <3>2 DEF Answers, EntriesOf
  <2>2. CASE port = NoPort
    <3>1. k \in DOMAIN ps /\ ps[k].ip = ip
      BY <1>4, <2>2, SelectedForIp
    <3>2. ASSUME ps[k].port # NoPort, NEW f \in EntriesOf(ps), f.ip = ip
          PROVE  f = ps[k]
      <4>1. PICK i \in DOMAIN ps : f = ps[i]
        BY <3>2 DEF EntriesOf
      <4>2. k = i
        BY <1>4, <2>2, <3>1, <3>2, <4>1, SelectedOther
      <4> QED
        BY <4>1, <4>2
    <3> QED
      BY <2>2, <3>1, <3>2 DEF Answers, EntriesOf
  <2> QED
    BY <2>1, <2>2
<1>5. ASSUME NEW i \in DOMAIN ps, ps[i] \in Answers(EntriesOf(ps), ip, port)
      PROVE  k = i
  <2>1. ps[i].ip = ip
    BY <1>5 DEF Answers
  <2>2. CASE port # NoPort /\ ps[i].port = port
    <3>1. i \in Exact(ps, ip, port) /\ \A j \in Exact(ps, ip, port) : j = i
      BY <1>3, <2>1, <2>2 DEF Exact, ForIp
    <3>2. k = FirstOf(Exact(ps, ip, port))
      BY <2>2, <3>1 DEF SelectPolicy
    <3> QED
      BY <1>2, <3>1, <3>2, OnlyOne
  <2>3. CASE port # NoPort /\ ps[i].port # port
    <3>1. /\ ps[i].port = NoPort
          /\ \A f \in EntriesOf(ps) : f.ip = ip => f.port # port
      BY <1>5, <2>3 DEF Answers
    <3>2. Exact(ps, ip, port) = {}
      BY <3>1 DEF Exact, ForIp, EntriesOf
    <3>3. i \in IpOnly(ps, ip) /\ \A j \in IpOnly(ps, ip) : j = i
      BY <1>3, <2>1, <3>1 DEF IpOnly, ForIp
    <3>4. k = FirstOf(IpOnly(ps, ip))
      BY <2>3, <3>2 DEF SelectPolicy
    <3> QED
      BY <1>2, <3>3, <3>4, OnlyOne
  <2>4. CASE port = NoPort /\ ps[i].port = NoPort
    <3>1. i \in IpOnly(ps, ip) /\ \A j \in IpOnly(ps, ip) : j = i
      BY <1>3, <2>1, <2>4 DEF IpOnly, ForIp
    <3>2. k = OnlyOf(IpOnly(ps, ip))
      BY <2>4, <3>1 DEF SelectPolicy
    <3> QED
      BY <1>2, <3>1, <3>2, OnlyOne
  <2>5. CASE port = NoPort /\ ps[i].port # NoPort
    <3>1. \A f \in EntriesOf(ps) : f.ip = ip => f = ps[i]
      BY <1>5, <2>5 DEF Answers
    <3>2. i \in ForIp(ps, ip) /\ \A j \in ForIp(ps, ip) : j = i
      BY <1>3, <2>1, <3>1 DEF ForIp, EntriesOf
    <3>3. IpOnly(ps, ip) = {}
      BY <2>5, <3>2 DEF IpOnly
    <3>4. k = OnlyOf(ForIp(ps, ip))
      BY <2>5, <3>3 DEF SelectPolicy
    <3> QED
      BY <1>2, <3>2, <3>4, OnlyOne
  <2> QED
    BY <2>2, <2>3, <2>4, <2>5
<1>6. ASSUME NEW e
      PROVE  e \in Selected(ps, ip, port) <=> e \in Answers(EntriesOf(ps), ip, port)
  <2>1. ASSUME e \in Selected(ps, ip, port)
        PROVE  e \in Answers(EntriesOf(ps), ip, port)
    BY <1>4, <2>1 DEF Selected
  <2>2. ASSUME e \in Answers(EntriesOf(ps), ip, port)
        PROVE  e \in Selected(ps, ip, port)
    <3>1. PICK i \in DOMAIN ps : e = ps[i]
      BY <2>2 DEF Answers, EntriesOf
    <3>2. k = i /\ i # None
      BY <1>1, <1>5, <2>2, <3>1
    <3> QED
      BY <3>1, <3>2 DEF Selected
  <2> QED
    BY <2>1, <2>2
<1> QED
  BY <1>6

(* For a list that passes validate the order of its entries is of no       *)
(* consequence: two lists of the same entries select the same one.         *)
THEOREM SelectOrderFree ==
  ASSUME NEW ps \in Seq(Entries), NEW qs \in Seq(Entries),
         ValidPolicies(ps), ValidPolicies(qs), EntriesOf(ps) = EntriesOf(qs),
         NEW ip, NEW port
  PROVE  Selected(ps, ip, port) = Selected(qs, ip, port)
BY SelectedMeaning

-----------------------------------------------------------------------------
(* Counting sessions.                                                      *)

(* The elements of A at which f is in P, and what one counts for.          *)
One(x, P) == IF x \in P THEN 1 ELSE 0
At(A, f, P) == {d \in A : f[d] \in P}

(* When one session changes its stage, the number of sessions at some      *)
(* stages P changes by what that session counts for.                       *)
LEMMA CountStep ==
  ASSUME NEW A, IsFiniteSet(A), NEW f, NEW g, NEW P, NEW c \in A,
         \A d \in A \ {c} : g[d] = f[d]
  PROVE  /\ Cardinality(At(A, f, P)) \in Nat
         /\ Cardinality(At(A, g, P)) \in Nat
         /\ Cardinality(At(A, g, P)) + One(f[c], P)
              = Cardinality(At(A, f, P)) + One(g[c], P)
<1> DEFINE F == At(A, f, P)
           G == At(A, g, P)
           H == {d \in A \ {c} : f[d] \in P}
<1>1. IsFiniteSet(F) /\ IsFiniteSet(G) /\ IsFiniteSet(H)
  <2>1. F \subseteq A /\ G \subseteq A /\ H \subseteq A
    BY DEF At
  <2> QED
    BY <2>1, FS_Subset
<1>2. Cardinality(F) \in Nat /\ Cardinality(G) \in Nat /\ Cardinality(H) \in Nat
  BY <1>1, FS_CardinalityType
<1>3. /\ f[c] \in P => Cardinality(F) = Cardinality(H) + 1
      /\ f[c] \notin P => Cardinality(F) = Cardinality(H)
  <2>1. CASE f[c] \in P
    <3>1. F = H \cup {c} /\ c \notin H
      BY <2>1 DEF At
    <3>2. Cardinality(H \cup {c}) = Cardinality(H) + 1
      BY <1>1, <3>1, FS_AddElement
    <3> QED
      BY <2>1, <3>1, <3>2
  <2>2. CASE f[c] \notin P
    <3>1. F = H
      BY <2>2 DEF At
    <3> QED
      BY <2>2, <3>1
  <2> QED
    BY <2>1, <2>2
<1>4. /\ g[c] \in P => Cardinality(G) = Cardinality(H) + 1
      /\ g[c] \notin P => Cardinality(G) = Cardinality(H)
  <2>1. CASE g[c] \in P
    <3>1. G = H \cup {c} /\ c \notin H
      BY <2>1 DEF At
    <3>2. Cardinality(H \cup {c}) = Cardinality(H) + 1
      BY <1>1, <3>1, FS_AddElement
    <3> QED
      BY <2>1, <3>1, <3>2
  <2>2. CASE g[c] \notin P
    <3>1. G = H
      BY <2>2 DEF At
    <3> QED
      BY <2>2, <3>1
  <2> QED
    BY <2>1, <2>2
<1> HIDE DEF F, G, H
<1>5. Cardinality(G) + One(f[c], P) = Cardinality(F) + One(g[c], P)
  BY <1>2, <1>3, <1>4 DEF One
<1> QED
  BY <1>2, <1>5 DEF F, G

-----------------------------------------------------------------------------
(* Keepalive values.                                                       *)

(* A cast whose result is positive changes nothing below 2^32.             *)
LEMMA CastExact ==
  ASSUME NEW v \in 0..(Word - 1), NEW n \in Nat, AsI32(v) \in 1..n
  PROVE  AsI32(v) = v
<1>1. v % Word = v
  BY WordAssumption
<1> QED
  BY <1>1, WordAssumption DEF AsI32

(* If no call of set_sockopt_int fails, then every value that fits 32 bits *)
(* is passed as it was given.                                              *)
LEMMA AppliesAsAsked ==
  ASSUME NEW g \in GlobalConfig, Applies(g)
  PROVE  AsAsked(g)
<1> SUFFICES ASSUME g.on, NEW o \in Given(g), g[o] < Word
             PROVE  g[o] \in 1..Most[o] /\ AsI32(g[o]) = g[o]
  BY DEF AsAsked
<1>1. AsI32(g[o]) \in 1..Most[o]
  BY DEF Applies, Takes
<1>2. Most[o] \in Nat /\ g[o] # Unset
  BY MostAssumption DEF Given
<1>3. g[o] \in 0..(Word - 1)
  BY <1>2, WordAssumption DEF GlobalConfig, Given, Options, Unset
<1> QED
  BY <1>1, <1>2, <1>3, CastExact

=============================================================================
