------------------------------ MODULE Keepalive ------------------------------
(***************************************************************************)
(* apply_keepalive, which both modes call for each socket with the values  *)
(* of GlobalConfig: unsigned numbers that nothing validates, cast to the   *)
(* i32 that setsockopt takes, for a kernel that refuses what is out of its *)
(* range.                                                                  *)
(*                                                                         *)
(* A configuration is a record [on, time, intvl, probes]; Unset is         *)
(* Option::None.                                                           *)
(***************************************************************************)
EXTENDS Integers

CONSTANTS
  Word,  \* how many values an i32 has
  Most   \* the largest value the kernel takes for each option

Options == {"time", "intvl", "probes"}
Unset == -1

ASSUME WordAssumption == Word \in Nat \ {0}
ASSUME MostAssumption == Most \in [Options -> Nat]

(* Two u64 and a u32.                                                      *)
GlobalConfig ==
  [on : BOOLEAN, time : Nat \cup {Unset}, intvl : Nat \cup {Unset},
   probes : 0..(Word - 1) \cup {Unset}]

Given(g) == {o \in Options : g[o] # Unset}

(* v as i32.                                                               *)
AsI32(v) == LET low == v % Word IN IF 2 * low < Word THEN low ELSE low - Word

(* setsockopt of TCP_KEEPIDLE, TCP_KEEPINTVL, TCP_KEEPCNT.                 *)
Takes(o, n) == n \in 1..Most[o]

(* Slip: what set_sockopt_int returns is ignored.                          *)
AppliesAnyway(g) == TRUE

(* apply_keepalive returns Ok: the first value that is refused is an error.*)
Applies(g) == g.on => \A o \in Given(g) : Takes(o, AsI32(g[o]))

(* Every value that fits 32 bits is one the kernel takes, and is passed as *)
(* it was given.  Of larger ones nothing is said: the cast takes their low *)
(* bits, which may be a value that the kernel takes.                       *)
AsAsked(g) ==
  g.on => \A o \in Given(g) :
            g[o] < Word => g[o] \in 1..Most[o] /\ AsI32(g[o]) = g[o]

=============================================================================
