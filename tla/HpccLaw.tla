------------------------------- MODULE HpccLaw -------------------------------
(***************************************************************************)
(* HPCC's control law, as the two Python senders and the C sender write    *)
(* it: smooth the utilisation samples, scale the window by eta / U and add *)
(* W_AI, halve it on a timeout.  Fixed-point, rounded down: windows in     *)
(* units of 1/Scale packets, utilisations in units of 1/UOne.              *)
(***************************************************************************)
EXTENDS Integers

CONSTANTS
  WMin,      (* w_min, in packets.                                         *)
  WMax,      (* w_max, in packets.                                         *)
  Scale,     (* one packet of window.                                      *)
  UOne,      (* U = 1: a fully used link.                                  *)
  WAi,       (* w_ai, times Scale.                                         *)
  Eta,       (* eta, times UOne.                                           *)
  TauInv     (* 1 / tau_over_T.                                            *)

ASSUME LawAssumption ==
  /\ WMin \in Nat \ {0}
  /\ WMax \in Nat /\ WMin <= WMax
  /\ {Scale, UOne, Eta, TauInv} \subseteq Nat \ {0}
  /\ WAi \in Nat

AtLeast(low, x) == IF x >= low THEN x ELSE low

(* A sample of 0 is no sample: no hop could be measured.                   *)
Smoothed(u_smoothed, u) ==
  IF u > 0 THEN ((TauInv - 1) * u_smoothed + u) \div TauInv ELSE u_smoothed

Clamped_WMinOnly(x) == AtLeast(WMin * Scale, x)
Clamped(x) == IF x > WMax * Scale THEN WMax * Scale ELSE AtLeast(WMin * Scale, x)

(* ref / (U / eta) + W_AI, between the limits.  U is kept off zero, here   *)
(* by its smallest unit, in the code by 1e-3.                              *)
NewWindow(ref, u) == Clamped((ref * Eta) \div AtLeast(1, u) + WAi)

Halved_NoFloor(ref) == ref \div 2
Halved(ref) == AtLeast(WMin * Scale, ref \div 2)

(* How many packets an update waits for: int(max(w, 1)).                   *)
WholeWindow(ref) == AtLeast(1, ref \div Scale)

=============================================================================
