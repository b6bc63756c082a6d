---------------------------- MODULE MCDiscovery ----------------------------
(* Instances of Discovery for TLC.                                         *)
EXTENDS Discovery

CONSTANTS d1, d2, a1, a2, a3, a4, n1, n2, n3, n4, printer

Names == [a \in Addr |-> CASE a = a1 -> n1 [] a = a2 -> n2 [] a = a3 -> n3 [] a = a4 -> n4]

(* d1 is heard over a cable and over Wi-Fi, d2 is found by mDNS alone, and *)
(* behind a4 is a device that nothing but a probe finds.                   *)
Probes == [a \in Addr |-> CASE a \in {a1, a2} -> d1 [] a = a3 -> d2 [] a = a4 -> printer]
CableFirst == [a \in Addr |-> IF a = a2 THEN 1 ELSE 0]
TwoSources == [d \in Device |-> IF d = d1 THEN {a1, a2} ELSE {}]
OneService == [d \in Device |-> IF d = d2 THEN {a3} ELSE {}]
=============================================================================
