------------------------------ MODULE ArmedSet ------------------------------
(***************************************************************************)
(* Break points as the user of the monitor sees them: a bounded set of     *)
(* armed addresses.  `b!XXXX` arms an address, at the expense of one armed *)
(* earlier only when there is no room left; `b.XXXX` disarms an address    *)
(* and `b*XXXX` toggles one.                                               *)
(***************************************************************************)
EXTENDS Naturals, FiniteSets

CONSTANTS Addr, Room

VARIABLE armed

(* What can be armed after arming addr. *)
AfterArming(set, addr) ==
  IF addr \in set \/ Cardinality(set) < Room
  THEN {set \cup {addr}}
  ELSE {(set \ {gone}) \cup {addr} : gone \in set}

Init == armed = {}

Arm(addr)    == armed' \in AfterArming(armed, addr)
Disarm(addr) == armed' = armed \ {addr}
Toggle(addr) == IF addr \in armed THEN Disarm(addr) ELSE Arm(addr)

Next == \E addr \in Addr : Arm(addr) \/ Disarm(addr) \/ Toggle(addr)

Spec == Init /\ [][Next]_armed
=============================================================================
