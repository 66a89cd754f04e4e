----------------------------- MODULE Breakpoints -----------------------------
(***************************************************************************)
(* The monitor's table of break points (vmmonitor.c): a fixed number of    *)
(* slots, found again by their address whatever their status, and reused   *)
(* when a new address needs one.                                           *)
(***************************************************************************)
EXTENDS Integers, FiniteSets

CONSTANTS
  Addr,                       \* program addresses
  Zero,                       \* address 0, what a slot holds at first
  MON_NUMBER_OF_BREAKPOINTS

ASSUME BreakpointsAssumption ==
  /\ Zero \in Addr
  /\ MON_NUMBER_OF_BREAKPOINTS \in Nat \ {0}

VARIABLES
  address,          \* address[i]: the address in slot i
  status,           \* status[i]: subset of {bps_enabled, bps_set}
  _last_breakpoint  \* the slot to give up next when all are armed

vars == <<address, status, _last_breakpoint>>

bps_enabled == 128
bps_set     == 64

Slot == 0..(MON_NUMBER_OF_BREAKPOINTS - 1)

TypeOK ==
  /\ address \in [Slot -> Addr]
  /\ status \in [Slot -> SUBSET {bps_enabled, bps_set}]
  /\ _last_breakpoint \in Slot

Init ==
  /\ address = [i \in Slot |-> Zero]
  /\ status = [i \in Slot |-> {}]
  /\ _last_breakpoint = 0

-----------------------------------------------------------------------------
(* The search loops return the first slot that qualifies. *)
First(slots) == CHOOSE i \in slots : \A j \in slots : i <= j

(* Mutant: the search begins with slot 1. *)
HoldingButFirst(addr) == {i \in Slot \ {0} : address[i] = addr}

Holding(addr) == {i \in Slot : address[i] = addr}
Free          == {i \in Slot : bps_set \notin status[i]}
Disabled      == {i \in Slot : bps_enabled \notin status[i]}
Armed(i)      == {bps_enabled, bps_set} \subseteq status[i]

(* What the monitor tests before every instruction. *)
_breakpoint_hit(addr) == \E i \in Slot : Armed(i) /\ address[i] = addr

AllArmed == Free = {} /\ Disabled = {}

(* Mutant: the number of the slot to give up is not wrapped. *)
NextVictimUnwrapped == _last_breakpoint + 1

NextVictim == (_last_breakpoint + 1) % MON_NUMBER_OF_BREAKPOINTS

(* Mutant: disabled slots are not looked for. *)
FindSkipsDisabled == IF Free # {} THEN First(Free) ELSE _last_breakpoint

_find_nextbest ==
  IF Free # {} THEN First(Free)
  ELSE IF Disabled # {} THEN First(Disabled)
  ELSE _last_breakpoint

(* _find_breakpoint, then _find_nextbest if it found nothing. *)
SlotFor(addr) ==
  IF Holding(addr) # {} THEN First(Holding(addr)) ELSE _find_nextbest

(* Mutant: a slot found again is not enabled. *)
SetBreakpointDisabled(addr) ==
  /\ address' = [address EXCEPT ![SlotFor(addr)] = addr]
  /\ status' = [status EXCEPT ![SlotFor(addr)] = @ \cup {bps_set}]
  /\ _last_breakpoint' =
       IF Holding(addr) = {} /\ AllArmed THEN NextVictim ELSE _last_breakpoint

(* b!XXXX *)
SetBreakpoint(addr) ==
  /\ address' = [address EXCEPT ![SlotFor(addr)] = addr]
  /\ status' = [status EXCEPT ![SlotFor(addr)] = {bps_set, bps_enabled}]
  /\ _last_breakpoint' =
       IF Holding(addr) = {} /\ AllArmed
       THEN NextVictim
       ELSE _last_breakpoint

(* b.XXXX; the address stays in the freed slot. *)
ClearBreakpoint(addr) ==
  /\ Holding(addr) # {}
  /\ status' = [status EXCEPT ![SlotFor(addr)] = {}]
  /\ UNCHANGED <<address, _last_breakpoint>>

(* Mutant: only the enabled bit is turned over. *)
ToggleUnset(addr) ==
  /\ Holding(addr) # {}
  /\ status' = [status EXCEPT ![SlotFor(addr)] =
                  (@ \ {bps_enabled}) \cup ({bps_enabled} \ @)]
  /\ UNCHANGED <<address, _last_breakpoint>>

(* b*XXXX; a slot that still holds the address is set again. *)
_toggle_breakpoint(addr) ==
  /\ Holding(addr) # {}
  /\ status' = [status EXCEPT ![SlotFor(addr)] =
                  {bps_set} \cup ({bps_enabled} \ status[SlotFor(addr)])]
  /\ UNCHANGED <<address, _last_breakpoint>>

Next == \E addr \in Addr :
  SetBreakpoint(addr) \/ ClearBreakpoint(addr) \/ _toggle_breakpoint(addr)

Spec == Init /\ [][Next]_vars

-----------------------------------------------------------------------------
(* A slot that is set is the first one to hold its address, so b. and b*   *)
(* reach it however many stale slots hold the same address: the ones never *)
(* used all hold address 0, the freed ones what they last held.            *)
SetIsFirst ==
  \A i, j \in Slot :
    j < i /\ bps_set \in status[i] => address[j] # address[i]

(* A slot is enabled only while it is set, so the slots that _find_nextbest*)
(* takes for free are never armed.                                         *)
EnabledIsSet ==
  \A i \in Slot : bps_enabled \in status[i] => bps_set \in status[i]

(* After b.XXXX nothing stops the program at XXXX, after b!XXXX something  *)
(* does.                                                                   *)
CommandsTakeEffect ==
  [][\A addr \in Addr :
       /\ ClearBreakpoint(addr) => ~_breakpoint_hit(addr)'
       /\ SetBreakpoint(addr) => _breakpoint_hit(addr)']_vars

(* No command disarms another address, except b! when every slot is armed. *)
OthersStayArmed ==
  [][\A addr, other \in Addr :
       /\ SetBreakpoint(addr) \/ ClearBreakpoint(addr) \/ _toggle_breakpoint(addr)
       /\ other # addr /\ _breakpoint_hit(other)
       => _breakpoint_hit(other)' \/ (SetBreakpoint(addr) /\ AllArmed)]_vars

(* The table implements the bounded set of armed addresses. *)
ArmedAddr == {addr \in Addr : _breakpoint_hit(addr)}
Abstract == INSTANCE ArmedSet WITH
  armed <- ArmedAddr, Room <- MON_NUMBER_OF_BREAKPOINTS
IsArmedSet == Abstract!Spec
=============================================================================
