-------------------------- MODULE BreakpointsProofs --------------------------
(***************************************************************************)
(* Proofs about the table of break points, for any number of slots.        *)
(***************************************************************************)
EXTENDS Breakpoints, WellFoundedInduction, FiniteSetTheorems, TLAPS

(* A search that finds anything finds a first slot. *)
LEMMA FirstIsFirst ==
  ASSUME NEW slots, slots \subseteq Slot, slots # {}
  PROVE  First(slots) \in slots /\ \A j \in slots : First(slots) <= j
<1>1. slots \subseteq Nat
  BY BreakpointsAssumption DEF Slot
<1>2. IsWellFoundedOn(OpToRel(<, Nat), Nat)
  BY NatLessThanWellFounded
<1>3. PICK i \in slots : \A j \in slots : <<j, i>> \notin OpToRel(<, Nat)
  BY <1>1, <1>2, WFMin, Zenon
<1>4. \A j \in slots : ~(j < i)
  <2> SUFFICES ASSUME NEW j \in slots PROVE ~(j < i)
    OBVIOUS
  <2>1. <<j, i>> \in Nat \X Nat
    BY <1>1
  <2>2. <<j, i>> \notin {ss \in Nat \X Nat : ss[1] < ss[2]}
    BY <1>3, Zenon DEF OpToRel
  <2> QED BY <2>1, <2>2
<1>5. \A j \in slots : i <= j
  BY <1>1, <1>4
<1> QED BY <1>5 DEF First

(* The slot a command works on, and why it is that one. *)
LEMMA SlotForIsSlot ==
  ASSUME TypeOK, NEW addr
  PROVE  /\ SlotFor(addr) \in Slot
         /\ Holding(addr) # {} =>
              /\ address[SlotFor(addr)] = addr
              /\ \A j \in Slot : j < SlotFor(addr) => address[j] # addr
         /\ Holding(addr) = {} => AllArmed \/ SlotFor(addr) \in Free \cup Disabled
<1>0. Slot \subseteq Nat
  BY BreakpointsAssumption DEF Slot
<1>1. CASE Holding(addr) # {}
  <2> DEFINE slot == First(Holding(addr))
  <2>1. slot \in Holding(addr) /\ \A j \in Holding(addr) : slot <= j
    BY <1>1, FirstIsFirst DEF Holding
  <2>2. \A j \in Slot : j < slot => j \notin Holding(addr)
    <3>1. slot \in Nat
      BY <2>1, <1>0 DEF Holding
    <3>2. \A j \in Nat : j < slot => ~(slot <= j)
      BY <3>1
    <3> HIDE DEF slot
    <3> QED BY <2>1, <3>2, <1>0
  <2> QED BY <1>1, <2>1, <2>2 DEF SlotFor, Holding
<1>2. CASE Holding(addr) = {}
  <2>1. Free # {} => First(Free) \in Free
    BY FirstIsFirst DEF Free
  <2>2. Disabled # {} => First(Disabled) \in Disabled
    BY FirstIsFirst DEF Disabled
  <2>3. _find_nextbest \in Slot
    <3>1. Free \subseteq Slot /\ Disabled \subseteq Slot
      BY DEF Free, Disabled
    <3>2. _last_breakpoint \in Slot
      BY DEF TypeOK
    <3>3. CASE Free # {}
      BY <2>1, <3>1, <3>3, Zenon DEF _find_nextbest
    <3>4. CASE Free = {} /\ Disabled # {}
      BY <2>2, <3>1, <3>4, Zenon DEF _find_nextbest
    <3>5. CASE Free = {} /\ Disabled = {}
      BY <3>2, <3>5, Zenon DEF _find_nextbest
    <3> QED BY <3>3, <3>4, <3>5
  <2>4. AllArmed \/ _find_nextbest \in Free \cup Disabled
    BY <2>1, <2>2 DEF _find_nextbest, AllArmed
  <2> QED BY <1>2, <2>3, <2>4 DEF SlotFor
<1> QED BY <1>1, <1>2

-----------------------------------------------------------------------------
(* Every slot always holds an address and a status. *)
THEOREM TypeCorrect == Spec => []TypeOK
<1>1. Init => TypeOK
  BY BreakpointsAssumption DEF Init, TypeOK, Slot
<1>2. TypeOK /\ [Next]_vars => TypeOK'
  <2> SUFFICES ASSUME TypeOK, [Next]_vars PROVE TypeOK'
    OBVIOUS
  <2> USE DEF TypeOK
  <2>1. ASSUME NEW addr \in Addr, SetBreakpoint(addr) PROVE TypeOK'
    <3>1. NextVictim \in Slot
      BY BreakpointsAssumption DEF Slot, NextVictim
    <3> QED BY <2>1, <3>1, SlotForIsSlot DEF SetBreakpoint
  <2>2. ASSUME NEW addr \in Addr, ClearBreakpoint(addr) PROVE TypeOK'
    BY <2>2, SlotForIsSlot DEF ClearBreakpoint
  <2>3. ASSUME NEW addr \in Addr, _toggle_breakpoint(addr) PROVE TypeOK'
    BY <2>3, SlotForIsSlot DEF _toggle_breakpoint
  <2>4. CASE UNCHANGED vars
    BY <2>4 DEF vars
  <2> QED BY <2>1, <2>2, <2>3, <2>4 DEF Next
<1> QED BY <1>1, <1>2, PTL DEF Spec

-----------------------------------------------------------------------------
TableInv == SetIsFirst /\ EnabledIsSet

(* b! writes its address into the first slot that holds it, or into a slot *)
(* when none holds it; b. and b* move no address, and b* sets the first    *)
(* slot that holds its address.                                            *)
LEMMA TableInvStep ==
  ASSUME TypeOK, TableInv, [Next]_vars
  PROVE  TableInv'
<1>0. Slot \subseteq Nat /\ bps_set # bps_enabled
  BY BreakpointsAssumption DEF Slot, bps_set, bps_enabled
<1> USE DEF TypeOK, TableInv
<1>1. ASSUME NEW addr \in Addr, SetBreakpoint(addr) PROVE TableInv'
  <2> DEFINE slot == SlotFor(addr)
  <2>1. /\ slot \in Slot
        /\ \A i \in Slot : address'[i] = IF i = slot THEN addr ELSE address[i]
        /\ \A i \in Slot :
             status'[i] = IF i = slot THEN {bps_set, bps_enabled} ELSE status[i]
    BY <1>1, SlotForIsSlot DEF SetBreakpoint
  <2>2. \A j \in Slot : j < slot => address[j] # addr
    BY SlotForIsSlot DEF Holding
  <2>3. \A i \in Slot : slot < i /\ bps_set \in status[i] => address[i] # addr
    <3>1. CASE Holding(addr) = {}
      BY <3>1 DEF Holding
    <3>2. CASE Holding(addr) # {}
      BY <3>2, SlotForIsSlot DEF SetIsFirst
    <3> QED BY <3>1, <3>2
  <2>4. SetIsFirst'
    BY <2>1, <2>2, <2>3, <1>0 DEF SetIsFirst
  <2>5. EnabledIsSet'
    BY <2>1 DEF EnabledIsSet
  <2> QED BY <2>4, <2>5
<1>2. ASSUME NEW addr \in Addr, ClearBreakpoint(addr) PROVE TableInv'
  <2>1. /\ address' = address
        /\ \A i \in Slot : status'[i] = IF i = SlotFor(addr) THEN {} ELSE status[i]
    BY <1>2, SlotForIsSlot DEF ClearBreakpoint
  <2> QED BY <2>1 DEF SetIsFirst, EnabledIsSet
<1>3. ASSUME NEW addr \in Addr, _toggle_breakpoint(addr) PROVE TableInv'
  <2> DEFINE slot == SlotFor(addr)
  <2>1. /\ address' = address /\ slot \in Slot /\ address[slot] = addr
        /\ \A j \in Slot : j < slot => address[j] # addr
        /\ bps_set \in status'[slot]
        /\ \A i \in Slot : i # slot => status'[i] = status[i]
    BY <1>3, SlotForIsSlot DEF _toggle_breakpoint
  <2>2. SetIsFirst'
    BY <2>1 DEF SetIsFirst
  <2>3. EnabledIsSet'
    BY <2>1 DEF EnabledIsSet
  <2> QED BY <2>2, <2>3
<1>4. CASE UNCHANGED vars
  BY <1>4 DEF vars, SetIsFirst, EnabledIsSet
<1> QED BY <1>1, <1>2, <1>3, <1>4 DEF Next

(* The table invariant, and its two parts. *)
THEOREM TableInvariant == Spec => []TableInv
<1>1. Init => TableInv
  BY DEF Init, TableInv, SetIsFirst, EnabledIsSet
<1>2. TypeOK /\ TableInv /\ [Next]_vars => TableInv'
  BY TableInvStep
<1> QED BY <1>1, <1>2, TypeCorrect, PTL DEF Spec

(* A slot that is set is the first one to hold its address.                *)
THEOREM SetIsFirstHolds == Spec => []SetIsFirst
<1>1. TableInv => SetIsFirst
  BY DEF TableInv
<1> QED BY <1>1, TableInvariant, PTL

(* A slot is enabled only while it is set.                                 *)
THEOREM EnabledIsSetHolds == Spec => []EnabledIsSet
<1>1. TableInv => EnabledIsSet
  BY DEF TableInv
<1> QED BY <1>1, TableInvariant, PTL

-----------------------------------------------------------------------------
(* b.XXXX disarms XXXX because the slot it frees is the only one set with  *)
(* that address; b!XXXX arms the slot it has chosen.                       *)
THEOREM CommandsTakeEffectHolds == Spec => CommandsTakeEffect
<1>1. ASSUME TypeOK, TableInv, NEW addr \in Addr, ClearBreakpoint(addr)
      PROVE  ~_breakpoint_hit(addr)'
  <2> DEFINE slot == SlotFor(addr)
  <2>0. Slot \subseteq Nat
    BY BreakpointsAssumption DEF Slot
  <2>1. /\ address' = address /\ slot \in Slot /\ address[slot] = addr
        /\ \A j \in Slot : j < slot => address[j] # addr
        /\ \A i \in Slot : status'[i] = IF i = slot THEN {} ELSE status[i]
    BY <1>1, SlotForIsSlot DEF ClearBreakpoint, TypeOK
  <2>2. \A i \in Slot : i # slot /\ bps_set \in status[i] => address[i] # addr
    <3> SUFFICES ASSUME NEW i \in Slot, i # slot, bps_set \in status[i]
                 PROVE  address[i] # addr
      OBVIOUS
    <3>1. i < slot \/ slot < i
      BY <2>0, <2>1
    <3>2. CASE i < slot
      BY <2>1, <3>2
    <3>3. CASE slot < i
      BY <1>1, <2>1, <3>3 DEF TableInv, SetIsFirst
    <3> QED BY <3>1, <3>2, <3>3
  <2> QED BY <2>1, <2>2 DEF _breakpoint_hit, Armed
<1>2. ASSUME TypeOK, TableInv, NEW addr \in Addr, SetBreakpoint(addr)
      PROVE  _breakpoint_hit(addr)'
  <2>1. PICK slot \in Slot : slot = SlotFor(addr)
    BY <1>2, SlotForIsSlot
  <2>2. address'[slot] = addr /\ status'[slot] = {bps_set, bps_enabled}
    BY <1>2, <2>1 DEF SetBreakpoint, TypeOK
  <2>3. Armed(slot)'
    BY <2>2 DEF Armed
  <2> QED BY <2>1, <2>2, <2>3 DEF _breakpoint_hit
<1>3. TypeOK /\ TableInv /\ [Next]_vars =>
        [\A addr \in Addr :
           /\ ClearBreakpoint(addr) => ~_breakpoint_hit(addr)'
           /\ SetBreakpoint(addr) => _breakpoint_hit(addr)']_vars
  BY <1>1, <1>2
<1> QED BY <1>3, TypeCorrect, TableInvariant, PTL DEF Spec, CommandsTakeEffect

(* A command touches one slot.  If that slot is armed for another address, *)
(* the command is b! and _find_nextbest had nothing better.                *)
THEOREM OthersStayArmedHolds == Spec => OthersStayArmed
<1>1. ASSUME TypeOK, TableInv, NEW addr \in Addr, NEW other \in Addr,
             SetBreakpoint(addr) \/ ClearBreakpoint(addr) \/ _toggle_breakpoint(addr),
             other # addr, _breakpoint_hit(other)
      PROVE  _breakpoint_hit(other)' \/ (SetBreakpoint(addr) /\ AllArmed)
  <2>1. PICK i \in Slot : Armed(i) /\ address[i] = other
    BY <1>1 DEF _breakpoint_hit
  <2>2. CASE i # SlotFor(addr)
    <3>1. address'[i] = address[i] /\ status'[i] = status[i]
      BY <1>1, <2>2, SlotForIsSlot
      DEF SetBreakpoint, ClearBreakpoint, _toggle_breakpoint, TypeOK
    <3> QED BY <2>1, <3>1 DEF _breakpoint_hit, Armed
  <2>3. CASE i = SlotFor(addr)
    <3>1. Holding(addr) = {}
      BY <1>1, <2>1, <2>3, SlotForIsSlot
    <3>2. SetBreakpoint(addr)
      BY <1>1, <3>1 DEF ClearBreakpoint, _toggle_breakpoint
    <3>3. SlotFor(addr) \notin Free \cup Disabled
      BY <2>1, <2>3 DEF Free, Disabled, Armed
    <3> QED BY <1>1, <3>1, <3>2, <3>3, SlotForIsSlot
  <2> QED BY <2>2, <2>3
<1>2. TypeOK /\ TableInv /\ [Next]_vars =>
        [\A addr, other \in Addr :
           /\ SetBreakpoint(addr) \/ ClearBreakpoint(addr) \/ _toggle_breakpoint(addr)
           /\ other # addr /\ _breakpoint_hit(other)
           => _breakpoint_hit(other)' \/ (SetBreakpoint(addr) /\ AllArmed)]_vars
  BY <1>1
<1> QED BY <1>2, TypeCorrect, TableInvariant, PTL DEF Spec, OthersStayArmed

-----------------------------------------------------------------------------
(***************************************************************************)
(* The table implements ArmedSet.                                          *)
(***************************************************************************)

(* Slots armed for one address are one slot. *)
LEMMA ArmedApart ==
  ASSUME TypeOK, TableInv, NEW i \in Slot, NEW j \in Slot, Armed(i), Armed(j),
         address[i] = address[j]
  PROVE  i = j
<1>1. i \in Nat /\ j \in Nat
  BY BreakpointsAssumption DEF Slot
<1>2. ~(i < j) /\ ~(j < i)
  BY DEF TableInv, SetIsFirst, Armed
<1> QED BY <1>1, <1>2

(* The slot an armed address is in. *)
SlotOf(addr) == CHOOSE i \in Slot : Armed(i) /\ address[i] = addr

LEMMA SlotOfArmed ==
  ASSUME NEW addr \in ArmedAddr
  PROVE  SlotOf(addr) \in Slot /\ Armed(SlotOf(addr)) /\ address[SlotOf(addr)] = addr
<1>1. \E i \in Slot : Armed(i) /\ address[i] = addr
  BY DEF ArmedAddr, _breakpoint_hit
<1> QED BY <1>1 DEF SlotOf

(* There is room for one more address just as long as a slot is not armed. *)
LEMMA RoomIsSlots ==
  ASSUME TypeOK, TableInv
  PROVE  Cardinality(ArmedAddr) < MON_NUMBER_OF_BREAKPOINTS <=> \E i \in Slot : ~Armed(i)
<1> DEFINE f == [addr \in ArmedAddr |-> SlotOf(addr)]
<1>1. f \in Injection(ArmedAddr, Slot)
  <2>1. f \in [ArmedAddr -> Slot]
    BY SlotOfArmed
  <2>2. \A a, b \in ArmedAddr : f[a] = f[b] => a = b
    BY SlotOfArmed
  <2> QED BY <2>1, <2>2 DEF Injection, IsInjective
<1>2. IsFiniteSet(Slot) /\ Cardinality(Slot) = MON_NUMBER_OF_BREAKPOINTS
  <2>1. /\ MON_NUMBER_OF_BREAKPOINTS - 1 \in Int
        /\ ~(0 > MON_NUMBER_OF_BREAKPOINTS - 1)
        /\ (MON_NUMBER_OF_BREAKPOINTS - 1) - 0 + 1 = MON_NUMBER_OF_BREAKPOINTS
    BY BreakpointsAssumption
  <2> QED BY <2>1, FS_Interval DEF Slot
<1>3. /\ IsFiniteSet(ArmedAddr)
      /\ Cardinality(ArmedAddr) <= MON_NUMBER_OF_BREAKPOINTS
      /\ Cardinality(ArmedAddr) = MON_NUMBER_OF_BREAKPOINTS <=> f \in Surjection(ArmedAddr, Slot)
  <2> HIDE DEF f
  <2> QED BY <1>1, <1>2, FS_Injection
<1>4. f \in Surjection(ArmedAddr, Slot) <=> \A i \in Slot : Armed(i)
  <2>1. ASSUME f \in Surjection(ArmedAddr, Slot), NEW i \in Slot
        PROVE  Armed(i)
    <3>1. PICK addr \in ArmedAddr : f[addr] = i
      BY <2>1 DEF Surjection
    <3> QED BY <3>1, SlotOfArmed
  <2>2. ASSUME \A i \in Slot : Armed(i), NEW i \in Slot
        PROVE  \E addr \in ArmedAddr : f[addr] = i
    <3>1. address[i] \in ArmedAddr
      BY <2>2 DEF ArmedAddr, _breakpoint_hit, TypeOK
    <3>2. SlotOf(address[i]) = i
      BY <2>2, <3>1, SlotOfArmed, ArmedApart
    <3> QED BY <3>1, <3>2
  <2>3. f \in [ArmedAddr -> Slot]
    BY SlotOfArmed
  <2> QED BY <2>1, <2>2, <2>3 DEF Surjection
<1>5. Cardinality(ArmedAddr) \in Nat
  BY <1>3, FS_CardinalityType
<1>6. Cardinality(ArmedAddr) < MON_NUMBER_OF_BREAKPOINTS
        <=> Cardinality(ArmedAddr) # MON_NUMBER_OF_BREAKPOINTS
  BY <1>3, <1>5, BreakpointsAssumption
<1> QED BY <1>3, <1>4, <1>6

(* ArmedSet counts as this module does. *)
LEMMA SameCount == Abstract!Cardinality(ArmedAddr) = Cardinality(ArmedAddr)
BY DEF Abstract!Cardinality, Cardinality

(* What is armed after one slot has been given addr and a new status.      *)
LEMMA ArmedAfterWrite ==
  ASSUME TypeOK, TableInv, NEW addr \in Addr, NEW slot \in Slot,
         \A i \in Slot : address'[i] = IF i = slot THEN addr ELSE address[i],
         \A i \in Slot : i # slot => status'[i] = status[i]
  PROVE  ArmedAddr' = (ArmedAddr \ (IF Armed(slot) THEN {address[slot]} ELSE {}))
                        \cup (IF Armed(slot)' THEN {addr} ELSE {})
<1>1. \A i \in Slot : i # slot => (Armed(i)' <=> Armed(i)) /\ address'[i] = address[i]
  BY DEF Armed
<1>2. address'[slot] = addr
  OBVIOUS
<1> DEFINE others == {other \in Addr : \E i \in Slot : i # slot /\ Armed(i) /\ address[i] = other}
<1>3. ArmedAddr' = others \cup (IF Armed(slot)' THEN {addr} ELSE {})
  BY <1>1, <1>2 DEF ArmedAddr, _breakpoint_hit
<1>4. others = ArmedAddr \ (IF Armed(slot) THEN {address[slot]} ELSE {})
  <2>1. CASE Armed(slot)
    <3>1. \A i \in Slot : i # slot /\ Armed(i) => address[i] # address[slot]
      BY <2>1, ArmedApart
    <3> QED BY <2>1, <3>1 DEF ArmedAddr, _breakpoint_hit
  <2>2. CASE ~Armed(slot)
    BY <2>2 DEF ArmedAddr, _breakpoint_hit
  <2> QED BY <2>1, <2>2
<1> QED BY <1>3, <1>4

(* An address is armed in the first slot that holds it or not at all. *)
LEMMA OnlyFirstIsArmed ==
  ASSUME TypeOK, TableInv, NEW addr, NEW slot \in Slot, address[slot] = addr,
         \A j \in Slot : j < slot => address[j] # addr,
         NEW i \in Slot, Armed(i), address[i] = addr
  PROVE  i = slot
<1>1. i \in Nat /\ slot \in Nat
  BY BreakpointsAssumption DEF Slot
<1>2. ~(i < slot) /\ ~(slot < i)
  BY DEF TableInv, SetIsFirst, Armed
<1> QED BY <1>1, <1>2

LEMMA ArmsAddr ==
  ASSUME TypeOK, TableInv, NEW addr \in Addr, SetBreakpoint(addr)
  PROVE  Abstract!Arm(addr)
<1>0. PICK slot \in Slot : slot = SlotFor(addr)
  BY SlotForIsSlot
<1>1. /\ slot \in Slot
      /\ \A i \in Slot : address'[i] = IF i = slot THEN addr ELSE address[i]
      /\ \A i \in Slot : i # slot => status'[i] = status[i]
      /\ status'[slot] = {bps_set, bps_enabled}
  BY <1>0, SlotForIsSlot DEF SetBreakpoint, TypeOK
<1>2. Armed(slot)'
  BY <1>1 DEF Armed
<1>3. ArmedAddr' = (ArmedAddr \ (IF Armed(slot) THEN {address[slot]} ELSE {})) \cup {addr}
  BY <1>1, <1>2, ArmedAfterWrite
<1>4. CASE ~Armed(slot)
  <2>1. Cardinality(ArmedAddr) < MON_NUMBER_OF_BREAKPOINTS
    BY <1>1, <1>4, RoomIsSlots
  <2>2. ArmedAddr' = ArmedAddr \cup {addr}
    BY <1>3, <1>4
  <2> QED BY <2>1, <2>2, SameCount DEF Abstract!Arm, Abstract!AfterArming
<1>5. CASE Armed(slot) /\ address[slot] = addr
  <2>1. addr \in ArmedAddr
    BY <1>1, <1>5 DEF ArmedAddr, _breakpoint_hit
  <2>2. ArmedAddr' = ArmedAddr \cup {addr}
    BY <1>3, <1>5, <2>1
  <2> QED BY <2>1, <2>2 DEF Abstract!Arm, Abstract!AfterArming
<1>6. CASE Armed(slot) /\ address[slot] # addr
  <2>1. Holding(addr) = {}
    BY <1>0, <1>6, SlotForIsSlot
  <2>2. AllArmed
    <3>1. slot \notin Free \cup Disabled
      BY <1>6 DEF Free, Disabled, Armed
    <3> QED BY <1>0, <2>1, <3>1, SlotForIsSlot
  <2>3. addr \notin ArmedAddr
    BY <2>1 DEF ArmedAddr, _breakpoint_hit, Holding
  <2>4. \A i \in Slot : Armed(i)
    BY <2>2 DEF AllArmed, Free, Disabled, Armed
  <2>5. ~(Cardinality(ArmedAddr) < MON_NUMBER_OF_BREAKPOINTS)
    BY <2>4, RoomIsSlots
  <2>6. address[slot] \in ArmedAddr
    BY <1>1, <1>6 DEF ArmedAddr, _breakpoint_hit, TypeOK
  <2>7. ArmedAddr' = (ArmedAddr \ {address[slot]}) \cup {addr}
    BY <1>3, <1>6
  <2> QED BY <2>3, <2>5, <2>6, <2>7, SameCount DEF Abstract!Arm, Abstract!AfterArming
<1> QED BY <1>4, <1>5, <1>6

LEMMA DisarmsAddr ==
  ASSUME TypeOK, TableInv, NEW addr \in Addr, ClearBreakpoint(addr)
  PROVE  Abstract!Disarm(addr)
<1>0. PICK slot \in Slot : slot = SlotFor(addr)
  BY SlotForIsSlot
<1>1. /\ slot \in Slot /\ address[slot] = addr
      /\ \A j \in Slot : j < slot => address[j] # addr
      /\ \A i \in Slot : address'[i] = IF i = slot THEN addr ELSE address[i]
      /\ \A i \in Slot : i # slot => status'[i] = status[i]
      /\ status'[slot] = {}
  BY <1>0, SlotForIsSlot DEF ClearBreakpoint, TypeOK
<1>2. ~Armed(slot)'
  BY <1>1 DEF Armed
<1>3. ArmedAddr' = ArmedAddr \ (IF Armed(slot) THEN {addr} ELSE {})
  BY <1>1, <1>2, ArmedAfterWrite
<1>4. ~Armed(slot) => addr \notin ArmedAddr
  BY <1>1, OnlyFirstIsArmed DEF ArmedAddr, _breakpoint_hit
<1> QED BY <1>3, <1>4 DEF Abstract!Disarm

LEMMA TogglesAddr ==
  ASSUME TypeOK, TableInv, NEW addr \in Addr, _toggle_breakpoint(addr)
  PROVE  Abstract!Toggle(addr)
<1>0. PICK slot \in Slot : slot = SlotFor(addr)
  BY SlotForIsSlot
<1>1. /\ slot \in Slot /\ address[slot] = addr
      /\ \A j \in Slot : j < slot => address[j] # addr
      /\ \A i \in Slot : address'[i] = IF i = slot THEN addr ELSE address[i]
      /\ \A i \in Slot : i # slot => status'[i] = status[i]
      /\ status'[slot] = {bps_set} \cup ({bps_enabled} \ status[slot])
  BY <1>0, SlotForIsSlot DEF _toggle_breakpoint, TypeOK
<1>2. Armed(slot)' <=> ~Armed(slot)
  BY <1>1 DEF Armed, TableInv, EnabledIsSet, bps_set, bps_enabled
<1>3. ArmedAddr' = (ArmedAddr \ (IF Armed(slot) THEN {addr} ELSE {}))
                     \cup (IF Armed(slot)' THEN {addr} ELSE {})
  BY <1>1, ArmedAfterWrite
<1>4. Armed(slot) <=> addr \in ArmedAddr
  BY <1>1, OnlyFirstIsArmed DEF ArmedAddr, _breakpoint_hit
<1>5. CASE Armed(slot)
  BY <1>2, <1>3, <1>4, <1>5 DEF Abstract!Toggle, Abstract!Disarm
<1>6. CASE ~Armed(slot)
  <2>1. Cardinality(ArmedAddr) < MON_NUMBER_OF_BREAKPOINTS
    BY <1>1, <1>6, RoomIsSlots
  <2>2. ArmedAddr' = ArmedAddr \cup {addr}
    BY <1>2, <1>3, <1>6
  <2>3. addr \notin ArmedAddr
    BY <1>4, <1>6
  <2> QED BY <2>1, <2>2, <2>3, SameCount
          DEF Abstract!Toggle, Abstract!Arm, Abstract!AfterArming
<1> QED BY <1>5, <1>6

(* The table of slots implements the bounded set of armed addresses.       *)
THEOREM TableIsArmedSet == Spec => IsArmedSet
<1>1. Init => Abstract!Init
  BY DEF Init, Abstract!Init, ArmedAddr, _breakpoint_hit, Armed
<1>2. ASSUME TypeOK, TableInv, [Next]_vars
      PROVE  [Abstract!Next]_ArmedAddr
  <2>1. ASSUME NEW addr \in Addr,
               SetBreakpoint(addr) \/ ClearBreakpoint(addr) \/ _toggle_breakpoint(addr)
        PROVE  Abstract!Next
    BY <1>2, <2>1, ArmsAddr, DisarmsAddr, TogglesAddr DEF Abstract!Next
  <2>2. CASE UNCHANGED vars
    BY <2>2 DEF vars, ArmedAddr, _breakpoint_hit, Armed
  <2> QED BY <1>2, <2>1, <2>2 DEF Next
<1>3. TypeOK /\ TableInv /\ [Next]_vars => [Abstract!Next]_ArmedAddr
  BY <1>2
<1> QED BY <1>1, <1>3, TypeCorrect, TableInvariant, PTL DEF Spec, IsArmedSet, Abstract!Spec
=============================================================================
