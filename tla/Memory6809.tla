----------------------------- MODULE Memory6809 -----------------------------
(***************************************************************************)
(* The address space as the CPU sees it (vmmemory.c): 64K of memory, and   *)
(* five registers of the UART laid over it for accesses of 8 bits.         *)
(*                                                                         *)
(* Operators take the machine m, a record with the field mem, a function   *)
(* on the addresses written so far (all others hold 0), and the registers  *)
(* of the UART: the numbers rbr, thr and lcr, the sets lsr, ier and iir.   *)
(***************************************************************************)
EXTENDS Alu6809

TIO_BASE_ADDRESS == 65280
TIO_ADDR_RBR_THR == TIO_BASE_ADDRESS
TIO_ADDR_LSR     == TIO_BASE_ADDRESS + 1
TIO_ADDR_IER     == TIO_BASE_ADDRESS + 2
TIO_ADDR_IIR     == TIO_BASE_ADDRESS + 3
TIO_ADDR_LCR     == TIO_BASE_ADDRESS + 4

(* Bytes at addresses, the one past the end of the array included. *)
IsMemory(mem) ==
  /\ DOMAIN mem \subseteq 0..(UINT16_MAX + 1)
  /\ \A addr \in DOMAIN mem : mem[addr] \in Byte

Cell(m, addr)        == IF addr \in DOMAIN m.mem THEN m.mem[addr] ELSE 0
Written(mem, addr, data) ==
  [cell \in DOMAIN mem \cup {addr} |-> IF cell = addr THEN data ELSE mem[cell]]
Store(m, addr, data) == [m EXCEPT !.mem = Written(@, addr, data)]

(* Reading is in two parts: the value, and the machine after it. *)
mem_rd8(m, addr) ==
  CASE addr = TIO_ADDR_RBR_THR -> m.rbr
    [] addr = TIO_ADDR_LSR -> ByteOf(m.lsr)
    [] addr = TIO_ADDR_IER -> ByteOf(m.ier)
    [] addr = TIO_ADDR_IIR -> ByteOf(m.iir)
    [] addr = TIO_ADDR_LCR -> m.lcr
    [] OTHER -> Cell(m, addr)

AfterRd8(m, addr) ==
  IF addr = TIO_ADDR_RBR_THR THEN [m EXCEPT !.lsr = tio_read_rbr(@)] ELSE m

(* LCR is written to the UART and, for want of a break, to memory as well. *)
mem_wr8(m, addr, data) ==
  CASE addr = TIO_ADDR_RBR_THR -> [m EXCEPT !.thr = data, !.lsr = tio_write_thr(@)]
    [] addr \in {TIO_ADDR_LSR, TIO_ADDR_IIR} -> m
    [] addr = TIO_ADDR_IER -> [m EXCEPT !.ier = Bits(data)]
    [] addr = TIO_ADDR_LCR -> [Store(m, addr, data) EXCEPT !.lcr = data]
    [] OTHER -> Store(m, addr, data)

(* 16-bit accesses go to memory wherever they are, also to the one byte    *)
(* past its end when addr is 65535 (here a cell like the others; no run    *)
(* gets there).                                                            *)
mem_rd16(m, addr)       == 256 * Cell(m, addr) + Cell(m, addr + 1)
mem_wr16(m, addr, data) == Store(Store(m, addr, data \div 256), addr + 1, data % 256)
=============================================================================
