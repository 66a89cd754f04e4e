---------------------------- MODULE MCGuestCode ----------------------------
(***************************************************************************)
(* The program of the runs: a loop that saves its registers, calls a       *)
(* subroutine in two ways, restores them and makes a software interrupt,   *)
(* and handlers that spoil the registers.                                  *)
(***************************************************************************)
EXTENDS GuestCode

(* Bytes at an address. *)
At(addr, bytes) == [a \in addr..(addr + Len(bytes) - 1) |-> bytes[a - addr + 1]]

Sub    == At(\h4020, <<\h81, 0, \h27, 1, \h53, \h39>>)  \* CMPA #0, BEQ *+3, COMB, RTS
Handler == At(\h5000, <<\h43, \h3b>>)                   \* COMA, RTI
Fast   == At(\h6000, <<\h12, \h3b>>)                    \* NOP, RTI
Vectors == At(\hfff6, <<\h60, 0, \h50, 0, \h50, 0, \h50, 0>>)
Code == Sub @@ Handler @@ Fast @@ Vectors

\* PSHS CC,A,B,DP,X,Y,U; EORA #$FF; JSR Sub; LBSR Sub; PULS; SWI; BRA
Main == At(\h4000, <<\h34, \h7f, \h88, \hff, \hbd, \h40, \h20, \h17, 0, \h16,
                     \h35, \h7f, \h3f, \h20, \hf1>>)
\* CMPA #0; LBNE *+260; BRA
Long == At(\h4000, <<\h81, 0, \h10, \h26, 1, 0, \h20, \hf8>>)

Machine(program, acc, codes) ==
  [a |-> acc, b |-> 2, dp |-> 3, x |-> \h1234, y |-> \h5678, u |-> \h9abc,
   s |-> \h2000, pc |-> \h4000, cc |-> codes, irq |-> {}, trap |-> {}, ok |-> TRUE,
   crashed |-> FALSE, mem |-> program @@ Code, rbr |-> 0, thr |-> 0, lcr |-> 0,
   lsr |-> {xxr_thr_empty}, ier |-> {}, iir |-> {}]

MainStart == {Machine(Main, acc, codes) : acc \in {0, 255}, codes \in {{}, {cc_c}}}
FastStart == {Machine(Main, 0, {})}
LongStart == {Machine(Long, acc, {}) : acc \in {0, 1}}

Slow == {irq_nmi, irq_irq}
Mixed == {irq_irq, irq_firq}
None == {}
=============================================================================
