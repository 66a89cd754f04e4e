--------------------------- MODULE GuestPrograms ---------------------------
(***************************************************************************)
(* The guest programs that come with the virtual machine (the listings in  *)
(* _09), as the loader leaves them in memory: bytes from the start address *)
(* on.  The text that hellow prints is shorter here; the code around it is *)
(* the assembled one.                                                      *)
(***************************************************************************)
EXTENDS Integers, Sequences

VM6809_DEFAULT_START == \h4000

Image(bytes) ==
  [addr \in VM6809_DEFAULT_START..(VM6809_DEFAULT_START + Len(bytes) - 1) |->
     bytes[addr - VM6809_DEFAULT_START + 1]]

Greeting == <<72, 69, 108, 33>>  \* a few of the letters of "Hello, World!"

(* getdata: LDA LSR, ANDA #RBR_FULL, BEQ getdata, LDB RBR, LDA LSR,        *)
(* ANDA #THR_EMPTY, BEQ getdata, STB THR, JMP getdata                      *)
echo == Image(
  <<\h10, \hce, \h20, 0,
    \hb6, \hff, 1, \h84, \h80, \h27, \hf9, \hf6, \hff, 0,
    \hb6, \hff, 1, \h84, \h40, \h27, \hef, \hf7, \hff, 0,
    \h7e, \h40, 4>>)

(* LDS, set the IRQ vector, enable the interrupt, getdata: three NOP and a *)
(* JMP; irqhandler: test IIR, LDB RBR, test LSR, STB THR, irdone: RTI      *)
echoirq == Image(
  <<\h10, \hce, \h20, 0, \hcc, \h40, \h15, \hfd, \hff, \hf8,
    \h86, \h80, \hb7, \hff, 2,
    \h12, \h12, \h12, \h7e, \h40, \h0f,
    \hb6, \hff, 3, \h84, \h80, \h27, \h0d, \hf6, \hff, 0,
    \hb6, \hff, 1, \h84, \h40, \h27, 3, \hf7, \hff, 0,
    \h3b>>)

(* LEAY hello,PCR; more: LDA ,Y+, BEQ finish, STA THR, JMP more; finish:   *)
(* two NOP; loop: the bytes 1, 0, 0 (no instruction), JMP loop; hello      *)
hellow == Image(
  <<\h31, \h8c, \h12,
    \ha6, \ha0, \h27, 6, \hb7, \hff, 0, \h7e, \h40, 3,
    \h12, \h12, 1, 0, 0, \h7e, \h40, \h0f>> \o Greeting \o <<0>>)

ProgramName == {"echo", "echoirq", "hellow"}
Loaded == [echo |-> echo, echoirq |-> echoirq, hellow |-> hellow]

(* Where the instructions of each program begin; hellow fails at 400f and   *)
(* stays at 4011, as the opcode that is none has an operand.               *)
Line == [echo |-> {\h4000, \h4004, \h4007, \h4009, \h400b, \h400e, \h4011, \h4013,
                   \h4015, \h4018},
         echoirq |-> {\h4000, \h4004, \h4007, \h400a, \h400c, \h400f, \h4010, \h4011,
                      \h4012, \h4015, \h4018, \h401a, \h401c, \h401f, \h4022, \h4024,
                      \h4026, \h4029},
         hellow |-> {\h4000, \h4003, \h4005, \h4007, \h400a, \h400d, \h400e, \h400f,
                     \h4011}]
=============================================================================
