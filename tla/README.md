# c_vm6809 in TLA+

`c_vm6809` is a virtual machine for the Motorola 6809: one endless loop that
polls a terminal, takes an interrupt, runs the monitor and executes one
instruction. This directory holds TLA+ modules of that program, TLC
configurations that check them on small instances, and TLAPS proofs of what
holds for every instance. `PROJECT.json` ties every definition to the lines it
models and lists the runs, the mutants, the findings, the hazards and the
theorems.

    tlc -workers 2 -config loop_control.cfg MCVmLoop     # a run
    tlapm VmLoopProofs.tla                               # a proof

## The system

| Part | Source | State | Operations | Hard because |
|---|---|---|---|---|
| main loop | `main.c` | `main_perform_tio` | the four steps of a turn | the order of the steps is all the synchronisation there is |
| UART | `vmtermio.c` | `rbr thr lsr ier iir lcr` | `tio_exec` (poll); register accesses by the CPU and by the monitor | the user, the poll, the program and the monitor's `m` share five registers |
| interrupts | `vm6809.c` | `_irq`, the mask bits of `cc` | `cpu_reset`, `cpu_nmi`, `cpu_irq`, `cpu_firq`, SWI; `cpu_execirq` | seven requests, a priority, two masks; nesting |
| instructions | `vm6809.c` | `a b dp x y u s pc cc`, the error code | `cpu_execop` | flags at the edges of 8 and 16 bits, effective addresses |
| memory | `vmmemory.c` | 64K bytes | 8 and 16 bit reads and writes | the UART lies over 8 bit accesses only |
| run control | `vmmonitor.c` | `_trap`, `_sigint_received` | `mon_execmon`, `g s t i r b m bye` | ctrl-c, errors and break points meet in one register that errors overwrite |
| break points | `vmmonitor.c` | four slots, a rotating victim | `b!` `b.` `b*` and the hit test | freed slots keep their address and are found again |
| memory commands, files | `vmmonitor.c` | dump address and size, path, file, start address | `m` `m:` `m=` `m?` `m!`, `l` `l!` `l@` `l*` | a 16-bit counter against an int, failed loads, the reset vector that follows the last good one |
| help, displays | `vmmonitor.c` | - | `?`, `r`, `mv`, `l?` | - |
| guest programs | `_09` | code from `$4000` on | `echo`, `echoirq`, `hellow` | polling and interrupts against the poll of the loop |
| operating system | `os.c` | terminal mode | read, write, raw, line | a poll in line mode would block |

The parts meet through shared variables and direct calls. The CPU reaches the
UART through memory; the UART requests an interrupt by `cpu_irq`; the monitor
reads and writes everything at its prompt; the signal handler sets one flag.
There are no threads: what interleaves is the user (keys, ctrl-c, commands), the
guest program, and the loop's steps.

What makes the parts correct: the monitor stops the machine where it says (halt,
step, break point, ctrl-c, error); the terminal is in the right mode and loses
nothing that was received or printed; reset and NMI go first; the table of break
points behaves like a set of addresses; arithmetic chained through the carry is
exact and the branches mean what they say; what was stacked comes back; the
guest programs do what they are for; fills and loads change the bytes they name
and a restart runs what was loaded.

## The modules

| Module | Models | Correspondence |
|---|---|---|
| `Flags6809` | flag registers, requests, priority | a register is the set of its bits, each one its weight; `_irq`, `Deliverable`, `Serviced`, `IrqAfterService` are the tests of `cpu_execirq` in order |
| `Uart` | the terminal | variables are the fields of `uart_registers` plus what was typed (`kbd`) and shown (`shown`); `tio_exec` is one poll, `_recvc` then `_sendc` in one step |
| `SerialPort` | what a program may expect of a terminal | abstract: an inbox of one place, an outbox of one place, a screen |
| `VmLoop` | the loop with the user | `phase` says which call comes next; one action per step of the turn, per kind of instruction and per command |
| `ArmedSet` | break points as a bounded set | abstract |
| `Breakpoints` | the table of slots | `address`, `status`, `_last_breakpoint` as in `vmmonitor.c`; one action per command |
| `Alu6809` | arithmetic, logic, flags, branch conditions | one operator per C function, from operands and `cc` to a value and `cc` |
| `Memory6809` | the address space | the machine is a record; memory is a function on the addresses written so far |
| `Cpu6809` | all instructions and interrupts | `cpu_execop` and `cpu_execirq` are functions from a machine to the next |
| `WideArithmetic` | chains of ADD/ADC, SUB/SBC and, for decimals, ADD/ADC with DAA | one byte per step, the numbers put together so far as history; `slipped` says that DAA has met digits it gets wrong |
| `GuestCode` | a guest program under interrupts | `cpu_execirq` and `cpu_execop` in turn; history of the frames on the stack |
| `GuestPrograms` | `echo`, `echoirq`, `hellow` | the bytes of the listings in `_09` |
| `GuestLoop` | the whole machine: `VmLoop` with `Cpu6809` executing one of these programs | `GuestPoll`, `GuestMonitor` and the user are actions of `VmLoop`; `GuestInterrupt` and `GuestInstruction` apply `cpu_execirq` and `cpu_execop` to the machine put together from both modules' state |
| `MonitorMemory` | `m` and `l`, and the load before the first prompt | `m_address` ... `l_file` are the fields of `monitor`; the loops of `m=` and `mon_read_bin` take one step per byte, with `ii`, `last`, `nret` as in the code |
| `MC...` | instances for TLC | |
| `...Proofs` | theorems about `VmLoop`, `Breakpoints`, `WideArithmetic`, `MonitorMemory`, `Cpu6809`, `GuestCode`, `GuestLoop`; `InstructionProofs` has what holds of any instruction, and the lemmas about single ones that `GuestLoopProofs` works with | |

`Breakpoints` and `SerialPort`/`ArmedSet` fit together through refinement: the
table implements `ArmedSet`, whose actions are the ones `VmLoop` takes for `b!`,
`b.` and `b*`; `VmLoop` implements `SerialPort`. `Cpu6809` says what the
instructions compute that `VmLoop` leaves open, and `GuestLoop` puts the two
together: it implements `VmLoop` (`IsVmLoop`), so the kinds of instruction there
leave out nothing that these programs do to the loop's state. That no other
program does anything else either is proved (`InstructionsAreOfAKind`,
`AnyGuestRefinesLoop`). `MonitorMemory`
is apart from the loop: while the monitor asks, nothing else runs.

### How VmLoop abstracts

* An instruction is one of nine kinds, by what it does to the state of the loop:
  nothing but registers and RAM, read RBR, write THR, read and write the same
  (`INC $FF00`), write IER, SWI, an error, an indexed post-byte that does not
  exist, and a register number that does not exist. The last one ends in a null
  pointer; its outcome is taken to be the end of the process (`crash`). `pc`
  moves to any address after every instruction. The stack is taken to lie in
  RAM. That the nine kinds are all there are, whatever bytes lie at `pc`, is a
  theorem about `Cpu6809` (`InstructionsAreOfAKind`), with the code and the
  stacks off the UART for its only hypothesis.
* The mask bits can be loaded with any value by instructions that touch
  registers only; RTI is one of those.
* Commands that touch none of this state (`?`, `l`, displays, `r` on registers
  other than `cc`, `m` away from the UART) are left out; `m` and `l` are in
  `MonitorMemory`. `sXXXX` prepares the
  step and asks for another command, as the code does.
* What is typed ahead is gone when the prompt comes: `os_clear_input` or the
  line editor takes it.
* `resume`, `ran` and `erred` are history: the command that left the prompt,
  how many instructions ran since (up to two), whether one failed.
* Mutants (marked so) stand before the definition they vary: each is a slip that
  makes the property of the same run fail.

## The runs

| Run | Checks | Instance and why it is enough |
|---|---|---|
| `loop_control` | `TypeOK HaltGate StepsOne BreakpointStops NmiNeverWaits CtrlCReturns NmiIsTaken` | two addresses (armed or not, at it or not), all masks, all requests, one break point slot; the UART is idle. The properties speak of one instruction and the turn before it, so `ran` up to 2 tells all they need |
| `loop_terminal` | `TermMatchesUse PrintedIsTaken IsSerialPort OutputDrains` | two keys and two printed characters (a letter that changes case and CR, which becomes two characters), a typing queue of 2, a screen of 3, every IER; the user pokes at THR and IER and reads RBR |
| `breakpoints` | `TypeOK SetIsFirst EnabledIsSet CommandsTakeEffect OthersStayArmed IsArmedSet` | the real four slots and five addresses, one of them 0, the value in slots never used |
| `wide_arith` | `TypeOK WideIsExact WideOrder ByteOrder WideOverflow DecimalIsExact` | up to three bytes, binary out of 0, 1, 127, 128, 200, 255, decimal out of bytes whose digits meet every case of DAA; all flags clear or all set before |
| `guest_stack` | `TypeOK NoError PopsRestore KeepsStack` | a program with PSHS, JSR, LBSR, PULS, SWI in a loop, handlers that spoil `a`, NMI and IRQ raised anywhere, up to four frames |
| `guest_echo` | `GuestTypeOK PrintsInOrder StackBalanced EchoedOnce ErrorComesLast IsVmLoop CatchesUp InterruptsAnswered` | the three programs, the keys `a` and CR, three of them typed at any time, two waiting; ctrl-c, `g` and `bye` at any time. Three characters are one on the screen, one in RBR and one behind it |
| `monitor_memory` | `TypeOK FillIsExact LoadIsExact RestartRunsLoaded PromptReturns` | nine bytes (`BASE` = 3), the UART in the middle, files that fit, that reach the reset vector and that are missing, a name that is too long; four commands, which is a load, two that move its parameters or fail, and a restart. Fills end before the last address |
| `find_rti` `find_long` `find_order` `find_late` `find_fill` | one property each, violated | the smallest instance that shows it |

Bounds: `MaxKbd` (typed characters waiting), `MaxOut` (THR is written while the
screen shows fewer), `ran` up to 2, `MaxBytes`, `MaxFrames` (a request is raised
only below it; software interrupts of the program come on top), `MaxTyped` (keys
hit in all), `MaxCommands` (commands given in all), `BASE` (the values of a byte,
256 in the code), and the sets of characters, addresses and commands above. In
`GuestLoop` the user gives no `s` in the runs, and no command lets a program go
on that has failed (`hellow` runs into bytes that are no instruction; what
follows them depends on how the text decodes). None of the bounds stands for
anything in the code but `MON_NUMBER_OF_BREAKPOINTS`, which is 4 there. The
screen of `GuestLoop` never reaches `MaxOut`.

What the runs show of the code:

* `HaltGate`, `StepsOne`: an error overwrites the whole trap register, the step
  bit included. The machine stops all the same, because the error code survives
  the poll and the interrupt until the monitor turns it into a halt.
* `BreakpointStops`: the test is in the monitor, after the interrupt, so a
  vector that leads to an armed address stops there too; the instruction that
  leaves the prompt is not tested again, which lets the user go on.
* `NmiNeverWaits`: the exception is a request raised at the prompt. The
  instruction that follows the command runs first, because `cpu_execirq` comes
  before the monitor in a turn.
* `PrintedIsTaken`, `IsSerialPort`: THR is never overwritten although nothing
  guards it (`vmtermio.c:40` says so): there is a poll between any two
  instructions of a running program. What the user pokes from the prompt may be
  overwritten, and is set apart by its character.
* `IsArmedSet`: stale addresses, toggles of freed slots and eviction included,
  the table is a set of at most four addresses that gives one up only when full.
* `NoError`: no opcode, post-byte or register number that does not exist is met,
  in the handlers and behind every return. It does not bound the stack, and zero
  bytes would be taken for NEG without an error; what returns to the wrong place
  is `PopsRestore`'s matter.
* `PopsRestore`: holds for requests that stack everything. It fails with FIRQ
  (`find_rti`). `KeepsStack` is what the program has to do for it: pop what lies
  uppermost, leave the stack alone otherwise, keep E; the program of the run does.
* `DecimalIsExact`: DAA is wrong in two cases, a low digit of 16 made with a
  carry (H leaves the carry out) and a carry into a high digit of 9. Without
  them decimal sums are exact at any length; with them the result is too small,
  and no later byte ever makes up for it.
* `PrintsInOrder`, `CatchesUp`: `echo` may drop a character it has read when THR
  is full, but THR never is, for the poll comes between any two instructions; so
  nothing is dropped. What the keyboard gives while RBR is full is lost before it
  counts as received.
* `EchoedOnce`, `StackBalanced`, `InterruptsAnswered`: interrupts of `echoirq`
  nest, as nothing masks them, but every frame is given back and every character
  received after the first interrupt is printed once, if not in order.
* `ErrorComesLast`: the error that ends `hellow` is reported after its last
  character, because the poll stands before the monitor.
* `FillIsExact`, `LoadIsExact`, `RestartRunsLoaded`: both ends of a fill are
  written, the UART takes its bytes away from memory; a load that finds nothing
  changes neither memory nor the vector, although the file name has changed.

### Findings

1. RTI goes by the present E flag and not by the one it pulls (`find_rti`):
   with an IRQ in the handler of a FIRQ, which is the trace TLC gives, the IRQ
   leaves E set and the RTI of the FIRQ pulls twelve bytes where three were
   stacked; with a FIRQ in the handler of an IRQ, E is clear and the RTI of the
   IRQ pulls three of twelve.
2. LBcc is decoded with an offset of one byte (`find_long`).
3. An IRQ does not mask the next one: `echoirq` prints two characters in the
   wrong order when the second interrupts the handler of the first
   (`find_order`).
4. A character that is in RBR before IER is written is never announced, and
   blocks all later ones (`find_late`).
5. `m=FFFF` never ends: its 16-bit counter cannot pass the bound (`find_fill`).

Others were met that no run is about: `_errorexit` ends trace mode
(`vm6809.c:402`), which the help says only `t.` does (`vmmonitor.c:688`); looking
at RBR with `m` takes the character from the program; IIR never loses a cause;
BSR is decoded as immediate (`vm6809.c:963`), an indexed offset of 16 bits skips
one byte (`vm6809.c:871`), ABX adds A, SEX extends A, shifts and MUL store no
flags, rotations bring C in at the wrong end, `i!s` of the help does not exist; a
word written by `m:FFFF` goes past the array; `l*` after a load of a missing file
asks for that file again; a path and name that are too long end the process;
the end of standard input makes the prompt repeat for ever. The modules have
those they reach as the code does.

## Fairness

`FairSpec` of `VmLoop` has weak fairness on `PollTerminal`, `AnyInterrupt`,
`mon_execmon` and `AnyInstruction`, the four calls of the endless loop, which goes on
as long as the process does. `FairGuestSpec` says the same of `GuestLoop`: the
loop does not stay in front of the call that is due. Nothing is assumed of the
user: no key, no ctrl-c and no command ever has to come, and at the prompt the
loop may wait for ever, which is why the liveness properties end with "or the
user is asked". Nor is a fair choice of instructions assumed in `VmLoop`: the
program may make a software interrupt in every turn. `CatchesUp` speaks of the
screen after the last key, which is why typing is bounded. `FairSpec` of
`MonitorMemory` has weak fairness on `Loop`, the steps of the two loops in C; a
fill that wraps around is fair and endless (`find_fill`).

`CHECK_DEADLOCK FALSE` stands only in `wide_arith`, whose computation ends at
`MaxBytes`. The end of the process is a step of its own (`Ended`, `HasEnded`).

## The proofs

The theorems assume nothing but the named assumptions on the constants
(`LoopAssumption`, `UartAssumption`, `BreakpointsAssumption`, `WideAssumption`,
`MonitorMemoryAssumption`, `GuestAssumption`, `GuestLoopAssumption`,
`RoomAssumption`); those on `Cpu6809` have no constants and no assumptions.
`RoomAssumption` is about the bounds of the model, but for one conjunct: the kinds
of instruction of `VmLoop` and its characters include those of the programs,
`MaxOut` does not stop a program that prints what it got, and there are no more
characters than the stack of `echoirq` has room for frames (`FrameSize * MaxTyped
<= $2000`, 682 characters). The last is a limit of the program: each character
that waits takes a frame, and nothing stops the stack from growing down through
address 0 into the UART and the program.

* **VmLoop.** The safety properties speak of the moment before an instruction;
  they are not inductive, for what makes them true is spread over the turn.
  `LoopInv` adds: before the first prompt the machine is halted
  (`BeforeFirstPrompt`); from then on the loop is in raw mode
  (`RawWhileRunning`); after `s` the step bit is there or the error that
  overwrote it is (`StepDue`); an error is on record until the monitor has seen
  it (`ErrorDue`, `FaultSeen`). `LoopInvStep` goes through the actions. Two
  lemmas on `IrqAfterService` carry `NmiNeverWaits`: no request is invented, and
  after service neither reset nor NMI is left.
* **The terminal.** `TerminalIsSerialPort` maps RBR and THR with their LSR bits
  to the two places of `SerialPort` and shows each step to be one of the port's
  or none; it needs `PrintedIsTaken` where the program writes THR.
* **Break points.** `SetIsFirst` and `EnabledIsSet` are inductive together for
  any number of slots; `CommandsTakeEffect` and `OthersStayArmed` follow.
  `TableIsArmedSet` is the refinement: an armed address has one slot
  (`ArmedApart`), so there is room in the set exactly if a slot is not armed
  (`RoomIsSlots`, by counting through the bijection between the two), and each
  command is then the one of `ArmedSet` or changes nothing there.
* **Wide arithmetic.** `WideInv` says that the bytes and the last carry make the
  sum, and that N, V and Z of the last byte are those of the whole numbers. From
  it come the order of numbers of any length by the branches after SUB and SBC,
  and all branches after one byte. For decimals `Daa` computes the two digits and
  the carry that come out of a byte, with and without the slips; `DecimalStep`
  adds the byte at its weight. No byte comes out too large, so what one falls
  short of is never made up for by another.
* **Memory commands.** `FillInv` says which bytes a running fill has written,
  `LoadInv` which a running load has; `ImageInv` ties memory and the reset vector
  to the last file that was read, outside the bytes that were changed since. The
  fill is proved for a last address below FFFF only (`FillInv`'s condition): the
  other never ends, so that `FillIsExact` holds of it without a step to show.
* **The CPU.** `IsMachine` says that every register, byte of memory and request is
  in range. `InstructionsKeepMachine` and `InterruptsKeepMachine` go through the
  three pages of opcodes and the seven requests, one lemma for each C function;
  nothing is assumed of the program, so the unknown opcodes, the bad post-bytes
  and the null pointer of EXG are among the cases. `PullsUndoPushes` is about
  `_pushregs` and `_pullregs` with any operand: as long as the frame lies between
  address 0 and the UART, what was pushed comes back, `s` is where it was and no
  register that the operand does not name has changed (`PushReads` says what a
  push leaves below the old stack, `PullReads` what a pull needs of it).
  `InterruptReturns` and `CallReturns` follow, for RTI with the E flag of its
  own frame and for RTS.
* **Any instruction.** `InstructionProofs` goes through the pages once more for
  what an instruction does to the state outside the CPU: the UART's registers, the
  requests, the mask bits, the trap register and the error code.
  `InstructionsAreOfAKind`: it is one of the nine kinds of `VmLoop`.
  `OnlyInstructionsSucceed`: it fails exactly if `IsInstruction` is false, that is, if
  the opcode, the indexed post-byte or the register number does not exist.
  `InterruptsTakeRequests` says the same of `cpu_execirq`. All three need `OffUart`:
  the bytes at `pc` and a frame on either side of `s` and `u` are not UART
  registers, for a fetch that takes a character and a push that prints one are no
  kind of `VmLoop`. `SparingInstructionsLeaveStack` is the other half, about
  the inside: an instruction that neither names `s` nor writes above it
  (`SparesStack`, decided by the bytes and the effective address alone) leaves `s`,
  the bytes from there to the UART and a set E as they are. `ResultKept` and
  `WideKept` are why: no arithmetic touches E, F or I.
* **A program under interrupts.** `GuestTypes` carries this to `GuestCode`, whose
  frames are history. `PopsRestoreHolds` is for every program that satisfies
  `KeepsStack`, without which no CPU could keep the promise; it says nothing of
  what the program computes, nor of how deep calls and interrupts nest. The
  inductive invariant `StackInv` puts a machine behind each frame (`Stacks`): the
  stack that its push left is the one that the machine of the next frame had, or
  the present one (`Linked`), and E is set above an interrupt. A push appends a
  machine (`LinkedPushes`), a pop gives the last one back (`LinkedPops`, with
  `InterruptPops`, `CallPops` and `PushPops` for what comes back), everything else
  leaves the chain as it is. FIRQ is left out because it breaks
  the chain: it stacks two registers only and clears E, while an interrupt
  nested with it sets E, and the RTI of the outer one goes by the E of the inner.
  `KeepsStack` speaks of steps; `StackCode` says the same of the state: the code
  at `pc` is a call, PSHS, PULS or return in order, or it spares the stack, and a
  request that is due finds room. `KeepsStackHolds` proves that such a program
  keeps its stack, and with it `StackCodeRestores` gives `PopsRestore`.
  `NoErrorHolds`: a program that has an instruction wherever it goes (`IsCode`)
  never fails, in no interrupt either. `StackCode` and `IsCode` are properties of
  the program in memory, which no theorem about the CPU can give; TLC finds both
  to be invariants of the instance of `guest_stack` (as it does in a module that
  extends `MCGuestCode` and `GuestCodeProofs`).
* **The branches.** `BranchesLand` is the general form of finding 2: each short
  branch and LBRA goes on behind itself or at its target as its condition says,
  and changes nothing but `pc`; a conditional long branch goes on elsewhere,
  taken or not, with one exception (taken, with the offset -2).
* **The whole machine.** `InstructionProofs` says for each instruction of the three
  programs what it makes of a machine whose memory holds its bytes at `pc`: the new
  `pc`, the registers and flags that change, and that nothing else does.
  `GuestLoopProofs` puts the images under them (`EchoBytes`, `HellowBytes`,
  `EchoIrqBytes`: the listing, byte by byte) and gets one lemma per program that
  describes a turn at every address. The inductive invariant is `GuestInv`:
  - `Steady`, of every program: `pc` stays in its lines, the mask bits stay clear,
    THR is full only in front of a poll, and what was received is no more than
    what was typed (CR counting twice).
  - `EchoInv` and `HellowInv`: a character is in RBR, then in `b`, then in THR,
    then on the screen, and the tests in front of LDB and STB let it pass at the
    right time; the greeting is the screen and what Y points at. With
    `Undisturbed`: these programs never write memory or IER.
  - `EchoIrqInv`: the stack is made of levels of `FrameSize` bytes. `Wired` says
    where the vector leads and when a request can be pending, `Nesting` how deep the
    stack is and that each level holds a frame whose `pc` is in the main loop (the lowest) or in
    a handler (the others) and whose E flag is set, so that RTI finds all of it,
    and `Balance` counts: of each set of characters, what was received is what was
    printed and what is in RBR and in the `b` of the handlers that have read and
    not yet written. A count over the levels is needed because the handlers
    finish in another order than they start.

  `GuestStep` has one case per action. The invariant gives `PrintsInOrder`,
  `StackBalanced`, `EchoedOnce` and `ErrorComesLast`.
* **The machine implements the loop.** `GuestRefinesLoop`: the initial states are
  `Init` of `VmLoop`, and each step is one of its steps. `Kinds` finds the kind
  of instruction in `VmLoop` for each turn of a program, `MachineStep` the step
  for the other actions. With it the theorems about `VmLoop` hold of the machine
  that runs the three programs.
* **Any program on the machine.** `AnySpec` is `GuestLoop` with any registers and
  any memory at the start, and with a user who at the prompt may also write to
  both as the commands do that `VmLoop` leaves out (`AtMonitor`).
  `AnyGuestRefinesLoop`: it implements `VmLoop`, and `AnyGuestKeepsLoop` draws the
  conclusion for its safety properties and for `SerialPort`. The hypotheses are
  `Instr = InstrKind` (all nine kinds are allowed) and `StaysWithin`: `pc`, the
  mask bits and IER have values in the sets that `VmLoop` is given for them, what
  is printed is a character that it knows and finds room on the screen, and
  `OffUart` holds where the CPU is about to run. All but the last only keep the
  program to the instance, and are no restriction if the sets are full. TLC
  finds `StaysWithin` true of the three programs in `guest_echo`. The proof
  is `InstructionsAreOfAKind` and `InterruptsTakeRequests`, kind by kind.

Only model-checked: the liveness properties `CtrlCReturns`, `NmiIsTaken`,
`OutputDrains`, `PromptReturns`, `CatchesUp` and `InterruptsAnswered` (fairness is
out of the prover's reach). Every other property of a passing run is stated by a
theorem; those of `GuestCode`, under the hypotheses on the program that are named
above. The findings are counterexamples and have no proof, but for the
second (`BranchesLand`).

## Not modelled

The help, the directory and the register and vector displays, debug output and
`os_sprintf`'s formatting, which change no state; `r` on registers other than
`cc`, whose values nothing but the program looks at; the end of standard input;
the Windows and macOS branches of `os.c`; the stand-alone experiments `conio.c`,
`raw.c` and `mygetch.c`, which the makefile does not build.

What shifts, logic, 16-bit arithmetic, EXG/TFR and most indexed modes compute is
defined in `Cpu6809` and `Alu6809` but stands under no property (what they leave
alone is proved): there is nothing in the repository to compare them with but the data sheet of the
processor, and no program there executes them. Why a hazard has no property is
said with it in `PROJECT.json`.
