--------------------------- MODULE MonitorMemory ---------------------------
(***************************************************************************)
(* The monitor's commands on memory and files (m and l), and what main     *)
(* loads before the first prompt.  The fill command and the reading of a   *)
(* file are loops in the code and take one step per byte here, so that     *)
(* their counters can run off.  A byte is a number below BASE, an address  *)
(* or word one below BASE * BASE.                                          *)
(*                                                                         *)
(* Device has the UART's addresses but LCR, whose byte reaches memory as   *)
(* well.  What reading the data register of the UART with m does to the    *)
(* character in it is in VmLoop (Inspect).                                 *)
(***************************************************************************)
EXTENDS Integers, Sequences

CONSTANTS
  BASE,     \* 256: values of a byte
  Device,   \* addresses at which accesses of 8 bits reach the UART
  Path,     \* directories
  Name,     \* file names, VM6809_DEFAULT_FILE among them
  Disk,     \* the bytes of each file; none if it cannot be opened
  TooLong,  \* the path and name pairs that do not fit into l_file
  VM6809_DEFAULT_PATH,
  VM6809_DEFAULT_FILE,
  VM6809_DEFAULT_START,
  Typed,    \* the numbers the user types, be it for an address or a value
  FillTo,   \* the last addresses the user gives to m=
  MaxCommands  \* bound: commands given in all

MEMORY_SIZE == BASE * BASE
Byte == 0..(BASE - 1)
Word == 0..(MEMORY_SIZE - 1)

ASSUME MonitorMemoryAssumption ==
  /\ BASE \in Nat /\ BASE >= 2
  /\ Device \subseteq 0..(MEMORY_SIZE - 3)
  /\ VM6809_DEFAULT_PATH \in Path /\ VM6809_DEFAULT_FILE \in Name
  /\ Disk \in [Path \X Name -> Seq(Byte)]
  /\ TooLong \subseteq (Path \X Name) \ {<<VM6809_DEFAULT_PATH, VM6809_DEFAULT_FILE>>}
  /\ VM6809_DEFAULT_START \in Word
  /\ Typed \subseteq Int /\ FillTo \subseteq Int
  /\ MaxCommands \in Nat

VARIABLES
  memory,
  device,     \* what was written last to each address of the UART
  pc,         \* cpu_regs.pc
  m_address, m_chunk, l_start, l_path, l_file,  \* the fields of monitor
  job,        \* the loop that runs: "fill", "load", "none" (the prompt waits) or
              \* "exit"
  ii, last, byte,  \* of the fill: its counter, addr and the value
  nret,       \* of the load: bytes read
  started,    \* main has passed its first cpu_execirq
  before,     \* history: memory when the loop began
  image,      \* history: start and file of the last load that found a byte
  dirty,      \* history: addresses changed since
  commands    \* the number of commands given

fields  == <<m_address, m_chunk, l_start, l_path, l_file>>
fillVars == <<ii, last, byte>>
history == <<before, image, dirty, commands>>
vars == <<memory, device, pc, fields, job, fillVars, nret, started, history>>

NoImage == <<>>

TypeOK ==
  /\ memory \in [Word -> Byte]
  /\ device \in [Device -> Byte]
  /\ {pc, m_address, m_chunk, l_start, ii} \subseteq Word
  /\ l_path \in Path
  /\ l_file \in Path \X Name
  /\ job \in {"none", "fill", "load", "exit"}
  /\ last \in Int
  /\ byte \in Byte
  /\ nret \in Nat
  /\ started \in BOOLEAN
  /\ before \in [Word -> Byte]
  /\ image = NoImage \/ image \in Word \X (Path \X Name)
  /\ dirty \subseteq Word
  /\ commands \in 0..MaxCommands

-----------------------------------------------------------------------------
(***************************************************************************)
(* Memory.  The word at the last address would take a byte from behind the *)
(* array; nothing here depends on it.                                      *)
(***************************************************************************)
ResetVector == MEMORY_SIZE - 2
VectorBytes == {ResetVector, ResetVector + 1}

mem_rd16(addr) == BASE * memory[addr] + memory[addr + 1]

mem_wr8(addr, data) ==
  IF addr \in Device
  THEN device' = [device EXCEPT ![addr] = data] /\ UNCHANGED <<memory, dirty>>
  ELSE /\ memory' = [memory EXCEPT ![addr] = data]
       /\ dirty' = dirty \cup {addr}
       /\ UNCHANGED device

WithWord(mem, addr, data) ==
  [a \in Word |-> IF a = addr THEN data \div BASE
                  ELSE IF a = addr + 1 THEN data % BASE ELSE mem[a]]

mem_wr16(addr, data) ==
  /\ memory' = WithWord(memory, addr, data)
  /\ dirty' = dirty \cup ({addr, addr + 1} \cap Word)
  /\ UNCHANGED device

-----------------------------------------------------------------------------
(***************************************************************************)
(* Reading a file.                                                         *)
(***************************************************************************)
(* A command is given, at the prompt. *)
Prompt ==
  /\ job = "none"
  /\ commands < MaxCommands
  /\ commands' = commands + 1
  /\ UNCHANGED <<image, started>>

Bytes == Disk[l_file]
MoreToRead == nret < Len(Bytes) /\ l_start + nret < MEMORY_SIZE

StartsToRead ==
  /\ Prompt
  /\ job' = "load"
  /\ nret' = 0
  /\ before' = memory

(* Mutant: the address is not moved on. *)
ReadInPlace ==
  /\ job = "load" /\ MoreToRead
  /\ memory' = [memory EXCEPT ![l_start] = Bytes[nret + 1]]
  /\ nret' = nret + 1
  /\ dirty' = dirty \cup {l_start}
  /\ UNCHANGED <<device, pc, fields, job, fillVars, started, before, image, commands>>

mon_read_bin ==
  /\ job = "load" /\ MoreToRead
  /\ memory' = [memory EXCEPT ![l_start + nret] = Bytes[nret + 1]]
  /\ nret' = nret + 1
  /\ dirty' = dirty \cup {l_start + nret}
  /\ UNCHANGED <<device, pc, fields, job, fillVars, started, before, image, commands>>

(* Mutant: the reset vector is set whatever was read. *)
ReadSetsVector ==
  /\ job = "load" /\ ~MoreToRead
  /\ job' = "none" /\ nret' = 0
  /\ memory' = WithWord(memory, ResetVector, l_start)
  /\ IF nret > 0
     THEN image' = <<l_start, l_file>> /\ dirty' = {}
     ELSE UNCHANGED <<image, dirty>>
  /\ started' = TRUE
  /\ pc' = IF started THEN pc ELSE BASE * memory'[ResetVector] + memory'[ResetVector + 1]
  /\ UNCHANGED <<device, fields, fillVars, before, commands>>

(* The end of mon_read: the reset vector follows the program if there was  *)
(* one.  At the start of the program the reset comes next.                 *)
mon_read ==
  /\ job = "load" /\ ~MoreToRead
  /\ job' = "none" /\ nret' = 0
  /\ IF nret > 0
     THEN /\ memory' = WithWord(memory, ResetVector, l_start)
          /\ image' = <<l_start, l_file>>
          /\ dirty' = {}
     ELSE UNCHANGED <<memory, image, dirty>>
  /\ started' = TRUE
  /\ pc' = IF started THEN pc ELSE BASE * memory'[ResetVector] + memory'[ResetVector + 1]
  /\ UNCHANGED <<device, fields, fillVars, before, commands>>

Init ==
  /\ memory = [addr \in Word |-> 0]
  /\ device = [addr \in Device |-> 0]
  /\ pc = 0
  /\ m_address = 0
  /\ m_chunk = 64 % MEMORY_SIZE
  /\ l_start = VM6809_DEFAULT_START
  /\ l_path = VM6809_DEFAULT_PATH
  /\ l_file = <<VM6809_DEFAULT_PATH, VM6809_DEFAULT_FILE>>
  /\ job = "load" /\ nret = 0
  /\ ii = 0 /\ last = 0 /\ byte = 0
  /\ started = FALSE
  /\ before = memory
  /\ image = NoImage
  /\ dirty = {}
  /\ commands = 0

-----------------------------------------------------------------------------
(***************************************************************************)
(* Commands.  After the '?' the user types a number or hits Enter.         *)
(***************************************************************************)
NoLoop == UNCHANGED <<job, fillVars, nret, before>>

AskByte(addr) ==
  \/ UNCHANGED <<memory, device, dirty>>
  \/ \E val \in Typed : mem_wr8(addr, val % BASE)

AskWord(addr) ==
  \/ UNCHANGED <<memory, device, dirty>>
  \/ \E val \in Typed : mem_wr16(addr, val % MEMORY_SIZE)

(* Where m, m:, m? begin: where the last one ended, at pc (@) or at the    *)
(* number typed.                                                           *)
Begin == {m_address, pc} \cup {val % MEMORY_SIZE : val \in Typed}

(* Mutant: the address does not wrap. *)
MovesPastEnd(addr) ==
  /\ m_address' = addr
  /\ UNCHANGED <<pc, m_chunk, l_start, l_path, l_file>>

MovesTo(addr) ==
  /\ m_address' = addr % MEMORY_SIZE
  /\ UNCHANGED <<pc, m_chunk, l_start, l_path, l_file>>

ShowByte(addr) == Prompt /\ NoLoop /\ AskByte(addr) /\ MovesTo(addr + 1)
ShowWord(addr) == Prompt /\ NoLoop /\ AskWord(addr) /\ MovesTo(addr + 2)
mon_printmem(addr) ==
  Prompt /\ NoLoop /\ MovesTo(addr + m_chunk) /\ UNCHANGED <<memory, device, dirty>>

SetChunk(val) ==
  /\ Prompt /\ NoLoop
  /\ m_chunk' = val % MEMORY_SIZE
  /\ UNCHANGED <<memory, device, dirty, pc, m_address, l_start, l_path, l_file>>

(* m=XXXX and a value. *)
Fill(addr, val) ==
  /\ Prompt
  /\ job' = "fill"
  /\ ii' = m_address /\ last' = addr /\ byte' = val % BASE
  /\ before' = memory
  /\ UNCHANGED <<memory, device, dirty, pc, fields, nret>>

(* Mutant: the last address is left out. *)
FillsBelow == ii < last

Fills == ii <= last

(* Mutant: a counter of 8 bits. *)
FillNarrow ==
  /\ job = "fill" /\ Fills
  /\ mem_wr8(ii, byte)
  /\ ii' = (ii + 1) % BASE
  /\ UNCHANGED <<pc, fields, job, last, byte, nret, started, before, image, commands>>

FillByte ==
  /\ job = "fill" /\ Fills
  /\ mem_wr8(ii, byte)
  /\ ii' = (ii + 1) % MEMORY_SIZE
  /\ UNCHANGED <<pc, fields, job, last, byte, nret, started, before, image, commands>>

FillEnd ==
  /\ job = "fill" /\ ~Fills
  /\ job' = "none"
  /\ ii' = 0 /\ last' = 0 /\ byte' = 0
  /\ UNCHANGED <<memory, device, dirty, pc, fields, nret, started, before, image, commands>>

(* l!, l!* *)
mon_getpath(path) ==
  /\ Prompt /\ NoLoop
  /\ l_path' = path
  /\ UNCHANGED <<memory, device, dirty, pc, m_address, m_chunk, l_start, l_file>>

(* l@ *)
SetStart(val) ==
  /\ Prompt /\ NoLoop
  /\ l_start' = val % MEMORY_SIZE
  /\ UNCHANGED <<memory, device, dirty, pc, m_address, m_chunk, l_path, l_file>>

(* lNAME.  A name too long for the buffer ends the process (os_sprintf).   *)
mon_setfile(name) == <<l_path, name>> \notin TooLong /\ l_file' = <<l_path, name>>

Load(name) ==
  /\ mon_setfile(name)
  /\ StartsToRead
  /\ UNCHANGED <<memory, device, dirty, pc, m_address, m_chunk, l_start, l_path,
                 fillVars>>

os_sprintf_fails(name) ==
  /\ Prompt
  /\ <<l_path, name>> \in TooLong
  /\ job' = "exit"
  /\ UNCHANGED <<memory, device, dirty, pc, fields, fillVars, nret, before>>

(* l* *)
Reload ==
  /\ StartsToRead
  /\ UNCHANGED <<memory, device, dirty, pc, fields, fillVars>>

(* i!r and g: the reset that the loop takes next. *)
Restart ==
  /\ Prompt /\ NoLoop
  /\ pc' = mem_rd16(ResetVector)
  /\ UNCHANGED <<memory, device, dirty, fields>>

Bye ==
  /\ job = "none"
  /\ job' = "exit"
  /\ UNCHANGED <<memory, device, pc, fields, fillVars, nret, started, history>>

Ended == job = "exit" /\ UNCHANGED vars

Loop == mon_read_bin \/ mon_read \/ FillByte \/ FillEnd
Next ==
  \/ Loop
  \/ \E addr \in Begin : ShowByte(addr) \/ ShowWord(addr) \/ mon_printmem(addr)
  \/ \E val \in Typed : SetChunk(val) \/ SetStart(val)
  \/ \E addr \in FillTo, val \in Typed : Fill(addr, val)
  \/ \E path \in Path : mon_getpath(path)
  \/ \E name \in Name : Load(name) \/ os_sprintf_fails(name)
  \/ Reload \/ Restart \/ Bye \/ Ended

Spec == Init /\ [][Next]_vars
FairSpec == Spec /\ WF_vars(Loop)

-----------------------------------------------------------------------------
(* A fill that ends has written the addresses from the current one to the  *)
(* last one, both included, and changed no other byte of memory.           *)
FillIsExact ==
  [][job = "fill" /\ job' = "none" =>
       memory' = [addr \in Word |->
                    IF addr \in m_address..last \ Device THEN byte ELSE before[addr]]]_vars

(* A load puts the file at the start address as far as memory goes, then   *)
(* the reset vector over it, and changes nothing else; one that finds no   *)
(* file or an empty one changes nothing at all.                            *)
Placed(mem, start, file) ==
  \A k \in 1..Len(Disk[file]) :
    LET addr == start + k - 1
    IN  addr \in Word \ VectorBytes => mem[addr] = Disk[file][k]
Elsewhere(start, file) ==
  Word \ (VectorBytes \cup (start..(start + Len(Disk[file]) - 1)))

LoadIsExact ==
  [][job = "load" /\ job' = "none" =>
       IF Bytes = <<>> THEN memory' = before
       ELSE /\ Placed(memory', l_start, l_file)
            /\ \A addr \in Elsewhere(l_start, l_file) : memory'[addr] = before[addr]]_vars

(* A restart runs the program that was loaded last, wherever the user has  *)
(* moved the start address, the path and the file name since, and however  *)
(* many loads have failed: unless somebody changed the vector it begins    *)
(* at the first byte, and every byte nobody changed is the one of the file.*)
RestartRunsLoaded ==
  [][Restart /\ image # NoImage =>
       /\ VectorBytes \cap dirty = {} => pc' = image[1]
       /\ \A k \in 1..Len(Disk[image[2]]) :
            LET addr == image[1] + k - 1
            IN  addr \in Word \ (VectorBytes \cup dirty) =>
                  memory[addr] = Disk[image[2]][k]]_vars

(* The prompt comes back.  "m=XXXX Fill memory bytes from current address  *)
(* until address XXXX." (vmmonitor.c:703)                                  *)
PromptReturns == (job \in {"fill", "load"}) ~> (job = "none")
=============================================================================
