------------------------ MODULE MonitorMemoryProofs ------------------------
(***************************************************************************)
(* Theorems about MonitorMemory: type correctness, and that fills, loads   *)
(* and restarts do what they promise, for memory of any size, any files    *)
(* and any numbers the user types.                                         *)
(***************************************************************************)
EXTENDS MonitorMemory, TLAPS

(* A word is made of two bytes. *)
LEMMA Sizes ==
  /\ MEMORY_SIZE \in Nat /\ MEMORY_SIZE >= 4
  /\ 0 \in Word /\ 0 \in Byte
  /\ ResetVector \in Word /\ ResetVector + 1 \in Word
<1>1. BASE \in Nat /\ BASE >= 2
  BY MonitorMemoryAssumption
<1>2. BASE * BASE \in Nat /\ BASE * BASE >= 4
  BY <1>1, SMT
<1> QED
  BY <1>1, <1>2 DEF MEMORY_SIZE, Word, Byte, ResetVector

LEMMA Cut ==
  ASSUME NEW val \in Int
  PROVE  val % MEMORY_SIZE \in Word /\ val % BASE \in Byte
BY Sizes, MonitorMemoryAssumption, SMT DEF Word, Byte

(* Every word is put together again from its two bytes. *)
LEMMA Halves ==
  ASSUME NEW data \in Word
  PROVE  /\ data \div BASE \in Byte
         /\ data % BASE \in Byte
         /\ BASE * (data \div BASE) + (data % BASE) = data
<1> DEFINE q == data \div BASE
           r == data % BASE
<1>1. BASE \in Nat /\ BASE > 0 /\ data \in Nat /\ data < BASE * BASE
  BY MonitorMemoryAssumption, Sizes DEF Word, MEMORY_SIZE
<1>2. q \in Int /\ r \in 0..(BASE - 1) /\ BASE * q + r = data
  BY <1>1, SMT
<1> HIDE DEF q, r
<1>3. q >= 0
  BY <1>1, <1>2, SMT
<1>4. q < BASE
  BY <1>1, <1>2, SMT
<1> QED
  BY <1>1, <1>2, <1>3, <1>4 DEF Byte, q, r

-----------------------------------------------------------------------------
(***************************************************************************)
(* Type correctness.                                                       *)
(***************************************************************************)

(* Writing a byte and writing a word keep memory, device and dirty typed.  *)
LEMMA Write8Types ==
  ASSUME TypeOK, NEW addr \in Word, NEW data \in Byte, mem_wr8(addr, data)
  PROVE  /\ memory' \in [Word -> Byte]
         /\ device' \in [Device -> Byte]
         /\ dirty' \subseteq Word
BY DEF TypeOK, mem_wr8

LEMMA WordTypes ==
  ASSUME NEW mem \in [Word -> Byte], NEW addr, NEW data \in Word
  PROVE  WithWord(mem, addr, data) \in [Word -> Byte]
BY Halves DEF WithWord

LEMMA Write16Types ==
  ASSUME TypeOK, NEW addr \in Word, NEW data \in Word, mem_wr16(addr, data)
  PROVE  /\ memory' \in [Word -> Byte]
         /\ device' \in [Device -> Byte]
         /\ dirty' \subseteq Word
BY WordTypes DEF TypeOK, mem_wr16

(* The word at the reset vector, in a memory into which it was just put.   *)
LEMMA VectorHolds ==
  ASSUME NEW mem, NEW data \in Word, NEW after,
         after = WithWord(mem, ResetVector, data)
  PROVE  BASE * after[ResetVector] + after[ResetVector + 1] = data
<1>1. after[ResetVector] = data \div BASE /\ after[ResetVector + 1] = data % BASE
  BY Sizes DEF WithWord, ResetVector
<1> QED
  BY <1>1, Halves

LEMMA VectorIsWord ==
  ASSUME NEW mem \in [Word -> Byte]
  PROVE  BASE * mem[ResetVector] + mem[ResetVector + 1] \in Word
<1>1. /\ BASE \in Nat /\ BASE >= 2
      /\ mem[ResetVector] \in 0..(BASE - 1)
      /\ mem[ResetVector + 1] \in 0..(BASE - 1)
  BY Sizes, MonitorMemoryAssumption DEF Byte
<1> DEFINE hi == mem[ResetVector]
           lo == mem[ResetVector + 1]
<1> HIDE DEF hi, lo
<1>2. hi \in Nat /\ lo \in Nat /\ hi <= BASE - 1 /\ lo <= BASE - 1
  BY <1>1 DEF hi, lo
<1>3. BASE * hi <= BASE * (BASE - 1)
  BY <1>1, <1>2, SMT
<1>4. BASE * hi + lo \in Nat /\ BASE * hi + lo < BASE * BASE
  BY <1>1, <1>2, <1>3, SMT
<1> QED
  BY <1>1, <1>4, Sizes DEF Word, MEMORY_SIZE, hi, lo

LEMMA PromptTypes ==
  ASSUME TypeOK, Prompt
  PROVE  commands' \in 0..MaxCommands /\ image' = image /\ started' = started
BY MonitorMemoryAssumption DEF TypeOK, Prompt

LEMMA TypeInit == Init => TypeOK
<1> SUFFICES ASSUME Init PROVE TypeOK
  OBVIOUS
<1>1. 64 % MEMORY_SIZE \in Word
  BY Cut
<1>2. /\ memory \in [Word -> Byte] /\ before \in [Word -> Byte]
      /\ device \in [Device -> Byte]
  BY Sizes DEF Init
<1>3. l_file \in Path \X Name /\ l_start \in Word /\ commands \in 0..MaxCommands
  BY MonitorMemoryAssumption DEF Init
<1>4. {pc, m_address, m_chunk, l_start, ii} \subseteq Word
  BY <1>1, <1>3, Sizes DEF Init
<1>5. /\ l_path \in Path /\ byte \in Byte
      /\ job = "load" /\ last \in Int /\ nret \in Nat /\ started = FALSE
      /\ image = NoImage /\ dirty = {}
  BY Sizes, MonitorMemoryAssumption DEF Init
<1> QED
  BY <1>2, <1>3, <1>4, <1>5 DEF TypeOK

LEMMA TypeStep == TypeOK /\ [Next]_vars => TypeOK'
<1> SUFFICES ASSUME TypeOK, [Next]_vars PROVE TypeOK'
  OBVIOUS
<1> USE DEF TypeOK
<1>1. ASSUME NEW addr \in Begin, ShowByte(addr) PROVE TypeOK'
  <2>1. addr \in Word
    BY Cut, MonitorMemoryAssumption DEF Begin
  <2>2. /\ memory' \in [Word -> Byte] /\ device' \in [Device -> Byte]
        /\ dirty' \subseteq Word
    BY <1>1, <2>1, Cut, Write8Types, MonitorMemoryAssumption DEF ShowByte, AskByte
  <2>3. m_address' \in Word
    BY <1>1, <2>1, Cut DEF ShowByte, MovesTo, Word
  <2> QED
    BY <1>1, <2>2, <2>3, PromptTypes DEF ShowByte, Prompt, NoLoop, MovesTo, fillVars
<1>2. ASSUME NEW addr \in Begin, ShowWord(addr) PROVE TypeOK'
  <2>1. addr \in Word
    BY Cut, MonitorMemoryAssumption DEF Begin
  <2>2. /\ memory' \in [Word -> Byte] /\ device' \in [Device -> Byte]
        /\ dirty' \subseteq Word
    BY <1>2, <2>1, Cut, Write16Types, MonitorMemoryAssumption DEF ShowWord, AskWord
  <2>3. m_address' \in Word
    BY <1>2, <2>1, Cut DEF ShowWord, MovesTo, Word
  <2> QED
    BY <1>2, <2>2, <2>3, PromptTypes DEF ShowWord, Prompt, NoLoop, MovesTo, fillVars
<1>3. ASSUME NEW addr \in Begin, mon_printmem(addr) PROVE TypeOK'
  <2>1. addr \in Word
    BY Cut, MonitorMemoryAssumption DEF Begin
  <2>2. m_address' \in Word
    BY <1>3, <2>1, Cut DEF mon_printmem, MovesTo, Word
  <2> QED
    BY <1>3, <2>2, PromptTypes DEF mon_printmem, Prompt, NoLoop, MovesTo, fillVars
<1>4. ASSUME NEW val \in Typed, SetChunk(val) \/ SetStart(val) PROVE TypeOK'
  BY <1>4, Cut, PromptTypes, MonitorMemoryAssumption DEF SetChunk, SetStart, Prompt, NoLoop, fillVars
<1>5. ASSUME NEW addr \in FillTo, NEW val \in Typed, Fill(addr, val) PROVE TypeOK'
  BY <1>5, Cut, PromptTypes, MonitorMemoryAssumption DEF Fill, Prompt, fields
<1>6. ASSUME NEW path \in Path, mon_getpath(path) PROVE TypeOK'
  BY <1>6, PromptTypes DEF mon_getpath, Prompt, NoLoop, fillVars
<1>7. ASSUME NEW name \in Name, Load(name) \/ os_sprintf_fails(name) PROVE TypeOK'
  BY <1>7, PromptTypes DEF Load, mon_setfile, os_sprintf_fails, StartsToRead, Prompt, fields, fillVars
<1>8. ASSUME Reload PROVE TypeOK'
  BY <1>8, PromptTypes DEF Reload, StartsToRead, Prompt, fields, fillVars
<1>9. ASSUME Restart PROVE TypeOK'
  BY <1>9, VectorIsWord, PromptTypes DEF Restart, mem_rd16, Prompt, NoLoop, fields, fillVars
<1>10. ASSUME mon_read_bin PROVE TypeOK'
  <2>1. Bytes \in Seq(Byte)
    BY MonitorMemoryAssumption DEF Bytes
  <2>2. Bytes[nret + 1] \in Byte
    BY <1>10, <2>1 DEF mon_read_bin, MoreToRead
  <2>3. l_start + nret \in Word
    BY <1>10, Sizes DEF mon_read_bin, MoreToRead, Word
  <2> QED
    BY <1>10, <2>2, <2>3 DEF mon_read_bin, fields, fillVars
<1>11. ASSUME mon_read PROVE TypeOK'
  <2>1. memory' \in [Word -> Byte]
    BY <1>11, WordTypes DEF mon_read
  <2>2. pc' \in Word
    BY <1>11, <2>1, VectorIsWord DEF mon_read
  <2> QED
    BY <1>11, <2>1, <2>2 DEF mon_read, fields, fillVars
<1>12. ASSUME FillByte PROVE TypeOK'
  <2>1. ii' \in Word
    BY <1>12, Cut DEF FillByte, Word
  <2> QED
    BY <1>12, <2>1, Write8Types DEF FillByte, fields
<1>13. ASSUME FillEnd PROVE TypeOK'
  BY <1>13, Sizes DEF FillEnd, fields
<1>14. CASE Bye
  BY <1>14 DEF Bye, fields, fillVars, history
<1>15. CASE UNCHANGED vars
  BY <1>15 DEF vars, fields, fillVars, history
<1> QED
  BY <1>1, <1>2, <1>3, <1>4, <1>5, <1>6, <1>7, <1>8, <1>9, <1>10, <1>11, <1>12, <1>13,
     <1>14, <1>15
  DEF Next, Loop, Ended

(* The monitor's fields, the counters of its loops and memory keep their   *)
(* widths, whatever the user types.                                        *)
THEOREM MemoryTypeCorrect == Spec => []TypeOK
<1> QED
  BY TypeInit, TypeStep, PTL DEF Spec

-----------------------------------------------------------------------------
(***************************************************************************)
(* The fill loop.  Below the end of memory the counter does not wrap, and  *)
(* what is behind it is filled; up to the end of memory it never leaves    *)
(* the loop, whatever it does to the rest.                                 *)
(***************************************************************************)
Filled(upto) ==
  \A addr \in Word :
    memory[addr] = IF addr \in m_address..upto \ Device THEN byte ELSE before[addr]

FillInv ==
  job = "fill" /\ last < MEMORY_SIZE - 1 =>
    /\ IF m_address <= last THEN ii \in m_address..(last + 1) ELSE ii = m_address
    /\ Filled(ii - 1)

LEMMA FillStarts ==
  ASSUME TypeOK, NEW addr \in FillTo, NEW val \in Typed, Fill(addr, val)
  PROVE  FillInv'
<1>1. /\ addr \in Int /\ m_address \in Int
      /\ m_address' = m_address /\ ii' = m_address /\ last' = addr
      /\ memory' = memory /\ before' = memory
  BY MonitorMemoryAssumption DEF Fill, fields, TypeOK, Word
<1>2. m_address'..(ii' - 1) = {}
  BY <1>1
<1>3. Filled(ii - 1)'
  BY <1>1, <1>2 DEF Filled
<1> QED
  BY <1>1, <1>3 DEF FillInv

LEMMA FillGoesOn ==
  ASSUME TypeOK, FillInv, FillByte
  PROVE  FillInv'
<1> SUFFICES ASSUME last < MEMORY_SIZE - 1
             PROVE  /\ IF m_address <= last THEN ii' \in m_address..(last + 1)
                       ELSE ii' = m_address
                    /\ Filled(ii - 1)'
  BY DEF FillInv, FillByte, fields
<1>1. /\ m_address \in Word /\ ii \in Word /\ last \in Int
      /\ memory \in [Word -> Byte] /\ MEMORY_SIZE \in Nat
      /\ m_address' = m_address /\ last' = last /\ byte' = byte /\ before' = before
  BY Sizes DEF TypeOK, FillByte, fields
<1>2. ii <= last /\ m_address <= last /\ ii \in m_address..(last + 1) /\ Filled(ii - 1)
  BY <1>1 DEF FillInv, FillByte, Fills, Word
<1>3. ii' = ii + 1
  <2>1. ii + 1 \in Nat /\ ii + 1 < MEMORY_SIZE
    BY <1>1, <1>2 DEF Word
  <2> QED
    BY <2>1, <1>1, SMT DEF FillByte
<1>4. ASSUME NEW addr \in Word
      PROVE  memory'[addr] = IF addr \in m_address..ii \ Device THEN byte ELSE before[addr]
  <2>1. CASE addr = ii
    <3>1. addr \in m_address..ii /\ addr \notin m_address..(ii - 1)
      BY <1>1, <1>2, <2>1 DEF Word
    <3> QED
      BY <1>1, <1>2, <2>1, <3>1 DEF FillByte, mem_wr8, Filled
  <2>2. CASE addr # ii
    <3>1. memory'[addr] = memory[addr]
      BY <1>1, <2>2 DEF FillByte, mem_wr8
    <3>2. addr \in m_address..ii <=> addr \in m_address..(ii - 1)
      BY <1>1, <2>2 DEF Word
    <3> QED
      BY <1>2, <3>1, <3>2 DEF Filled
  <2> QED
    BY <2>1, <2>2
<1>5. ii' - 1 = ii
  BY <1>1, <1>3 DEF Word
<1>6. Filled(ii - 1)'
  BY <1>1, <1>4, <1>5 DEF Filled
<1> QED
  BY <1>1, <1>2, <1>3, <1>6 DEF Word

LEMMA FillStep == TypeOK /\ FillInv /\ [Next]_vars => FillInv'
<1> SUFFICES ASSUME TypeOK, FillInv, [Next]_vars PROVE FillInv'
  OBVIOUS
<1>1. CASE \E addr \in FillTo, val \in Typed : Fill(addr, val)
  BY <1>1, FillStarts
<1>2. CASE FillByte
  BY <1>2, FillGoesOn
<1>3. CASE UNCHANGED vars
  BY <1>3 DEF FillInv, Filled, vars, fields, fillVars, history
<1>4. CASE job' # "fill"
  BY <1>4 DEF FillInv
<1> QED
  BY <1>1, <1>2, <1>3, <1>4
  DEF Next, Loop, mon_read_bin, mon_read, FillEnd, ShowByte, ShowWord, mon_printmem,
      SetChunk, SetStart, mon_getpath, Load, StartsToRead, os_sprintf_fails, Reload,
      Restart, Bye, Ended, NoLoop, Prompt

(* A fill that ends has filled the range and nothing else.                 *)
THEOREM FillsAreExact == Spec => FillIsExact
<1>1. Init => FillInv
  BY DEF Init, FillInv
<1>2. ASSUME TypeOK, FillInv, Next, job = "fill", job' = "none"
      PROVE  memory' = [addr \in Word |->
                    IF addr \in m_address..last \ Device THEN byte ELSE before[addr]]
  <2>1. FillEnd
    BY <1>2 DEF Next, Loop, mon_read_bin, mon_read, FillByte, ShowByte, ShowWord,
      mon_printmem, SetChunk, SetStart, Fill, mon_getpath, Load, StartsToRead,
      os_sprintf_fails, Reload, Restart, Bye, Ended, NoLoop, Prompt, vars
  <2>2. /\ ii \in Word /\ m_address \in Word /\ last \in Int /\ ii > last
        /\ memory \in [Word -> Byte] /\ memory' = memory /\ MEMORY_SIZE \in Nat
    BY <1>2, <2>1, Sizes DEF TypeOK, FillEnd, Fills, Word
  <2>3. last < MEMORY_SIZE - 1
    BY <2>2 DEF Word
  <2>4. Filled(ii - 1) /\ m_address..(ii - 1) = m_address..last
    BY <1>2, <2>2, <2>3 DEF FillInv, Word
  <2>5. \A addr \in Word :
          memory[addr] = IF addr \in m_address..last \ Device THEN byte ELSE before[addr]
    BY <2>4 DEF Filled
  <2> QED
    BY <2>2, <2>5
<1>3. TypeOK /\ FillInv /\ [Next]_vars =>
        [job = "fill" /\ job' = "none" =>
           memory' = [addr \in Word |->
                    IF addr \in m_address..last \ Device THEN byte ELSE before[addr]]]_vars
  BY <1>2
<1> QED
  BY <1>1, <1>3, TypeInit, TypeStep, FillStep, PTL DEF Spec, FillIsExact

-----------------------------------------------------------------------------
(***************************************************************************)
(* The load loop, and what the last load has left.                         *)
(***************************************************************************)
LoadInv ==
  job = "load" =>
    /\ nret <= Len(Bytes) /\ l_start + nret <= MEMORY_SIZE
    /\ \A addr \in Word :
         memory[addr] = IF addr \in l_start..(l_start + nret - 1)
                        THEN Bytes[addr - l_start + 1] ELSE before[addr]

ImageInv ==
  image # NoImage =>
    /\ VectorBytes \cap dirty = {} => mem_rd16(ResetVector) = image[1]
    /\ \A k \in 1..Len(Disk[image[2]]) :
         LET addr == image[1] + k - 1
         IN  addr \in Word \ (VectorBytes \cup dirty) => memory[addr] = Disk[image[2]][k]

LEMMA FileBytes ==
  ASSUME NEW file \in Path \X Name
  PROVE  Disk[file] \in Seq(Byte) /\ Len(Disk[file]) \in Nat
BY MonitorMemoryAssumption

LEMMA LoadInit == Init => LoadInv
<1> SUFFICES ASSUME Init PROVE LoadInv
  OBVIOUS
<1>1. /\ nret = 0 /\ l_start \in Int /\ before = memory /\ l_start \in Word
      /\ l_file \in Path \X Name
  BY MonitorMemoryAssumption DEF Init, Word
<1>2. l_start..(l_start + nret - 1) = {}
  BY <1>1
<1> QED
  BY <1>1, <1>2, FileBytes, Sizes DEF LoadInv, Bytes, Word

LEMMA LoadStarts ==
  ASSUME TypeOK, StartsToRead, memory' = memory, l_start' = l_start, l_file' \in Path \X Name
  PROVE  LoadInv'
<1>1. nret' = 0 /\ before' = memory /\ l_start \in Int
  BY DEF StartsToRead, TypeOK, Word
<1>2. l_start'..(l_start' + nret' - 1) = {}
  BY <1>1
<1>3. nret' <= Len(Bytes') /\ l_start' + nret' <= MEMORY_SIZE
  BY <1>1, FileBytes, Sizes DEF Bytes, TypeOK, Word
<1> QED
  BY <1>1, <1>2, <1>3 DEF LoadInv

LEMMA LoadGoesOn ==
  ASSUME TypeOK, LoadInv, mon_read_bin
  PROVE  LoadInv'
<1>1. /\ l_start \in Word /\ nret \in Nat /\ memory \in [Word -> Byte]
      /\ MEMORY_SIZE \in Nat /\ Len(Bytes) \in Nat
      /\ nret < Len(Bytes) /\ l_start + nret < MEMORY_SIZE
      /\ nret' = nret + 1 /\ l_start' = l_start /\ Bytes' = Bytes /\ before' = before
      /\ memory' = [memory EXCEPT ![l_start + nret] = Bytes[nret + 1]]
  BY Sizes, FileBytes DEF TypeOK, mon_read_bin, MoreToRead, Bytes, fields
<1>2. \A addr \in Word :
        memory[addr] = IF addr \in l_start..(l_start + nret - 1)
                       THEN Bytes[addr - l_start + 1] ELSE before[addr]
  BY DEF LoadInv, mon_read_bin
<1>3. ASSUME NEW addr \in Word
      PROVE  memory'[addr] = IF addr \in l_start..(l_start + nret)
                             THEN Bytes[addr - l_start + 1] ELSE before[addr]
  <2>1. CASE addr = l_start + nret
    <3>1. addr - l_start + 1 = nret + 1 /\ addr \in l_start..(l_start + nret)
      BY <1>1, <2>1 DEF Word
    <3> QED
      BY <1>1, <2>1, <3>1
  <2>2. CASE addr # l_start + nret
    <3>1. memory'[addr] = memory[addr]
      BY <1>1, <2>2
    <3>2. addr \in l_start..(l_start + nret) <=> addr \in l_start..(l_start + nret - 1)
      BY <1>1, <2>2 DEF Word
    <3> QED
      BY <1>2, <3>1, <3>2
  <2> QED
    BY <2>1, <2>2
<1>4. l_start' + nret' - 1 = l_start + nret
  BY <1>1 DEF Word
<1>5. nret' <= Len(Bytes') /\ l_start' + nret' <= MEMORY_SIZE
  BY <1>1 DEF Word
<1> QED
  BY <1>1, <1>3, <1>4, <1>5 DEF LoadInv

LEMMA LoadStep == TypeOK /\ LoadInv /\ [Next]_vars => LoadInv'
<1> SUFFICES ASSUME TypeOK, LoadInv, [Next]_vars PROVE LoadInv'
  OBVIOUS
<1>1. ASSUME NEW name \in Name, Load(name) PROVE LoadInv'
  BY <1>1, LoadStarts DEF Load, mon_setfile, TypeOK
<1>2. CASE Reload
  BY <1>2, LoadStarts DEF Reload, fields, TypeOK
<1>3. CASE mon_read_bin
  BY <1>3, LoadGoesOn
<1>4. CASE UNCHANGED vars
  BY <1>4 DEF LoadInv, Bytes, vars, fields, history
<1>5. CASE job' # "load"
  BY <1>5 DEF LoadInv
<1> QED
  BY <1>1, <1>2, <1>3, <1>4, <1>5
  DEF Next, Loop, mon_read, FillByte, FillEnd, ShowByte, ShowWord, mon_printmem,
      SetChunk, SetStart, Fill, mon_getpath, os_sprintf_fails, Restart, Bye, Ended,
      NoLoop, Prompt

(* What is in memory when a load that has read something ends.             *)
LEMMA LoadEnds ==
  ASSUME TypeOK, LoadInv, mon_read, nret > 0
  PROVE  /\ Placed(memory', l_start, l_file)
         /\ \A addr \in Elsewhere(l_start, l_file) : memory'[addr] = before[addr]
         /\ mem_rd16(ResetVector)' = l_start
<1>1. /\ l_start \in Word /\ nret \in Nat /\ memory \in [Word -> Byte]
      /\ MEMORY_SIZE \in Nat /\ Len(Bytes) \in Nat
      /\ nret <= Len(Bytes) /\ l_start + nret <= MEMORY_SIZE
      /\ nret = Len(Bytes) \/ l_start + nret = MEMORY_SIZE
      /\ memory' = WithWord(memory, ResetVector, l_start)
  BY Sizes, FileBytes DEF TypeOK, LoadInv, mon_read, MoreToRead, Bytes, Word
<1>2. \A addr \in Word \ VectorBytes : memory'[addr] = memory[addr]
  BY <1>1 DEF WithWord, VectorBytes
<1>3. \A addr \in Word :
        memory[addr] = IF addr \in l_start..(l_start + nret - 1)
                       THEN Bytes[addr - l_start + 1] ELSE before[addr]
  BY DEF LoadInv, mon_read
<1>4. ASSUME NEW k \in 1..Len(Bytes), l_start + k - 1 \in Word \ VectorBytes
      PROVE  memory'[l_start + k - 1] = Bytes[k]
  <2>1. l_start + k - 1 \in l_start..(l_start + nret - 1)
    BY <1>1, <1>4 DEF Word
  <2>2. (l_start + k - 1) - l_start + 1 = k
    BY <1>1, <1>4 DEF Word
  <2> QED
    BY <1>2, <1>3, <1>4, <2>1, <2>2
<1>5. ASSUME NEW addr \in Elsewhere(l_start, l_file)
      PROVE  memory'[addr] = before[addr]
  <2>1. addr \in Word \ VectorBytes /\ addr \notin l_start..(l_start + nret - 1)
    BY <1>1, <1>5 DEF Elsewhere, Word, Bytes
  <2> QED
    BY <1>2, <1>3, <2>1
<1>6. mem_rd16(ResetVector)' = l_start
  BY <1>1, VectorHolds, Sizes DEF mem_rd16
<1> QED
  BY <1>4, <1>5, <1>6 DEF Placed, Bytes

(* A load that ends has placed the file, as far as it fits, and changed    *)
(* nothing else; a missing or empty file changes nothing.                  *)
THEOREM LoadsAreExact == Spec => LoadIsExact
<1>1. Init => LoadInv
  BY LoadInit
<1>2. ASSUME TypeOK, LoadInv, Next, job = "load", job' = "none"
      PROVE  IF Bytes = <<>> THEN memory' = before
             ELSE /\ Placed(memory', l_start, l_file)
                  /\ \A addr \in Elsewhere(l_start, l_file) : memory'[addr] = before[addr]
  <2>1. mon_read
    BY <1>2 DEF Next, Loop, mon_read_bin, FillByte, FillEnd, ShowByte, ShowWord,
      mon_printmem, SetChunk, SetStart, Fill, mon_getpath, Load, StartsToRead,
      os_sprintf_fails, Reload, Restart, Bye, Ended, NoLoop, Prompt, vars
  <2>2. Len(Bytes) \in Nat /\ Bytes \in Seq(Byte) /\ nret \in Nat /\ l_start \in Word
    BY <1>2, FileBytes DEF Bytes, TypeOK
  <2>3. CASE nret > 0
    <3>1. Bytes # <<>>
      BY <1>2, <2>2, <2>3 DEF LoadInv
    <3> QED
      BY <1>2, <2>1, <2>3, <3>1, LoadEnds
  <2>4. CASE nret = 0
    <3>1. Bytes = <<>>
      BY <2>1, <2>2, <2>4, Sizes DEF mon_read, MoreToRead, Word
    <3>2. memory' = memory
      BY <2>1, <2>4 DEF mon_read
    <3>3. l_start..(l_start + nret - 1) = {}
      BY <2>2, <2>4 DEF Word
    <3>4. \A addr \in Word : memory[addr] = before[addr]
      BY <1>2, <3>3 DEF LoadInv
    <3>5. memory \in [Word -> Byte] /\ before \in [Word -> Byte]
      BY <1>2 DEF TypeOK
    <3> QED
      BY <3>1, <3>2, <3>4, <3>5
  <2> QED
    BY <2>2, <2>3, <2>4
<1>3. TypeOK /\ LoadInv /\ [Next]_vars =>
        [job = "load" /\ job' = "none" =>
           IF Bytes = <<>> THEN memory' = before
           ELSE /\ Placed(memory', l_start, l_file)
                /\ \A addr \in Elsewhere(l_start, l_file) :
                     memory'[addr] = before[addr]]_vars
  BY <1>2
<1> QED
  BY <1>1, <1>3, TypeInit, TypeStep, LoadStep, PTL DEF Spec, LoadIsExact

-----------------------------------------------------------------------------
(* A step that only adds to dirty what it changes in memory keeps what the *)
(* last load has left.                                                     *)
LEMMA ImageKept ==
  ASSUME TypeOK, ImageInv, image' = image, dirty \subseteq dirty',
         \A addr \in Word \ dirty' : memory'[addr] = memory[addr]
  PROVE  ImageInv'
<1> SUFFICES ASSUME image # NoImage
             PROVE  /\ VectorBytes \cap dirty' = {} => mem_rd16(ResetVector)' = image[1]
                    /\ \A k \in 1..Len(Disk[image[2]]) :
                         LET addr == image[1] + k - 1
                         IN  addr \in Word \ (VectorBytes \cup dirty') =>
                               memory'[addr] = Disk[image[2]][k]
  BY DEF ImageInv
<1>1. ASSUME VectorBytes \cap dirty' = {}
      PROVE  mem_rd16(ResetVector)' = image[1]
  <2>1. memory'[ResetVector] = memory[ResetVector]
        /\ memory'[ResetVector + 1] = memory[ResetVector + 1]
    BY <1>1, Sizes DEF VectorBytes
  <2>2. VectorBytes \cap dirty = {}
    BY <1>1
  <2> QED
    BY <2>1, <2>2 DEF ImageInv, mem_rd16
<1>2. ASSUME NEW k \in 1..Len(Disk[image[2]]),
             image[1] + k - 1 \in Word \ (VectorBytes \cup dirty')
      PROVE  memory'[image[1] + k - 1] = Disk[image[2]][k]
  BY <1>2 DEF ImageInv
<1> QED
  BY <1>1, <1>2

LEMMA Write8Dirties ==
  ASSUME TypeOK, NEW addr \in Word, NEW data, mem_wr8(addr, data)
  PROVE  /\ dirty \subseteq dirty'
         /\ \A other \in Word \ dirty' : memory'[other] = memory[other]
BY DEF TypeOK, mem_wr8

LEMMA Write16Dirties ==
  ASSUME TypeOK, NEW addr \in Word, NEW data, mem_wr16(addr, data)
  PROVE  /\ dirty \subseteq dirty'
         /\ \A other \in Word \ dirty' : memory'[other] = memory[other]
BY DEF TypeOK, mem_wr16, WithWord

LEMMA ImageStep == TypeOK /\ LoadInv /\ ImageInv /\ [Next]_vars => ImageInv'
<1> SUFFICES ASSUME TypeOK, LoadInv, ImageInv, [Next]_vars PROVE ImageInv'
  OBVIOUS
<1>1. ASSUME NEW addr \in Begin, ShowByte(addr) PROVE ImageInv'
  <2>1. addr \in Word
    BY Cut, MonitorMemoryAssumption DEF Begin, TypeOK
  <2> QED
    BY <1>1, <2>1, Write8Dirties, ImageKept DEF ShowByte, AskByte, Prompt
<1>2. ASSUME NEW addr \in Begin, ShowWord(addr) PROVE ImageInv'
  <2>1. addr \in Word
    BY Cut, MonitorMemoryAssumption DEF Begin, TypeOK
  <2> QED
    BY <1>2, <2>1, Write16Dirties, ImageKept DEF ShowWord, AskWord, Prompt
<1>3. CASE FillByte
  BY <1>3, Write8Dirties, ImageKept DEF FillByte, TypeOK
<1>4. CASE mon_read_bin
  <2>1. \A addr \in Word \ dirty' : memory'[addr] = memory[addr]
    BY <1>4 DEF mon_read_bin, TypeOK
  <2> QED
    BY <1>4, <2>1, ImageKept DEF mon_read_bin
<1>5. CASE mon_read /\ nret > 0
  <2>1. image' = <<l_start, l_file>> /\ dirty' = {}
    BY <1>5 DEF mon_read
  <2>2. Placed(memory', l_start, l_file) /\ mem_rd16(ResetVector)' = l_start
    BY <1>5, LoadEnds
  <2>3. image'[1] = l_start /\ image'[2] = l_file
    BY <2>1
  <2> QED
    BY <2>1, <2>2, <2>3 DEF ImageInv, Placed
<1>6. CASE UNCHANGED <<memory, image, dirty>>
  BY <1>6, ImageKept
<1> QED
  BY <1>1, <1>2, <1>3, <1>4, <1>5, <1>6
  DEF Next, Loop, mon_read, FillEnd, mon_printmem, SetChunk, SetStart, Fill,
      mon_getpath, Load, StartsToRead, os_sprintf_fails, Reload, Restart, Bye, Ended,
      NoLoop, Prompt, vars, history

(* A restart runs the program that was loaded last.                        *)
THEOREM RestartsRunLoaded == Spec => RestartRunsLoaded
<1>1. Init => LoadInv /\ ImageInv
  BY LoadInit DEF Init, ImageInv
<1>2. TypeOK /\ ImageInv /\ [Next]_vars =>
        [Restart /\ image # NoImage =>
           /\ VectorBytes \cap dirty = {} => pc' = image[1]
           /\ \A k \in 1..Len(Disk[image[2]]) :
                LET addr == image[1] + k - 1
                IN  addr \in Word \ (VectorBytes \cup dirty) =>
                      memory[addr] = Disk[image[2]][k]]_vars
  BY DEF Restart, ImageInv
<1> QED
  BY <1>1, <1>2, TypeInit, TypeStep, LoadStep, ImageStep, PTL DEF Spec, RestartRunsLoaded
=============================================================================
