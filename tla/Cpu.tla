-------------------------------- MODULE Cpu --------------------------------
(***************************************************************************)
(* The processor: delayed branches and loads, exceptions and the system    *)
(* control coprocessor (src/crates/ps1-core/src/cpu.rs, cpu/cp0.rs and     *)
(* cpu/instructions.rs).                                                   *)
(*                                                                         *)
(* A step is one call of execute_instruction.  Which instruction it meets  *)
(* is left open.  A byte has BITS bits and a word four bytes.  Time, the   *)
(* geometry engine and PGXP's shadows of the registers are left out; the   *)
(* instruction cache has a module of its own.                              *)
(***************************************************************************)
EXTENDS Integers

CONSTANTS BITS,           \* 8
          Registers,      \* 0 .. 31
          LINK,           \* 31
          Memories,       \* what memory may hold at first
          StatusValues,   \* the values written to the status register
          RESET_VECTOR, EXCEPTION_VECTOR, BOOT_EXCEPTION_VECTOR

BYTE == 2^BITS
HALF == BYTE * BYTE
WORD == HALF * HALF
Words == 0 .. WORD - 1
ByteValues == 0 .. BYTE - 1

(* BYTE^k, the unit of byte k of a word. *)
Unit(k) ==
    CASE k = 0 -> 1
      [] k = 1 -> BYTE
      [] k = 2 -> HALF
      [] k = 3 -> BYTE * HALF
      [] k = 4 -> WORD

(* Powers of two are natural numbers, and even but for the first. *)
WordAssumption ==
    /\ BITS \in Nat \ {0}
    /\ \A n \in 0 .. 4 * BITS : 2^n \in Nat \ {0}
    /\ BYTE % 2 = 0
    /\ 0 \in Registers /\ LINK \in Registers
    /\ Memories \subseteq [Words -> ByteValues]
    /\ {RESET_VECTOR, EXCEPTION_VECTOR, BOOT_EXCEPTION_VECTOR} \subseteq Words
ASSUME WordsAssumed == WordAssumption

VARIABLES gpr, hi, lo,
          delayed_load,   \* [reg, value]; register 0 is none
          pc, next_pc, in_delay_slot,
          status,         \* [current, previous, old, mask, boot]
          cause,          \* [branch_delay, software, code]
          line,           \* an interrupt is flagged and not masked in I_STAT
          epc,
          memory,         \* byte by byte
          latest,         \* what the instructions so far leave in each register
          stored,         \* and in memory, by their definition
          branch,         \* the branch whose delay slot is next: [at, target]
          doubled,        \* that branch was in a delay slot itself
          entered         \* the last step took an exception

flow == <<pc, next_pc, in_delay_slot, branch, doubled, entered>>
system == <<status, cause, epc>>
cpuVars == <<gpr, hi, lo, delayed_load, flow, system, line, memory, latest, stored>>

Signed(x, size) == IF x >= size \div 2 THEN x - size ELSE x
Wrap(x) == x % WORD
Aligned(a) == a - (a % 4)
NoLoad == [reg |-> 0, value |-> 0]
NoBranch == [at |-> -1, target |-> -1]

Halfwords == 0 .. HALF - 1      \* the immediates of instructions

-----------------------------------------------------------------------------
(***************************************************************************)
(* Registers.  A file is [gpr, load, next]: the registers, the load of the *)
(* last instruction and the load of this one.                              *)
(***************************************************************************)
File == [gpr |-> gpr, load |-> delayed_load, next |-> NoLoad]
Cancel(load, r) == IF load.reg = r THEN NoLoad ELSE load

\* Mutant: a load in flight later overwrites what is written now.
WriteGprOnly(f, r, v) ==
    IF r = 0 THEN f ELSE [f EXCEPT !.gpr[r] = v]

WriteGpr(f, r, v) ==
    IF r = 0 THEN f ELSE [f EXCEPT !.gpr[r] = v, !.load = Cancel(@, r)]

WriteGprDelayed(f, r, v) ==
    IF r = 0 THEN f
    ELSE [f EXCEPT !.load = Cancel(@, r), !.next = [reg |-> r, value |-> v]]

ReadInFlight(r) == IF delayed_load.reg = r THEN delayed_load.value ELSE gpr[r]

(* Registers::process_delayed_loads, at the end of every instruction. *)
ProcessDelayedLoads(f) ==
    /\ gpr' = [f.gpr EXCEPT ![f.load.reg] = IF f.load.reg = 0 THEN @ ELSE f.load.value]
    /\ delayed_load' = f.next

-----------------------------------------------------------------------------
Off == [kernel |-> TRUE, enabled |-> FALSE]

CpuInit ==
    /\ gpr = [r \in Registers |-> 0] /\ hi = 0 /\ lo = 0
    /\ delayed_load = NoLoad
    /\ pc = RESET_VECTOR /\ next_pc = Wrap(RESET_VECTOR + 4) /\ in_delay_slot = FALSE
    /\ status = [current |-> Off, previous |-> Off, old |-> Off, mask |-> {}, boot |-> TRUE]
    /\ cause = [branch_delay |-> FALSE, software |-> {}, code |-> "Interrupt"]
    /\ line = FALSE /\ epc = 0
    /\ memory \in Memories
    /\ latest = gpr /\ stored = memory
    /\ branch = NoBranch /\ doubled = FALSE /\ entered = FALSE

(* SystemControlCoprocessor::handle_exception, then the jump to the vector. *)
HandleException(code) ==
    /\ status' = [status EXCEPT !.current = Off, !.previous = status.current,
                                !.old = status.previous]
    /\ cause' = [cause EXCEPT !.branch_delay = in_delay_slot, !.code = code]
    /\ epc' = IF in_delay_slot THEN Wrap(pc - 4) ELSE pc
    /\ pc' = IF status.boot THEN BOOT_EXCEPTION_VECTOR ELSE EXCEPTION_VECTOR
    /\ next_pc' = Wrap(pc' + 4)
    /\ in_delay_slot' = FALSE
    /\ branch' = NoBranch /\ doubled' = FALSE /\ entered' = TRUE
    /\ ProcessDelayedLoads(File)
    /\ line' \in BOOLEAN
    /\ UNCHANGED <<hi, lo, memory, latest, stored>>

(* The rest of an instruction: f is what it makes of the registers, next    *)
(* where it leads after its delay slot.                                     *)
\* Mutant: the mark of a delay slot is kept by the instruction in it.
AdvanceInSlot(f, next, taken) ==
    /\ pc' = next_pc /\ next_pc' = next
    /\ in_delay_slot' = (taken \/ in_delay_slot)
    /\ branch' = IF taken THEN [at |-> pc, target |-> next] ELSE NoBranch
    /\ doubled' = (taken /\ in_delay_slot)
    /\ entered' = FALSE
    /\ ProcessDelayedLoads(f)
    /\ line' \in BOOLEAN

Advance(f, next, taken) ==
    /\ pc' = next_pc /\ next_pc' = next
    /\ in_delay_slot' = taken
    /\ branch' = IF taken THEN [at |-> pc, target |-> next] ELSE NoBranch
    /\ doubled' = (taken /\ in_delay_slot)
    /\ entered' = FALSE
    /\ ProcessDelayedLoads(f)
    /\ line' \in BOOLEAN

Continue(f) == Advance(f, Wrap(next_pc + 4), FALSE)

FetchError == pc % 4 # 0 /\ HandleException("AddressErrorLoad")

(* Bit 2 of the pending interrupts is the hardware's; two are software's.   *)
(* A command of the geometry engine is executed before the interrupt it is  *)
(* met with.                                                                *)
InterruptPending ==
    status.current.enabled /\ status.mask \cap (cause.software \cup IF line THEN {2} ELSE {}) # {}
TakeInterrupt == pc % 4 = 0 /\ InterruptPending /\ HandleException("Interrupt")
Executes == pc % 4 = 0 /\ ~InterruptPending

-----------------------------------------------------------------------------
(***************************************************************************)
(* Instructions that compute.                                              *)
(***************************************************************************)
Write(rd, v) ==
    /\ Executes
    /\ Continue(WriteGpr(File, rd, v))
    /\ latest' = IF rd = 0 THEN latest ELSE [latest EXCEPT ![rd] = v]
    /\ UNCHANGED <<hi, lo, system, memory, stored>>

Bit(x, i) == (x \div 2^i) % 2

(* The word, as a set, whose bits are those of an operation.                *)
Bitwise(Op(_, _), a, b) ==
    {w \in Words : \A i \in 0 .. 4 * BITS - 1 : Bit(w, i) = Op(Bit(a, i), Bit(b, i))}
And(a, b) == LET Op(x, y) == x * y IN Bitwise(Op, a, b)
Or(a, b) == LET Op(x, y) == IF x + y = 0 THEN 0 ELSE 1 IN Bitwise(Op, a, b)
Xor(a, b) == LET Op(x, y) == (x + y) % 2 IN Bitwise(Op, a, b)
Nor(a, b) == LET Op(x, y) == IF x + y = 0 THEN 1 ELSE 0 IN Bitwise(Op, a, b)
Logical(a, b) == And(a, b) \cup Or(a, b) \cup Xor(a, b)

Shifts(x, n) == {Wrap(x * 2^n), x \div 2^n, Wrap(Signed(x, WORD) \div 2^n)}
SetOnLess(a, b) == {IF Signed(a, WORD) < Signed(b, WORD) THEN 1 ELSE 0, IF a < b THEN 1 ELSE 0}
LoadUpper(imm) == imm * HALF
Extend(imm) == Wrap(Signed(imm, HALF))

ThreeRegisters(a, b) ==
    {Wrap(a + b), Wrap(a - b)} \cup Logical(a, b) \cup Nor(a, b)
        \cup SetOnLess(a, b) \cup Shifts(b, a % (4 * BITS))

WithImmediate(a, imm) ==
    {Wrap(a + Extend(imm)), LoadUpper(imm)} \cup Logical(a, imm) \cup SetOnLess(a, Extend(imm))

Compute(rs, rt, rd) ==
    \/ \E v \in ThreeRegisters(gpr[rs], gpr[rt]) : Write(rd, v)
    \/ \E n \in 0 .. 4 * BITS - 1 : \E v \in Shifts(gpr[rt], n) : Write(rd, v)
    \/ \E imm \in Halfwords : \E v \in WithImmediate(gpr[rs], imm) : Write(rd, v)

(* ADD, ADDI and SUB trap when the result is not a signed word. *)
Fits(x) == x \in -(WORD \div 2) .. WORD \div 2 - 1

Trap(rs, rt, rd) ==
    LET a == Signed(gpr[rs], WORD)
        b == Signed(gpr[rt], WORD)
    IN  \E x \in {a + b, a - b} \cup {a + Signed(imm, HALF) : imm \in Halfwords} :
            IF Fits(x) THEN Write(rd, Wrap(x))
            ELSE Executes /\ HandleException("ArithmeticOverflow")

SetHiLo(h, l) ==
    /\ Executes
    /\ hi' = h /\ lo' = l
    /\ Continue(File)
    /\ UNCHANGED <<system, memory, latest, stored>>

(* Rust's division goes towards zero, and wraps for the least by -1. *)
Magnitude(x) == IF x < 0 THEN -x ELSE x
Sign(x) == IF x < 0 THEN -1 ELSE 1
Div(a, b) ==
    LET q == Sign(a) * Sign(b) * (Magnitude(a) \div Magnitude(b))
    IN  IF b = 0 THEN SetHiLo(Wrap(a), IF a < 0 THEN 1 ELSE WORD - 1)
        ELSE SetHiLo(Wrap(a - q * b), Wrap(q))

Mult(a, b) == SetHiLo(((a * b) \div WORD) % WORD, Wrap(a * b))

MultiplyDivide(rs, rt) ==
    LET a == gpr[rs]
        b == gpr[rt]
    IN  \/ Div(Signed(a, WORD), Signed(b, WORD))
        \/ Div(a, b)
        \/ Mult(Signed(a, WORD), Signed(b, WORD))
        \/ Mult(a, b)
        \/ SetHiLo(a, lo)
        \/ SetHiLo(hi, a)

MoveFromHiLo(rd) == Write(rd, hi) \/ Write(rd, lo)

-----------------------------------------------------------------------------
(***************************************************************************)
(* Loads and stores.                                                       *)
(***************************************************************************)
Address(rs, imm) == Wrap(gpr[rs] + Extend(imm))
ByteOf(w, i) == (w \div Unit(i)) % BYTE
Compose(b) == b[0] + BYTE * (b[1] + BYTE * (b[2] + BYTE * b[3]))
Read(a, n) == Compose([i \in 0 .. 3 |-> IF i < n THEN memory[a + i] ELSE 0])

Load(rt, v, lasting) ==
    /\ Continue(WriteGprDelayed(File, rt, v))
    /\ latest' = IF rt = 0 THEN latest ELSE [latest EXCEPT ![rt] = lasting]
    /\ UNCHANGED <<hi, lo, system, memory, stored>>

LoadAligned(rs, rt, imm) ==
    LET a == Address(rs, imm)
    IN  /\ Executes
        /\ \E size \in {1, 2, 4} :
               IF a % size # 0 THEN HandleException("AddressErrorLoad")
               ELSE \E v \in {Read(a, size), Wrap(Signed(Read(a, size), Unit(size)))} :
                        Load(rt, v, v)

(* LWL and LWR read a load in flight.  Shifts are by whole bytes.  What     *)
(* they leave, by definition, has the bytes up to, or from, the address.    *)
LoadWordLeft(rs, rt, imm) ==
    LET a == Address(rs, imm)
        unit == Unit(3 - (a % 4))
        kept == ReadInFlight(rt) % unit
    IN  /\ Executes
        /\ Load(rt, Wrap(Read(Aligned(a), 4) * unit) + kept,
                Compose([i \in 0 .. 3 |-> IF i < 3 - (a % 4) THEN ByteOf(latest[rt], i)
                                          ELSE stored[a + i - 3]]))

LoadWordRight(rs, rt, imm) ==
    LET a == Address(rs, imm)
        unit == Unit(a % 4)
        old == ReadInFlight(rt)
        kept == old - (old % (WORD \div unit))
    IN  /\ Executes
        /\ Load(rt, (Read(Aligned(a), 4) \div unit) + kept,
                Compose([i \in 0 .. 3 |-> IF i > 3 - (a % 4) THEN ByteOf(latest[rt], i)
                                          ELSE stored[a + i]]))

WriteBytes(m, a, n, w) == [b \in DOMAIN m |-> IF b \in a .. a + n - 1 THEN ByteOf(w, b - a) ELSE m[b]]

Store(a, n, w, lasting) ==
    /\ memory' = WriteBytes(memory, a, n, w)
    /\ stored' = lasting
    /\ Continue(File)
    /\ UNCHANGED <<hi, lo, system, latest>>

(* SWC2 raises the exception of a load. *)
StoreAligned(rs, rt, imm) ==
    LET a == Address(rs, imm)
    IN  /\ Executes
        /\ \E size \in {1, 2, 4} :
               IF a % size = 0
               THEN Store(a, size, gpr[rt], WriteBytes(stored, a, size, gpr[rt]))
               ELSE \/ HandleException("AddressErrorStore")
                    \/ size = 4 /\ HandleException("AddressErrorLoad")

StoreWordLeft(rs, rt, imm) ==
    LET a == Address(rs, imm)
        n == (a % 4) + 1
        unit == Unit(4 - n)
        word == Read(Aligned(a), 4)
        kept == word - (word % (WORD \div unit))
    IN  /\ Executes
        /\ Store(Aligned(a), 4, (gpr[rt] \div unit) + kept,
                 WriteBytes(stored, Aligned(a), n, gpr[rt] \div unit))

StoreWordRight(rs, rt, imm) ==
    LET a == Address(rs, imm)
        unit == Unit(a % 4)
        kept == Read(Aligned(a), 4) % unit
    IN  /\ Executes
        /\ Store(Aligned(a), 4, Wrap(gpr[rt] * unit) + kept,
                 WriteBytes(stored, a, 4 - (a % 4), gpr[rt]))

-----------------------------------------------------------------------------
(***************************************************************************)
(* Branches, jumps, traps and the coprocessors.  The program counter is    *)
(* already that of the delay slot.                                         *)
(***************************************************************************)
Jump(f, target, link) ==
    /\ Executes
    /\ Advance(f, target, TRUE)
    /\ latest' = IF link = 0 THEN latest ELSE [latest EXCEPT ![link] = f.gpr[link]]
    /\ UNCHANGED <<hi, lo, system, memory, stored>>

Linked(r) == WriteGpr(File, r, Wrap(next_pc + 4))
Conditions(a, b) == {a = b, a # b}
SignConditions(a) == {Signed(a, WORD) >= 0, Signed(a, WORD) < 0,
                      Signed(a, WORD) > 0, Signed(a, WORD) <= 0}

Branch(rs, rt, offset) ==
    \E taken \in Conditions(gpr[rs], gpr[rt]) \cup SignConditions(gpr[rs]) :
        IF taken THEN Jump(File, Wrap(next_pc + 4 * Signed(offset, HALF)), 0)
        ELSE /\ Executes
             /\ Continue(File)
             /\ UNCHANGED <<hi, lo, system, memory, latest, stored>>

(* BLTZAL and BGEZAL link whether they branch or not. *)
BranchAndLink(rs, offset) ==
    \E taken \in {Signed(gpr[rs], WORD) >= 0, Signed(gpr[rs], WORD) < 0} :
        IF taken THEN Jump(Linked(LINK), Wrap(next_pc + 4 * Signed(offset, HALF)), LINK)
        ELSE Write(LINK, Wrap(next_pc + 4))

JumpAbsolute ==
    \E target \in {a \in Words : a % 4 = 0} :
        Jump(File, target, 0) \/ Jump(Linked(LINK), target, LINK)

JumpRegister(rs, rd) ==
    Jump(File, gpr[rs], 0) \/ Jump(Linked(rd), gpr[rs], rd)

SyscallOrBreak(code) == Executes /\ HandleException(code)

MoveFromCoprocessor(rt) ==
    /\ Executes
    /\ \E v \in {epc} \cup Halfwords : Load(rt, v, v)

WriteSystem(newStatus, newCause) ==
    /\ Executes
    /\ status' = newStatus /\ cause' = newCause
    /\ Continue(File)
    /\ UNCHANGED <<hi, lo, epc, memory, latest, stored>>

WriteStatus == \E s \in StatusValues : WriteSystem(s, cause)

ExceptionCodes == {"Interrupt", "AddressErrorLoad", "AddressErrorStore", "Syscall",
                   "Breakpoint", "ReservedInstruction", "ArithmeticOverflow"}

WriteCause(software, delay, code) ==
    WriteSystem(status, [branch_delay |-> delay, software |-> software, code |-> code])

RestoreFromException ==
    WriteSystem([status EXCEPT !.current = status.previous, !.previous = status.old], cause)

(* run_until_exe_sideloaded: the program starts between two instructions,   *)
(* with some registers set and its image in memory.                         *)
Sideload(target, values, image) ==
    /\ pc' = target /\ next_pc' = Wrap(target + 4) /\ in_delay_slot' = FALSE
    /\ gpr' = [r \in Registers |-> IF r \in DOMAIN values THEN values[r] ELSE gpr[r]]
    /\ delayed_load' = IF delayed_load.reg \in DOMAIN values THEN NoLoad ELSE delayed_load
    /\ latest' = [r \in Registers |-> IF r \in DOMAIN values THEN values[r] ELSE latest[r]]
    /\ memory' = image /\ stored' = image
    /\ branch' = NoBranch /\ doubled' = FALSE /\ entered' = FALSE
    /\ UNCHANGED <<hi, lo, system, line>>

-----------------------------------------------------------------------------
CpuNext ==
    \/ FetchError \/ TakeInterrupt
    \/ \E code \in {"Syscall", "Breakpoint"} : SyscallOrBreak(code)
    \/ \E rs, rt, rd \in Registers : \/ Compute(rs, rt, rd) \/ Trap(rs, rt, rd)
                                    \/ MultiplyDivide(rs, rt) \/ MoveFromHiLo(rd)
    \/ \E rs, rt \in Registers, imm \in Halfwords :
           \/ LoadAligned(rs, rt, imm)
           \/ LoadWordLeft(rs, rt, imm) \/ LoadWordRight(rs, rt, imm)
           \/ StoreAligned(rs, rt, imm)
           \/ StoreWordLeft(rs, rt, imm) \/ StoreWordRight(rs, rt, imm)
    \/ \E rs, rt \in Registers, offset \in Halfwords :
           Branch(rs, rt, offset) \/ BranchAndLink(rs, offset)
    \/ JumpAbsolute
    \/ \E rs, rd \in Registers : JumpRegister(rs, rd)
    \/ \E software \in SUBSET {0, 1}, delay \in BOOLEAN, code \in ExceptionCodes :
           WriteCause(software, delay, code)
    \/ WriteStatus
    \/ RestoreFromException
    \/ \E rt \in Registers : MoveFromCoprocessor(rt)
    \/ \E target \in {a \in Words : a % 4 = 0}, written \in SUBSET (Registers \ {0}) :
           \E values \in [written -> Words], image \in Memories : Sideload(target, values, image)

CpuSpec == CpuInit /\ [][CpuNext]_cpuVars
-----------------------------------------------------------------------------
RegistersAreWords == gpr \in [Registers -> Words]

(* Once its loads have landed, each register holds what the last            *)
(* instruction that wrote it was to leave there, and memory what stores     *)
(* were to: whatever loads overlap, merge and are cancelled, and wherever   *)
(* an exception comes in between.                                           *)
ProgramOrder ==
    /\ RegistersAreWords
    /\ \A r \in Registers : ReadInFlight(r) = latest[r]
    /\ memory = stored

(* An exception neither loses nor repeats a jump: from the address in EPC   *)
(* the program goes on to where it was going.  The exception is a branch in *)
(* the delay slot of a branch.                                              *)
Restartable ==
    [][entered' /\ ~doubled =>
        IF cause'.branch_delay
        THEN epc' = branch.at /\ pc = Wrap(branch.at + 4) /\ next_pc = branch.target
        ELSE epc' = pc /\ next_pc = Wrap(pc + 4)]_cpuVars
=============================================================================
