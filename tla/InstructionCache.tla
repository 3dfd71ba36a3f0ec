-------------------------- MODULE InstructionCache --------------------------
(***************************************************************************)
(* The processor's instruction cache: fetches, and the writes that reach   *)
(* it while it is isolated from memory (src/crates/ps1-core/src/           *)
(* cpu/icache.rs, cpu.rs and cpu/cp0.rs).  Addresses are in opcodes.  The  *)
(* cache does not see what is written to memory: programs flush it.        *)
(***************************************************************************)
EXTENDS Integers

CONSTANTS OPCODES_LEN, LINE_LEN,  \* 1024 and 4
          MemoryLen,              \* main RAM
          Zero, Opcodes           \* Zero is one of them

CacheAssumption ==
    /\ LINE_LEN \in Nat \ {0} /\ OPCODES_LEN \in Nat \ {0}
    /\ OPCODES_LEN % LINE_LEN = 0
ASSUME CacheAssumed == CacheAssumption

VARIABLES tags, opcodes,          \* InstructionCache
          isolate_cache, tag_test_mode,
          ram,
          outdated                \* written since a line was filled with it

cacheVars == <<tags, opcodes, isolate_cache, tag_test_mode, ram, outdated>>

Locations == 0 .. MemoryLen - 1
Index(a) == a % OPCODES_LEN
LineOf(a) == Index(a) \div LINE_LEN
Tag(a) == a \div OPCODES_LEN
Line(a) == {b \in Locations : b \div LINE_LEN = a \div LINE_LEN}
NoTag == -1
Hit(a) == tags[LineOf(a)] = Tag(a)

CacheInit ==
    /\ tags = [l \in 0 .. OPCODES_LEN \div LINE_LEN - 1 |-> NoTag]
    /\ opcodes = [i \in 0 .. OPCODES_LEN - 1 |-> Zero]
    /\ ram = [a \in Locations |-> Zero]
    /\ isolate_cache = FALSE /\ tag_test_mode = FALSE
    /\ outdated = {}

\* Mutant: the words are read from the address on, past the end of its line.
FillFromAddress(a) ==
    [i \in DOMAIN opcodes |->
        IF \E b \in a .. a + LINE_LEN - 1 : Index(b) = i
        THEN ram[(CHOOSE b \in a .. a + LINE_LEN - 1 : Index(b) = i) % MemoryLen]
        ELSE opcodes[i]]

Fill(a) ==
    [i \in DOMAIN opcodes |->
        IF \E b \in Line(a) : Index(b) = i THEN ram[CHOOSE b \in Line(a) : Index(b) = i]
        ELSE opcodes[i]]

(* R3000::fetch_opcode.  The segment kseg1 is not cached. *)
Fetch(a, cached) ==
    /\ IF cached /\ ~Hit(a)
       THEN /\ tags' = [tags EXCEPT ![LineOf(a)] = Tag(a)]
            /\ opcodes' = Fill(a)
            /\ outdated' = outdated \ Line(a)
       ELSE UNCHANGED <<tags, opcodes, outdated>>
    /\ UNCHANGED <<isolate_cache, tag_test_mode, ram>>

WriteRam(a, v) ==
    /\ ram' = [ram EXCEPT ![a] = v]
    /\ outdated' = outdated \cup {a}
    /\ UNCHANGED <<tags, opcodes, isolate_cache, tag_test_mode>>

(* A store of the program; DMA writes memory whatever the cache does. *)
BusWrite(a, v) ==
    \/ ~isolate_cache /\ WriteRam(a, v)
    \/ /\ isolate_cache /\ tag_test_mode
       /\ tags' = [tags EXCEPT ![LineOf(a)] = NoTag]
       /\ UNCHANGED <<opcodes, isolate_cache, tag_test_mode, ram, outdated>>
    \/ /\ isolate_cache /\ ~tag_test_mode
       /\ opcodes' = [opcodes EXCEPT ![Index(a)] = v]
       /\ outdated' = outdated \cup {b \in Locations : Index(b) = Index(a)}
       /\ UNCHANGED <<tags, isolate_cache, tag_test_mode, ram>>

(* The cache's control register cannot be reached while it is isolated. *)
WriteCacheControl(test) ==
    /\ ~isolate_cache
    /\ tag_test_mode' = test
    /\ UNCHANGED <<tags, opcodes, isolate_cache, ram, outdated>>

WriteIsolate(isolate) ==
    /\ isolate_cache' = isolate
    /\ UNCHANGED <<tags, opcodes, tag_test_mode, ram, outdated>>

CacheNext ==
    \/ \E a \in Locations, cached \in BOOLEAN : Fetch(a, cached)
    \/ \E a \in Locations, v \in Opcodes : BusWrite(a, v) \/ WriteRam(a, v)
    \/ \E on \in BOOLEAN : WriteCacheControl(on) \/ WriteIsolate(on)

CacheSpec == CacheInit /\ [][CacheNext]_cacheVars
-----------------------------------------------------------------------------
(* An opcode that the cache gives is the one memory holds, unless the       *)
(* program wrote it since the line was read and did not flush the line: no  *)
(* line ever answers for an address it was not filled from.                 *)
OnlyOutdated ==
    \A a \in Locations : Hit(a) => opcodes[Index(a)] = ram[a] \/ a \in outdated
=============================================================================
