------------------------------ MODULE DllImage ------------------------------
(***************************************************************************)
(* How a DLL gets into memory: the sections, relocations, imports and      *)
(* exports of its file (pe/sect.c, reloc.c, import.c, export.c), and the   *)
(* image that load_dll makes of them (loader.c).  The embedded DLLs are    *)
(* 64-bit, so is_pe32_plus holds.                                          *)
(*                                                                         *)
(* Memory consists of cells: 32 bits where numbers are read, a character   *)
(* where strings are.  An address is two cells, the hint in front of an    *)
(* imported name one.                                                      *)
(***************************************************************************)
EXTENDS Integers, Sequences, SequencesExt, FiniteSetsExt

CELL == 64           \* values of a cell
WIDE == CELL * CELL  \* values of two
PAGE == 4            \* cells of a page, and SectionAlignment

-----------------------------------------------------------------------------
(* A file is a record: sects, each with its place in memory (off, size),   *)
(* its data in the file and its protection; the image's size and           *)
(* desired_base; and the directories blocks, libs and exports.             *)

pe_parse_sections(pe) ==
    \A i \in DOMAIN pe.sects :
        LET sec == pe.sects[i] IN sec.off + sec.size <= pe.size /\ sec.off % PAGE = 0

(* The first section that holds the cell decides. *)
pe_peek_mem_i8(pe, off) ==
    LET i   == SelectInSeq(pe.sects, LAMBDA s : s.off <= off /\ off < s.off + s.size)
        sec == pe.sects[i]
    IN  IF i = 0 \/ Len(sec.data) <= off - sec.off THEN 0 ELSE sec.data[off - sec.off + 1]

(* Mutant: a section's data are copied beyond its end in memory. *)
mut_pe_copy_mem(pe, off, size) ==
    LET Copy(buf, sec) ==
            LET start == Max({off, sec.off})
                end   == Min({off + size, sec.off + sec.size})
                last  == Max({start, sec.off + Len(sec.data)})
            IN  [k \in DOMAIN buf |->
                    IF start < end /\ start <= off + k /\ off + k < last
                    THEN sec.data[off + k - sec.off + 1] ELSE buf[k]]
        loop[i \in 0..Len(pe.sects)] ==
            IF i = 0 THEN [k \in 0..(size - 1) |-> 0] ELSE Copy(loop[i-1], pe.sects[i])
    IN  loop[Len(pe.sects)]

(* Zeros, then from each section in turn what lies in it and in the file. *)
pe_copy_mem(pe, off, size) ==
    LET Copy(buf, sec) ==
            LET start == Max({off, sec.off})
                end   == Min({off + size, sec.off + sec.size})
                last  == Min({end, Max({start, sec.off + Len(sec.data)})})
            IN  [k \in DOMAIN buf |->
                    IF start < end /\ start <= off + k /\ off + k < last
                    THEN sec.data[off + k - sec.off + 1] ELSE buf[k]]
        loop[i \in 0..Len(pe.sects)] ==
            IF i = 0 THEN [k \in 0..(size - 1) |-> 0] ELSE Copy(loop[i-1], pe.sects[i])
    IN  loop[Len(pe.sects)]

pe_peek_mem_i32(pe, off) == pe_copy_mem(pe, off, 1)[0]
pe_peek_mem_i64(pe, off) == LET w == pe_copy_mem(pe, off, 2) IN w[0] + CELL * w[1]

(* Measured cell by cell, then copied at once *)
pe_copy_mem_string(pe, off) ==
    LET len == CHOOSE n \in 0..pe.size :
                  /\ pe_peek_mem_i8(pe, off + n) = 0
                  /\ \A k \in 0..(n - 1) : pe_peek_mem_i8(pe, off + k) # 0
        buf == pe_copy_mem(pe, off, len + 1)
    IN  [k \in 1..len |-> buf[k - 1]]

-----------------------------------------------------------------------------
(* Relocation blocks: a page and entries with a type and an offset in it.  *)
(* Paddings are skipped; what is kept is the distance of the address found *)
(* there from desired_base.                                                *)
Supported(pe) ==
    \A i \in DOMAIN pe.blocks : \A j \in DOMAIN pe.blocks[i].entries :
        pe.blocks[i].entries[j].type \in {"nop", "highlow", "dir64"}

pe_parse_reloc_dir(pe) ==
    LET Of(b) == LET e == SelectSeq(b.entries, LAMBDA x : x.type # "nop")
                 IN  [j \in DOMAIN e |-> [type |-> e[j].type, off |-> b.page + e[j].low]]
        all   == FlattenSeq([i \in DOMAIN pe.blocks |-> Of(pe.blocks[i])])
        At(r) == IF r.type = "highlow" THEN pe_peek_mem_i32(pe, r.off) ELSE pe_peek_mem_i64(pe, r.off)
    IN  [j \in DOMAIN all |-> [offset |-> all[j].off,
                               delta  |-> (At(all[j]) - pe.desired_base) % WIDE]]

(* Imports of a library, from its lookup table: two cells each, up to zero.*)
(* Only the first cell of an entry is read for its contents, so the top    *)
(* bit that marks an ordinal is never seen.                                *)
NoOrdinal == -1
ImportsOf(pe, lib) ==
    LET n == CHOOSE n \in 0..pe.size :
                /\ pe_peek_mem_i64(pe, lib.lookup + 2 * n) = 0
                /\ \A k \in 0..(n - 1) : pe_peek_mem_i64(pe, lib.lookup + 2 * k) # 0
        Import(i) ==
            LET bits == pe_peek_mem_i32(pe, lib.lookup + 2 * i)
            IN  [off  |-> lib.table + 2 * i,
                 ord  |-> IF bits >= WIDE \div 2 THEN bits % CELL ELSE NoOrdinal,
                 name |-> IF bits >= WIDE \div 2 THEN <<>>
                          ELSE pe_copy_mem_string(pe, (bits % (CELL \div 2)) + 1)]
    IN  [i \in 1..n |-> Import(i - 1)]

pe_parse_import_dir(pe) == FlattenSeq([i \in DOMAIN pe.libs |-> ImportsOf(pe, pe.libs[i])])

(* Exports: addresses in order, an address in the directory itself being a *)
(* forwarder, and names that refer to them by index; the last name wins.   *)
NoName == <<>>
ValidNames(pe) == \A i \in DOMAIN pe.exports.names : pe.exports.names[i].idx \in DOMAIN pe.exports.addrs

pe_parse_export_dir(pe) ==
    LET dir     == pe.exports
        Fwd(a)  == dir.off <= a /\ a < dir.off + dir.size
        Name(i) == LET k == SelectLastInSeq(dir.names, LAMBDA e : e.idx = i)
                   IN  IF k = 0 THEN NoName ELSE dir.names[k].name
    IN  [i \in DOMAIN dir.addrs |->
            [offset |-> IF Fwd(dir.addrs[i]) THEN 0 ELSE dir.addrs[i], name |-> Name(i)]]

pe_parse(pe) == pe_parse_sections(pe) /\ ValidNames(pe) /\ Supported(pe)

-----------------------------------------------------------------------------
Write64(mem, off, v) == [mem EXCEPT ![off] = v % CELL, ![off + 1] = v \div CELL]

(* External: the names the shims provide, and where they and the stubs are *)
Known      == {<<1>>}
ApiAt      == 3001
STUB       == 3002
ORD_STUB   == 3003
TRAMPOLINE == 3004

resolve_import(name) == IF name \in Known THEN ApiAt ELSE STUB

CFG_DISPATCH_PTR_RVA == 24
patch_cfg_dispatch(mem, size) ==
    IF CFG_DISPATCH_PTR_RVA + 2 > size THEN mem ELSE Write64(mem, CFG_DISPATCH_PTR_RVA, TRAMPOLINE)

(* mprotect of the whole image, then of each section: by pages *)
Protections(pe) ==
    LET Pages(s) == IF s.size = 0 THEN {} ELSE (s.off \div PAGE)..((s.off + s.size - 1) \div PAGE)
    IN  FoldLeft(LAMBDA p, s : [g \in DOMAIN p |-> IF g \in Pages(s) THEN s.prot ELSE p[g]],
                 [g \in 0..((pe.size - 1) \div PAGE) |-> "none"], pe.sects)

(* load_dll, where mmap gives it the memory at `at` *)
load_dll(pe, at) ==
    LET copied    == pe_copy_mem(pe, 0, pe.size)
        imported  == FoldLeft(LAMBDA m, i :
                                 Write64(m, i.off, IF i.ord # NoOrdinal THEN ORD_STUB
                                                   ELSE resolve_import(i.name)),
                              copied, pe_parse_import_dir(pe))
        relocated == FoldLeft(LAMBDA m, r : Write64(m, r.offset, (at + r.delta) % WIDE),
                              imported, pe_parse_reloc_dir(pe))
        exports   == pe_parse_export_dir(pe)
    IN  [mem     |-> patch_cfg_dispatch(relocated, pe.size),
         prot    |-> Protections(pe),
         exports |-> [i \in DOMAIN exports |-> [name |-> exports[i].name, addr |-> at + exports[i].offset]]]

(* The first export of that name; without one the process aborts. *)
NotFound == -1
find_dll_export(dll, name) ==
    LET i == SelectInSeq(dll.exports, LAMBDA e : e.name = name)
    IN  IF i = 0 THEN NotFound ELSE dll.exports[i].addr

-----------------------------------------------------------------------------
(* What the file says of a cell: at most one section holds it.             *)
Holds(sec, a)  == sec.off <= a /\ a < sec.off + sec.size
Disjoint(pe)   == \A i, j \in DOMAIN pe.sects : i # j =>
                     \A a \in 0..(pe.size - 1) : ~(Holds(pe.sects[i], a) /\ Holds(pe.sects[j], a))
FileCell(pe, a) ==
    IF \E i \in DOMAIN pe.sects : Holds(pe.sects[i], a) /\ a - pe.sects[i].off < Len(pe.sects[i].data)
    THEN LET sec == pe.sects[CHOOSE i \in DOMAIN pe.sects : Holds(pe.sects[i], a)]
         IN  sec.data[a - sec.off + 1]
    ELSE 0

(* Any stretch of memory, read at once or cell by cell, is what the file   *)
(* says: across sections and gaps, with data shorter or longer than the    *)
(* section.                                                                *)
CopySound(pe) ==
    (pe_parse(pe) /\ Disjoint(pe)) =>
        \A off \in 0..(pe.size - 1) :
            /\ pe_peek_mem_i8(pe, off) = FileCell(pe, off)
            /\ \A n \in 0..(pe.size - off) :
                  pe_copy_mem(pe, off, n) = [k \in 0..(n - 1) |-> FileCell(pe, off + k)]

-----------------------------------------------------------------------------
(* Images to load: x.imports says what is imported, x.relocs where the     *)
(* addresses are, x.addrs what is exported.  Text holds two addresses,     *)
(* read-only data the lookup table, data the names, the slots of the       *)
(* imports from cell 20 on, and in a large image the CFG pointer.          *)
Base == 1000
Slot == 20
ImportKinds == {"known", "unknown", "ordinal"}
RelocKinds  == {[type |-> "nop", low |-> 0]} \cup {[type |-> "dir64", low |-> l] : l \in {0, 2, 3}}

SampleImage(x) ==
    LET Address(v) == <<v % CELL, v \div CELL>>
        Lookup(k)  == CASE k = "known"   -> <<16, 0>>
                        [] k = "unknown" -> <<18, 0>>
                        [] k = "ordinal" -> <<3, CELL \div 2>>
        lookups == FlattenSeq([i \in DOMAIN x.imports |-> Lookup(x.imports[i])])
        pad     == [i \in 1..(6 - Len(lookups)) |-> 0] \o <<63, 63>>
        data    == IF x.large THEN 10 ELSE 8
    IN  [size |-> 16 + data, desired_base |-> Base,
         sects |-> << [off |-> 4, size |-> 4, data |-> Address(Base + 5) \o Address(Base + 17), prot |-> "rx"],
                      [off |-> 8, size |-> 6, data |-> lookups \o pad, prot |-> "r"],
                      [off |-> 16, size |-> data, data |-> <<7, 1, 0, 2>>, prot |-> "rw"] >>,
         blocks |-> IF x.split THEN [i \in DOMAIN x.relocs |-> [page |-> 4, entries |-> <<x.relocs[i]>>]]
                               ELSE <<[page |-> 4, entries |-> x.relocs]>>,
         libs |-> <<[lookup |-> 8, table |-> Slot]>>,
         exports |-> [off |-> 12, size |-> 2, addrs |-> x.addrs,
                      names |-> Reverse([i \in DOMAIN x.addrs |-> [idx |-> i, name |-> <<i>>]])]]

Targets(x) == {4 + x.relocs[i].low : i \in {i \in DOMAIN x.relocs : x.relocs[i].type = "dir64"}}

(* The loaded image, wherever it is: imports lead to the shims or to a     *)
(* stub, every address is moved by the same distance, once, nothing else   *)
(* differs from the file; each page has its section's protection; and an   *)
(* export is found at its place.                                           *)
LoadSound(x, at) ==
    LET pe  == SampleImage(x)
        dll == load_dll(pe, at)
        Read(a) == dll.mem[a] + CELL * dll.mem[a + 1]
        slots   == {Slot + 2 * (i - 1) : i \in DOMAIN x.imports}
        cfg     == IF x.large THEN {CFG_DISPATCH_PTR_RVA} ELSE {}
        written == UNION {{a, a + 1} : a \in slots \cup Targets(x) \cup cfg}
    IN  ({2, 3} \subseteq {t - 4 : t \in Targets(x)}) \/
        /\ pe_parse(pe)
        /\ \A i \in DOMAIN x.imports :
              Read(Slot + 2 * (i - 1)) = IF x.imports[i] = "known" THEN ApiAt ELSE STUB
        /\ \A t \in Targets(x) :
              Read(t) = (FileCell(pe, t) + CELL * FileCell(pe, t + 1) + at - Base) % WIDE
        /\ \A a \in cfg : Read(a) = TRAMPOLINE
        /\ \A a \in (0..(pe.size - 1)) \ written : dll.mem[a] = FileCell(pe, a)
        /\ \A a \in 0..(pe.size - 1), i \in DOMAIN pe.sects :
              Holds(pe.sects[i], a) => dll.prot[a \div PAGE] = pe.sects[i].prot
        /\ dll.prot[0] = "none"
        /\ \A i \in DOMAIN x.addrs :
              x.addrs[i] \notin {12, 13} => find_dll_export(dll, <<i>>) = at + x.addrs[i]
=============================================================================
