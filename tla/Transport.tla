----------------------------- MODULE Transport -----------------------------
(***************************************************************************)
(* The computations of HidInterfaces and DllImage over all inputs within   *)
(* the bounds: a state is one input, and what the code makes of it is      *)
(* compared with what it should.                                           *)
(***************************************************************************)
EXTENDS HidInterfaces, DllImage

CONSTANTS MaxItems,    \* bound: items of a descriptor
          MaxNodes,    \* bound: hidraw nodes
          MaxOpens,    \* bound: handles opened
          MaxEntries,  \* bound: imports and relocations of a DLL
          Bases        \* where mmap may place a DLL

ASSUME TransportAssumption ==
    /\ {MaxItems, MaxNodes, MaxOpens, MaxEntries} \subseteq Nat
    /\ Bases \subseteq Nat

VARIABLE input

Upto(n, S) == UNION {[1..k -> S] : k \in 0..n}

Init == input = [what |-> "start"]

ReadsItems    == \E s \in Upto(MaxItems, Items), c \in 0..1 :
                    input' = [what |-> "parse", items |-> s, cut |-> c]
LooksForNodes == \E fs \in Upto(MaxNodes, NodeKinds) : input' = [what |-> "detect", fs |-> fs]
OpensHandles  == \E s \in Upto(MaxOpens, Interfaces), k \in 0..1 :
                    input' = [what |-> "open",
                              opens |-> [i \in DOMAIN s |->
                                            [handle |-> IF k = 1 /\ i > 1 THEN i - 1 ELSE i,
                                             iface |-> s[i]]]]

(* Two sections anywhere in twelve cells, with more data than memory, less *)
(* or none.                                                                *)
Sections(first) ==
    {[off |-> o, size |-> n, data |-> [k \in 1..d |-> first + k], prot |-> "r"] :
        o \in {0, 4, 8}, n \in {0, 1, 3, 4}, d \in {0, 2, 4, 5}}
CopiesMemory  == \E s \in Sections(0), t \in Sections(10) :
                    input' = [what |-> "copy",
                              pe |-> [sects |-> <<s, t>>, size |-> 12, desired_base |-> 0,
                                      blocks |-> <<>>, libs |-> <<>>,
                                      exports |-> [off |-> 0, size |-> 0, addrs |-> <<>>, names |-> <<>>]]]
LoadsDll      == \E i \in Upto(MaxEntries, ImportKinds), r \in Upto(MaxEntries, RelocKinds),
                    large, split \in BOOLEAN, a \in {<<>>, <<5>>, <<5, 17>>, <<5, 13>>}, at \in Bases :
                    input' = [what |-> "load", at |-> at,
                              x |-> [imports |-> i, relocs |-> r, large |-> large,
                                     split |-> split, addrs |-> a]]

Next ==
    /\ input.what = "start"
    /\ ReadsItems \/ LooksForNodes \/ OpensHandles
       \/ CopiesMemory \/ LoadsDll

Spec == Init /\ [][Next]_input

(* The sensor's channels are told apart the same way everywhere:           *)
(* parse_report_descriptor, the three searches of hidraw_detect.c for any  *)
(* order of nodes, the caps the DLL reads and the handles it opens.        *)
InterfacesSound ==
    /\ input.what = "parse"  => ParseSound(input.items, input.cut)
    /\ input.what = "detect" => DetectSound(input.fs)
    /\ input.what = "open"   => HandlesSound(input.opens)
    /\ \A i \in Interfaces : CapsSound(i)

(* A DLL in memory is what its file says it is: pe_copy_mem across         *)
(* sections, gaps and data that end early or late, and load_dll with any   *)
(* mixture of imports, relocations and exports, below or above the base    *)
(* the DLL was linked for: see CopySound and LoadSound.                    *)
ImageSound ==
    /\ input.what = "copy" => CopySound(input.pe)
    /\ input.what = "load" => LoadSound(input.x, input.at)
=============================================================================
