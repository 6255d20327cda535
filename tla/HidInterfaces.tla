--------------------------- MODULE HidInterfaces ---------------------------
(***************************************************************************)
(* Which hidraw nodes are the sensor's command and image channel           *)
(* (tudor/hidraw_detect.c), and what the HID shims tell the DLL about the  *)
(* two and about the handles it opens on them (winapi/hiddll.c,            *)
(* winapi/fileops.c).                                                      *)
(***************************************************************************)
EXTENDS Naturals, Sequences, FiniteSets, SequencesExt, FiniteSetsExt

CmdIds == {14, 15, 16, 17}  \* 0x0E, 0x0F, 0x10, 0x11
ImgIds == {12, 13, 32, 33}  \* 0x0C, 0x0D, 0x20, 0x21
FF00   == 65280             \* usage page 0xFF00
FF     == 255               \* usage page 0x00FF

-----------------------------------------------------------------------------
(* Report descriptors.  An item is its prefix byte and data bytes; a short *)
(* item's prefix says how many, a long item's first data byte does.        *)

(* External: the HID format.  Items that matter, items whose data look     *)
(* like ones that do, and a long item.                                     *)
Items ==
    {<<6, 0, 255>>, <<5, 255>>, <<5, 1>>, <<7, 0, 255, 0, 0>>}  \* usage pages
    \cup {<<133, r>> : r \in {14, 33, 1}} \cup {<<134, 15, 0>>}  \* report ids
    \cup {<<38, 133, 14>>, <<193, 6>>, <<254, 2, 16, 133, 15>>, <<192>>}

DataSize(prefix) == IF prefix % 4 = 3 THEN 4 ELSE prefix % 4
Tag(prefix)      == prefix - (prefix % 4)
Value(bytes)     == FoldRight(LAMBDA b, v : b + 256 * v, bytes, 0)

(* Mutant: a report id counts whatever the usage page. *)
mut_Noted(s, tag, value) ==
    LET rid == value % 256
    IN  CASE tag = 4   -> [s EXCEPT !.page = value % 2^16]
          [] tag = 132 -> [s EXCEPT !.cmd = @ \cup ({rid} \cap CmdIds),
                                    !.img = @ \cup ({rid} \cap ImgIds)]
          [] OTHER -> s

(* What one item adds, under the usage page that is current *)
Noted(s, tag, value) ==
    LET rid == value % 256
    IN  CASE tag = 4   -> [s EXCEPT !.page = value % 2^16]
          [] tag = 132 -> [s EXCEPT !.cmd = @ \cup (IF s.page = FF00 THEN {rid} \cap CmdIds ELSE {}),
                                    !.img = @ \cup (IF s.page \in {FF00, FF} THEN {rid} \cap ImgIds ELSE {})]
          [] OTHER -> s

(* parse_report_descriptor: the ids seen.  Parsing stops at an item whose  *)
(* data are missing.                                                       *)
parse_report_descriptor(desc) ==
    LET len == Len(desc)
        step[k \in 0..len] ==
            IF k = 0 THEN [i |-> 1, page |-> 0, cmd |-> {}, img |-> {}, stop |-> FALSE]
            ELSE LET s == step[k-1]
                     p == desc[s.i]
                     n == DataSize(p)
                     long == p = 254
                     cut  == s.i + (IF long THEN 1 ELSE n) > len
                 IN  IF s.stop \/ s.i > len THEN s
                     ELSE IF cut THEN [s EXCEPT !.stop = TRUE]
                     ELSE IF long THEN [s EXCEPT !.i = @ + 3 + desc[s.i + 1]]
                     ELSE [Noted(s, Tag(p), Value(SubSeq(desc, s.i + 1, s.i + n)))
                              EXCEPT !.i = s.i + 1 + n]
    IN  [cmd |-> step[len].cmd, img |-> step[len].img]

(* The ids a descriptor declares, by its items: each under the usage page  *)
(* set last before it.                                                     *)
Is(item, tag)  == item[1] # 254 /\ Tag(item[1]) = tag
ValueOf(item)  == Value(Tail(item))
Page(items, i) ==
    LET pages == {j \in 1..(i-1) : Is(items[j], 4)}
    IN  IF pages = {} THEN 0 ELSE ValueOf(items[Max(pages)]) % 2^16
Declared(items, pages) ==
    {ValueOf(items[i]) % 256 : i \in {i \in DOMAIN items : Is(items[i], 132) /\ Page(items, i) \in pages}}

(* Parsing bytes finds exactly what the items declare: data bytes are      *)
(* never taken for items, and a last item that is cut off is ignored.      *)
ParseSound(items, cut) ==
    LET bytes == FlattenSeq(items)
        whole == IF cut = 0 THEN items ELSE Front(items)
        r     == parse_report_descriptor(SubSeq(bytes, 1, Len(bytes) - cut))
    IN  (cut = 0 \/ (items # <<>> /\ Len(Last(items)) > cut)) =>
            /\ r.cmd = Declared(whole, {FF00}) \cap CmdIds
            /\ r.img = Declared(whole, {FF00, FF}) \cap ImgIds

-----------------------------------------------------------------------------
(* hidraw nodes in the order readdir gives them.  Over USB the keyboard    *)
(* has a command, an image and a keys node; over Bluetooth one node that   *)
(* is all of them.  Other devices may be attached, before or after.        *)
NodeKinds == {"command", "image", "keys", "bluetooth", "mouse", "scanner"}

check_hid_id(fs, i) == fs[i] \in {"command", "image", "keys", "bluetooth"}

(* External: the descriptors of such nodes.  The keys share a node with    *)
(* everything over Bluetooth; a scanner is no keyboard of this kind.       *)
Descriptor(kind) ==
    LET Ids(S) == [i \in 1..Cardinality(S) |-> <<133, SetToSeq(S)[i]>>]
        keys   == <<<<5, 1>>, <<133, 1>>>>
        cmd    == <<<<6, 0, 255>>>> \o Ids(CmdIds)
        img    == <<<<5, 255>>>> \o Ids(ImgIds)
    IN  CASE kind = "command"   -> cmd
          [] kind = "image"     -> img
          [] kind = "bluetooth" -> keys \o cmd \o img
          [] kind = "scanner"   -> <<<<6, 0, 255>>>> \o Ids(ImgIds)
          [] OTHER -> keys

check_report_descriptor == [k \in NodeKinds |-> parse_report_descriptor(FlattenSeq(Descriptor(k)))]

has_cmd_reports(fs, i) == CmdIds \subseteq check_report_descriptor[fs[i]].cmd
has_img_reports(fs, i) == ImgIds \subseteq check_report_descriptor[fs[i]].img

hidraw_is_fp_command_channel(fs, i) == check_hid_id(fs, i) /\ has_cmd_reports(fs, i)

(* External: sysfs makes .../hidrawN/device a relative link of the form    *)
(* ../../../<device>, of which the code compares what precedes the last    *)
(* slash.                                                                  *)
LinkPrefix(fs, i)   == "../../.."
SameParent(fs, i, j) == LinkPrefix(fs, i) = LinkPrefix(fs, j)

NoNode == 0
FirstNode(fs, Test(_)) == LET S == {i \in DOMAIN fs : Test(i)} IN IF S = {} THEN NoNode ELSE Min(S)

hidraw_find_image_partner(fs, c) ==
    IF has_img_reports(fs, c) THEN c
    ELSE FirstNode(fs, LAMBDA i : i # c /\ SameParent(fs, c, i) /\ has_img_reports(fs, i))

hidraw_find_fp_command_sibling(fs, a) ==
    IF hidraw_is_fp_command_channel(fs, a) THEN a
    ELSE FirstNode(fs, LAMBDA i : i # a /\ SameParent(fs, a, i) /\ hidraw_is_fp_command_channel(fs, i))

hidraw_autodetect(fs) ==
    LET cmd == FirstNode(fs, LAMBDA i : check_hid_id(fs, i) /\ has_cmd_reports(fs, i))
        img == FirstNode(fs, LAMBDA i : check_hid_id(fs, i) /\ has_img_reports(fs, i))
    IN  [cmd |-> cmd, img |-> IF img = NoNode THEN cmd ELSE img]

(* One keyboard, and nothing else that declares image reports: the image   *)
(* partner is looked for among all nodes, and its ids are not checked.     *)
OneSensor(fs) ==
    /\ \A i \in DOMAIN fs : fs[i] # "scanner"
    /\ \A i, j \in DOMAIN fs :
          (i # j /\ check_hid_id(fs, i) /\ check_hid_id(fs, j)) =>
              (fs[i] # fs[j] /\ fs[i] # "bluetooth")

(* From whichever node libfprint names, the module finds the channels the  *)
(* command line tool finds by itself.                                      *)
DetectSound(fs) ==
    OneSensor(fs) =>
        LET auto == hidraw_autodetect(fs)
        IN  /\ \A a \in DOMAIN fs : hidraw_find_fp_command_sibling(fs, a) = auto.cmd
            /\ (auto.cmd # NoNode /\ \E i \in DOMAIN fs : has_img_reports(fs, i)) =>
                   hidraw_find_image_partner(fs, auto.cmd) = auto.img

-----------------------------------------------------------------------------
(* What the DLL is told of the two interfaces *)
Interfaces == {"cmd", "img"}
Types      == {"input", "output", "feature"}

HidP_GetCaps(iface) ==
    IF iface = "img"
    THEN [bytes |-> [t \in Types |-> 64],
          caps  |-> [t \in Types |-> IF t = "feature" THEN 2 ELSE 1]]
    ELSE [bytes |-> [t \in Types |-> IF t = "input" THEN 64 ELSE 20],
          caps  |-> [t \in Types |-> IF t = "input" THEN 2 ELSE 1]]

(* The value caps written to an array of room entries: all or none *)
HidP_GetValueCaps(iface, type, room) ==
    LET Cap(id, n) == [id |-> id, count |-> n]
        all == CASE iface = "img" /\ type = "input"   -> <<Cap(33, 63)>>
                 [] iface = "img" /\ type = "output"  -> <<Cap(32, 63)>>
                 [] iface = "img" /\ type = "feature" -> <<Cap(12, 63), Cap(13, 63)>>
                 [] iface = "cmd" /\ type = "input"   -> <<Cap(15, 63), Cap(16, 19)>>
                 [] iface = "cmd" /\ type = "output"  -> <<Cap(14, 19)>>
                 [] iface = "cmd" /\ type = "feature" -> <<Cap(17, 19)>>
    IN  IF room >= Len(all) THEN all ELSE <<>>

(* The DLL's table of handles, as long as it has room *)
MAX_HID_HANDLES == 8
hid_register_handle(table, h, iface) ==
    IF Len(table) < MAX_HID_HANDLES THEN Append(table, [handle |-> h, iface |-> iface]) ELSE table

(* CreateFileA, CreateFileW: the interface follows from the path. *)
CreateFiles(opens) ==
    FoldLeft(LAMBDA t, o : hid_register_handle(t, o.handle, o.iface), <<>>, opens)

hid_get_handle_type(table, h) ==
    LET i == SelectInSeq(table, LAMBDA e : e.handle = h)
    IN  IF i = 0 THEN "cmd" ELSE table[i].iface

(* An array of the size GetCaps announces holds the caps of every report   *)
(* the parser asks of that channel, and no report is longer than announced *)
CapsSound(iface) ==
    LET c == HidP_GetCaps(iface)
        V(t) == HidP_GetValueCaps(iface, t, c.caps[t])
    IN  /\ UNION {{V(t)[i].id : i \in DOMAIN V(t)} : t \in Types}
              = IF iface = "img" THEN ImgIds ELSE CmdIds
        /\ \A t \in Types : 1 + Max({V(t)[i].count : i \in DOMAIN V(t)}) = c.bytes[t]

(* As long as no handle's address is used again and the table has room,    *)
(* every handle leads to the interface it was opened on.  Entries are      *)
(* never removed, so both ends some time.                                  *)
HandlesSound(opens) ==
    (IsInjective([i \in DOMAIN opens |-> opens[i].handle]) /\ Len(opens) <= MAX_HID_HANDLES) =>
        \A i \in DOMAIN opens :
            hid_get_handle_type(CreateFiles(opens), opens[i].handle) = opens[i].iface
=============================================================================
