------------------------------ MODULE McfgScan -------------------------------
(***************************************************************************)
(* The scan of the carrier configurations on the modem's file system       *)
(* (pdc_locate.c), which pdc_start runs before it asks the modem anything. *)
(*                                                                         *)
(* loop_through_directory finds the mcfg_sw.mbn files one by one; each is  *)
(* read into file_in_buff, checked, and walked item by item; its footer    *)
(* is walked section by section for the network and the profile name. The  *)
(* buffer, the header pointer and the tables are globals that go from one  *)
(* file to the next. A file's structure is given here, its bytes are not.  *)
(***************************************************************************)
EXTENDS Integers, Sequences, FiniteSets

CONSTANTS
  Directories,          \* sequences of files the scan may meet
  Names,                \* internal_name: profile names, and
  NoName,               \* what calloc leaves
  MAX_FOOTER_SECTIONS

Word       == 65536     \* guint16 nv_items[].offset, .size
Byte       == 256       \* guint8 mcc, mnc
FileHeader == 24        \* sizeof(mcfg_file_header) + sizeof(mcfg_sub_version_data)
ItemHeader == 8         \* sizeof(struct mcfg_item)
Part       == 4         \* sizeof(struct mcfg_nvitem), of mcfg_nvfile_part
Footer     == 20        \* sizeof(struct mcfg_footer)
Proto      == 3         \* sizeof(struct mcfg_footer_proto)
Blob       == 64        \* MAX_OBJ_SIZE: nv_items[].blob, footer_items[].blob
FileName   == 256       \* efsfilenametmp
NameRoom   == 128       \* internal_name

Items == [type : {"NV", "UNKNOWN", "NVFILE", "FILE", "FOOT", "OTHER"},
          len : Nat, contents : Nat]
SectionIds == {"VERSION_1", "VERSION_2", "MCC_MNC", "PROFILE_NAME", "ALLOWED_ICCIDS",
               "CARRIER_VERSION_ID", "OTHER"}
Sections == [id : SectionIds, len : Nat, mcc : Nat, mnc : Nat, name : Names, chars : Nat]

\* max_obj_size
Limit(f) == f.footer.len - f.footer.padded - 4

-----------------------------------------------------------------------------
(* The files, as the modem's vendor builds them.                           *)

\* A record is its header, the headers of its parts and what they hold: a value
\* of len bytes, or a file with a name of len bytes and its contents.
ItemExtent(item) ==
  8 + item.len + item.contents + (IF item.type \in {"NVFILE", "FILE"} THEN 8 ELSE 4)

\* A section is its header and its data, which take a byte at least.
SectionExtent(s) == 3 + (IF s.len = 0 THEN 1 ELSE s.len)

\* start[k] is where the k-th record begins, the last where the records end.
Increasing(start) == \A j, k \in DOMAIN start : j < k => start[j] < start[k]

\* A footer is longer than its own header, says where it ends, and holds at most
\* one name. It need not be the last item, but one that is not is a whole footer.
WellFormed(f) ==
  LET its == f.items
      secs == f.footer.sections IN
  /\ {f.p_offset, f.carrier_id, f.footer.len, f.footer.padded} \subseteq Nat
  /\ its \in Seq(Items) /\ f.start \in Seq(Nat) /\ Len(f.start) = Len(its) + 1
  /\ f.start[1] = f.p_offset + FileHeader
  /\ Increasing(f.start)
  /\ \A k \in DOMAIN its :
       /\ its[k].type \in {"NV", "UNKNOWN"} => its[k].contents = 0
       /\ its[k].type \in {"NV", "UNKNOWN", "NVFILE", "FILE"} =>
            f.start[k + 1] = f.start[k] + ItemExtent(its[k])
       /\ its[k].type = "FOOT" =>
            /\ f.start[k + 1] > f.start[k] + ItemHeader
            /\ f.footer.refused => k = Len(its)
  /\ secs \in Seq(Sections) \ {<< >>}
  /\ f.footer.start \in Seq(Nat) /\ Len(f.footer.start) = Len(secs) + 1
  /\ f.footer.start[1] = Footer
  /\ Increasing(f.footer.start)
  /\ \A k \in DOMAIN secs :
       f.footer.start[k + 1] = f.footer.start[k] + SectionExtent(secs[k])
  /\ \A j, k \in DOMAIN secs :
       secs[j].id = "PROFILE_NAME" /\ secs[k].id = "PROFILE_NAME" => j = k
  /\ f.footer.start[Len(secs)] < Limit(f) /\ Limit(f) <= f.footer.start[Len(secs) + 1]

IsDirectory(d) ==
  /\ Len(d) \in Nat /\ DOMAIN d = 1 .. Len(d)
  /\ \A k \in DOMAIN d : WellFormed(d[k])

ASSUME McfgAssumption ==
  /\ MAX_FOOTER_SECTIONS \in Nat \ {0}
  /\ NoName \in Names
  /\ \A d \in Directories : IsDirectory(d)

VARIABLES
  files,              \* the files, in the order the directories list them
  n,                  \* files met so far
  phase,              \* where the scan is
  live,               \* files whose buffer is allocated
  head,               \* the file mcfg_head_in and ph2_in point into
  i,                  \* items handled
  current_offset,
  input_nvitems_size,
  footer_items,       \* sections handled: their ids and sizes
  curr_obj_offset,
  sec3,               \* whether sec3 was set in this footer
  info,               \* is_valid, mcc, mnc, carrier_id and internal_name
  file_infos          \* what the scan reports

items == <<i, current_offset, input_nvitems_size>>
sections == <<footer_items, curr_obj_offset, sec3>>
vars == <<files, n, phase, live, head, items, sections, info, file_infos>>

Infos == [is_valid : BOOLEAN, mcc : Nat, mnc : Nat, carrier_id : Nat,
          internal_name : Names]
NoInfo == [is_valid |-> FALSE, mcc |-> 0, mnc |-> 0, carrier_id |-> 0,
           internal_name |-> NoName]

\* Mutant: mcc and mnc are not cleared for the next file.
Cleared_KeepsNetwork(told) == [NoInfo EXCEPT !.mcc = told.mcc, !.mnc = told.mnc]

\* What check_file_header makes of the last file's results.
Cleared(told) == NoInfo

Init ==
  /\ files \in Directories
  /\ n = 0 /\ phase = "next"
  /\ live = {} /\ head = 0
  /\ i = 0 /\ current_offset = 0 /\ input_nvitems_size = 0
  /\ footer_items = << >> /\ curr_obj_offset = 0 /\ sec3 = FALSE
  /\ info = NoInfo /\ file_infos = << >>

-----------------------------------------------------------------------------
(* check_file_header and check_input_file.                                 *)

Report(entry) == file_infos' = Append(file_infos, entry) /\ phase' = "next"

NextFile == phase = "next" /\ n < Len(files) /\ n' = n + 1

\* "Error opening input file"
OpenFails ==
  /\ NextFile
  /\ ~files[n'].opens
  /\ info' = Cleared(info)
  /\ Report(info')
  /\ UNCHANGED <<files, live, head, items, sections>>

\* No ELF or no room for it ("ELF"), no MCFG magic or a hardware configuration
\* ("MCFG"): the buffer stays allocated.
Refuse ==
  /\ NextFile
  /\ files[n'].opens /\ files[n'].refused \in {"ELF", "MCFG"}
  /\ live' = live \cup {n'}
  /\ head' = IF files[n'].refused = "MCFG" THEN n' ELSE head
  /\ info' = Cleared(info)
  /\ Report(info')
  /\ UNCHANGED <<files, items, sections>>

\* "File is OK!", and process_nv_configuration_data sets out.
Accept ==
  /\ NextFile
  /\ files[n'].opens /\ files[n'].refused = "no"
  /\ live' = live \cup {n'}
  /\ head' = n'
  /\ info' = [Cleared(info) EXCEPT !.carrier_id = files[n'].carrier_id]
  /\ i' = 0
  /\ current_offset' = files[head'].p_offset + FileHeader
  /\ input_nvitems_size' = 0
  /\ phase' = "items"
  /\ UNCHANGED <<files, sections, file_infos>>

-----------------------------------------------------------------------------
(* process_nv_configuration_data.                                          *)

\* uint16_t num_items = mcfg_head_in->no_of_items
NumItems(f) == Len(f.items) % Word

\* The header of item k is under the cursor.
AtItem(k) ==
  /\ phase = "items"
  /\ k \in DOMAIN files[head].items
  /\ i < NumItems(files[head])
  /\ current_offset = files[head].start[k]

\* What the code passes behind the header of an item.
Body(item) ==
  CASE item.type \in {"NV", "UNKNOWN"} -> Part + item.len
    [] item.type \in {"NVFILE", "FILE"} -> (Part + item.len) + (Part + item.contents)
    [] OTHER -> 0

\* Mutant: the header of the item is not passed.
ItemEnd_NoHeader(from, item) == from + Body(item)

\* current_offset += ..., for the header and what follows it.
ItemEnd(from, item) == from + ItemHeader + Body(item)

\* Mutant: the size is kept in more bits than the offset.
ItemSize_Wide(before, after) == after - (before % Word)

\* nv_items[i].size = current_offset - nv_items[i].offset, both sixteen bits.
ItemSize(before, after) == (after - (before % Word)) % Word

\* An item is copied into its blob, a file's name into efsfilenametmp.
ItemOverruns(item, size) ==
  \/ item.type \in {"NV", "UNKNOWN"} /\ size > Blob
  \/ item.type \in {"NVFILE", "FILE"} /\ item.len >= FileName

ReadItem(k) ==
  /\ AtItem(k)
  /\ files[head].items[k].type \in {"NV", "UNKNOWN", "NVFILE", "FILE"}
  /\ i' = i + 1
  /\ current_offset' = ItemEnd(current_offset, files[head].items[k])
  /\ input_nvitems_size' = input_nvitems_size + ItemSize(current_offset, current_offset')
  /\ UNCHANGED <<files, n, phase, live, head, sections, info, file_infos>>

Crash ==
  /\ phase' = "crashed"
  /\ UNCHANGED <<files, n, live, head, items, sections, info, file_infos>>

\* The copy of ReadItem runs over its array on the stack: the scan may go on as
\* if it had not, or be lost.
OverrunItem(k) ==
  LET item == files[head].items[k] IN
  /\ AtItem(k)
  /\ ItemOverruns(item, ItemSize(current_offset, ItemEnd(current_offset, item)))
  /\ Crash

\* "Don't know how to handle NV data type": the buffer stays allocated.
UnknownItem(k) ==
  /\ AtItem(k)
  /\ files[head].items[k].type = "OTHER"
  /\ Report(info)
  /\ UNCHANGED <<files, n, live, head, items, sections, info>>

\* "There's more stuff beyond the footer": the loop goes on inside the footer, and
\* takes the M of MCFG_TRL for the type of an item, which it does not know.
InsideFooter ==
  /\ phase = "items"
  /\ i \in 1 .. NumItems(files[head]) - 1 /\ files[head].items[i].type = "FOOT"
  /\ Report(info)
  /\ UNCHANGED <<files, n, live, head, items, sections, info>>

\* Mutant: the buffer is kept.
EndItems_Keeps ==
  /\ phase = "items" /\ i = NumItems(files[head])
  /\ info' = [info EXCEPT !.is_valid = TRUE]
  /\ Report(info')
  /\ UNCHANGED <<files, n, live, head, items, sections>>

\* All items were handled: the buffer is freed.
EndItems ==
  /\ phase = "items" /\ i = NumItems(files[head])
  /\ info' = [info EXCEPT !.is_valid = TRUE]
  /\ Report(info')
  /\ live' = live \ {n}
  /\ UNCHANGED <<files, n, head, items, sections>>

-----------------------------------------------------------------------------
(* analyze_footer; what it returns is not looked at.                       *)

\* Only the call of analyze_footer is rewound to the footer's beginning.
MeetFooter(k) ==
  /\ AtItem(k)
  /\ files[head].items[k].type = "FOOT"
  /\ i' = i + 1 /\ current_offset' = current_offset + ItemHeader
  /\ footer_items' = << >>
  /\ sec3' = FALSE
  /\ IF files[head].footer.refused
     THEN UNCHANGED <<phase, curr_obj_offset>>
     ELSE phase' = "footer" /\ curr_obj_offset' = Footer
  /\ UNCHANGED <<files, n, live, head, input_nvitems_size, info, file_infos>>

AtSection(k) ==
  /\ phase = "footer"
  /\ k \in DOMAIN files[head].footer.sections
  /\ curr_obj_offset = files[head].footer.start[k]

\* "Exceeded maximum number of sections for the footer"
TooManySections ==
  /\ phase = "footer"
  /\ Len(footer_items) >= MAX_FOOTER_SECTIONS
  /\ phase' = "items"
  /\ UNCHANGED <<files, n, live, head, items, sections, info, file_infos>>

\* What a section tells; mcc and mnc are kept in a byte each.
Tell(told, s, name) ==
  CASE s.id = "MCC_MNC" -> [told EXCEPT !.mcc = s.mcc % Byte, !.mnc = s.mnc % Byte]
    [] s.id = "PROFILE_NAME" -> [told EXCEPT !.internal_name = name]
    [] OTHER -> told

\* A name that fills internal_name is read on into what lies behind it.
Copied(s) == IF s.chars < NameRoom THEN {s.name} ELSE Names

\* "if (proto->len == 0) curr_obj_offset++": an empty section has a pad byte.
Stride(section) == Proto + section.len + IF section.len = 0 THEN 1 ELSE 0

\* Mutant: the pad byte of an empty section is not passed.
SectionEnd_NoPad(from, s) == from + Proto + s.len

\* curr_obj_offset += ...
SectionEnd(from, s) == from + Stride(s)

ReadSection(k) ==
  LET s == files[head].footer.sections[k] IN
  /\ AtSection(k)
  /\ Len(footer_items) < MAX_FOOTER_SECTIONS
  /\ \E name \in Copied(s) : info' = Tell(info, s, name)
  /\ sec3' = (sec3 \/ s.id = "PROFILE_NAME")
  /\ curr_obj_offset' = SectionEnd(curr_obj_offset, s)
  /\ footer_items' = Append(footer_items, [id |-> s.id, size |-> curr_obj_offset' - curr_obj_offset])
  /\ phase' = IF curr_obj_offset' >= Limit(files[head]) THEN "items" ELSE "footer"
  /\ UNCHANGED <<files, n, live, head, items, file_infos>>

\* The name is copied without a look at its length, and the section into a blob.
SectionOverruns(s) ==
  \/ Stride(s) > Blob
  \/ s.id = "PROFILE_NAME" /\ s.chars >= NameRoom

OverrunSection(k) ==
  /\ AtSection(k)
  /\ Len(footer_items) < MAX_FOOTER_SECTIONS
  /\ SectionOverruns(files[head].footer.sections[k])
  /\ Crash

\* Mutant: a name that came before does not help.
UnsetName_Always(k) ==
  /\ AtSection(k)
  /\ Len(footer_items) < MAX_FOOTER_SECTIONS
  /\ files[head].footer.sections[k].id = "OTHER"
  /\ Crash

\* A section of no known kind is reported together with the name that sec3
\* points to, whatever sec3 holds when no name came before.
UnsetName(k) ==
  /\ AtSection(k)
  /\ Len(footer_items) < MAX_FOOTER_SECTIONS
  /\ files[head].footer.sections[k].id = "OTHER" /\ ~sec3
  /\ Crash

-----------------------------------------------------------------------------
Next ==
  \/ OpenFails \/ Refuse \/ Accept \/ EndItems \/ InsideFooter \/ TooManySections
  \/ phase = "items" /\ \E k \in DOMAIN files[head].items :
       ReadItem(k) \/ OverrunItem(k) \/ UnknownItem(k) \/ MeetFooter(k)
  \/ phase = "footer" /\ \E k \in DOMAIN files[head].footer.sections :
       ReadSection(k) \/ OverrunSection(k) \/ UnsetName(k)

Spec == Init /\ [][Next]_vars

-----------------------------------------------------------------------------
Reading == phase \in {"items", "footer"}

\* The item under the cursor; a footer's cursor stands behind its header.
Item == IF i > 0 /\ files[head].items[i].type = "FOOT"
        THEN current_offset - ItemHeader ELSE current_offset

\* The items of a file are walked from beginning to beginning ...
ItemWalk == INSTANCE RecordWalk WITH
  walk     <- IF Reading THEN n ELSE 0,
  layout   <- IF Reading THEN files[head].start ELSE <<0>>,
  position <- IF Reading THEN Item ELSE 0
ImplementsItemWalk == ItemWalk!Spec

\* ... and so are the sections of its footer.
SectionWalk == INSTANCE RecordWalk WITH
  walk     <- IF phase = "footer" THEN n ELSE 0,
  layout   <- IF phase = "footer" THEN files[head].footer.start ELSE <<0>>,
  position <- IF phase = "footer" THEN curr_obj_offset ELSE 0
ImplementsSectionWalk == SectionWalk!Spec

Kind(f, k) == f.items[k].type
Readable(f) == f.opens /\ f.refused = "no"
LastOf(S, k) == k \in S /\ \A j \in S : j <= k

\* What the sections S of a file's footer say: the last network and the last name.
\* Of a network the report has a byte to hold each code, of a name so many letters.
Telling(f, S, id) == {k \in S : f.footer.sections[k].id = id}
TellsNetwork(f, S, entry) ==
  \/ Telling(f, S, "MCC_MNC") = {} /\ entry.mcc = 0 /\ entry.mnc = 0
  \/ \E k \in S :
       /\ LastOf(Telling(f, S, "MCC_MNC"), k)
       /\ entry.mcc % Byte = f.footer.sections[k].mcc % Byte
       /\ entry.mnc % Byte = f.footer.sections[k].mnc % Byte
TellsName(f, S, entry) ==
  \/ Telling(f, S, "PROFILE_NAME") = {} /\ entry.internal_name = NoName
  \/ \E k \in S :
       /\ LastOf(Telling(f, S, "PROFILE_NAME"), k)
       /\ f.footer.sections[k].chars < NameRoom =>
            entry.internal_name = f.footer.sections[k].name

\* The walk gets to item k when every item before it is of a known type, and none
\* is a footer. The footer it gets to counts, with the sections there is room for.
Reached(f, k) == \A j \in DOMAIN f.items : j < k => Kind(f, j) \notin {"OTHER", "FOOT"}
Whole(f) == \A k \in DOMAIN f.items : Kind(f, k) # "OTHER" /\ Reached(f, k)
HasFooter(f) == \E k \in DOMAIN f.items : Kind(f, k) = "FOOT" /\ Reached(f, k)
Sectioned(f) ==
  IF HasFooter(f) /\ ~f.footer.refused
  THEN {k \in DOMAIN f.footer.sections : k <= MAX_FOOTER_SECTIONS} ELSE {}

Tells(f, entry) ==
  IF Readable(f)
  THEN /\ entry.is_valid = Whole(f) /\ entry.carrier_id = f.carrier_id
       /\ TellsNetwork(f, Sectioned(f), entry) /\ TellsName(f, Sectioned(f), entry)
  ELSE entry = NoInfo

\* Every file met is reported once, in order, and the report is about it alone:
\* nothing is left over in the globals from the file before, and a file counts as
\* valid when the walk got to its end. (Said of files whose items can be counted
\* in sixteen bits, and of networks up to the byte that the report has for them.)
EntriesTellTheirFiles ==
  /\ \A k \in DOMAIN file_infos :
       Len(files[k].items) < Word => Tells(files[k], file_infos[k])
  /\ phase = "next" => Len(file_infos) = n

\* The header pointer, which outlives the buffers, is followed only into the buffer
\* of the file being read, and that buffer is allocated until the file is reported;
\* none of a file that proved valid stays behind.
BuffersInUse ==
  /\ Reading => head = n /\ n \in live
  /\ \A k \in DOMAIN file_infos : file_infos[k].is_valid => k \notin live

\* The sizes add up to the bytes walked, also where the sixteen bit offsets
\* have wrapped, as long as each item is smaller than sixteen bits can say.
Small(f) == \A k \in DOMAIN f.items :
  Kind(f, k) # "FOOT" => f.start[k + 1] - f.start[k] < Word
SizesSurviveTheWrap ==
  Reading /\ Small(files[head]) => input_nvitems_size = Item - files[head].start[1]

\* The files that the code has no room for: an item the walk gets to, or a section,
\* that is larger than its blob, or a name longer than its array.
Oversized(f) ==
  \/ \E k \in DOMAIN f.items :
       Reached(f, k) /\ ItemOverruns(f.items[k], f.start[k + 1] - f.start[k])
  \/ \E k \in Sectioned(f) : SectionOverruns(f.footer.sections[k])

\* The footer has a section of an unknown kind before its profile name.
Unnamed(f) ==
  \E k \in Sectioned(f) :
    /\ f.footer.sections[k].id = "OTHER"
    /\ \A j \in Telling(f, Sectioned(f), "PROFILE_NAME") : k < j

\* A scan that is lost was lost over a file that does not fit the arrays it is copied
\* to, or over an unknown section before the name: never over what the file before
\* left behind, or over a section that comes after the name.
CrashesOverTheFile == phase = "crashed" => Unnamed(files[n]) \/ Oversized(files[n])

\* The inductive strengthening: what the walk of the items and the walk of the
\* sections have behind them, and what info says of it.
InFooter == i > 0 /\ Kind(files[n], i) = "FOOT"
Handled == IF InFooter THEN 1 .. Len(footer_items) ELSE {}

ItemsInv ==
  LET f == files[n] IN
  /\ i \in 0 .. Len(f.items)
  /\ \A k \in 1 .. i : Kind(f, k) # "OTHER" /\ (Kind(f, k) = "FOOT" => k = i)
  /\ Item = IF InFooter THEN f.start[i] ELSE f.start[i + 1]
  /\ Small(f) => input_nvitems_size = Item - f.start[1]

SectionsInv ==
  LET f == files[n]
      s == Len(footer_items) IN
  /\ InFooter => s <= Len(f.footer.sections) /\ s <= MAX_FOOTER_SECTIONS
  /\ InFooter /\ f.footer.refused => s = 0
  /\ InFooter /\ ~f.footer.refused /\ phase = "items" =>
       s = Len(f.footer.sections) \/ s = MAX_FOOTER_SECTIONS
  /\ phase = "footer" =>
       /\ InFooter /\ ~f.footer.refused /\ s < Len(f.footer.sections)
       /\ curr_obj_offset = f.footer.start[s + 1]
       /\ sec3 = \E k \in 1 .. s : f.footer.sections[k].id = "PROFILE_NAME"

InfoInv ==
  /\ ~info.is_valid /\ info.carrier_id = files[n].carrier_id
  /\ TellsNetwork(files[n], Handled, info) /\ TellsName(files[n], Handled, info)

ScanInv ==
  /\ IsDirectory(files)
  /\ phase \in {"next", "items", "footer", "crashed"}
  /\ n \in 0 .. Len(files)
  /\ n = Len(file_infos) + (IF phase = "next" THEN 0 ELSE 1)
  /\ info \in Infos /\ file_infos \in Seq(Infos)
  /\ footer_items \in Seq([id : SectionIds, size : Int])
  /\ Reading => Readable(files[n]) /\ head = n /\ ItemsInv /\ SectionsInv /\ InfoInv
=============================================================================
