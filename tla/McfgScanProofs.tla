--------------------------- MODULE McfgScanProofs ---------------------------
(***************************************************************************)
(* Proofs about McfgScan, for every directory of well-formed files and     *)
(* every room in the footer table: the walks stay on the records, the      *)
(* report is true of each file, and no freed buffer is looked at.          *)
(***************************************************************************)
EXTENDS McfgScan, TLAPS

Inv == ScanInv /\ EntriesTellTheirFiles /\ BuffersInUse /\ CrashesOverTheFile

-----------------------------------------------------------------------------
(* Facts about files.                                                      *)

\* The code passes what the records are made of.
LEMMA ExtentsAgree ==
  /\ \A item \in Items :
       /\ item.type \in {"NV", "UNKNOWN"} /\ item.contents = 0 =>
            ItemExtent(item) = ItemHeader + Body(item)
       /\ item.type \in {"NVFILE", "FILE"} => ItemExtent(item) = ItemHeader + Body(item)
  /\ \A x \in Sections : SectionExtent(x) = Stride(x)
<1>1. ASSUME NEW item \in Items
      PROVE  /\ item.type \in {"NV", "UNKNOWN"} /\ item.contents = 0 =>
                  ItemExtent(item) = ItemHeader + Body(item)
             /\ item.type \in {"NVFILE", "FILE"} => ItemExtent(item) = ItemHeader + Body(item)
  <2>1. item.len \in Nat /\ item.contents \in Nat
    BY DEF Items
  <2> QED
    BY <2>1 DEF ItemExtent, ItemHeader, Body, Part
<1>2. ASSUME NEW x \in Sections PROVE SectionExtent(x) = Stride(x)
  <2>1. x.len \in Nat
    BY DEF Sections
  <2> QED
    BY <2>1 DEF SectionExtent, Stride, Proto
<1> QED
  BY <1>1, <1>2

LEMMA FileFacts ==
  ASSUME NEW f, WellFormed(f)
  PROVE  /\ Len(f.items) \in Nat /\ DOMAIN f.items = 1 .. Len(f.items)
         /\ \A k \in 1 .. Len(f.items) : f.items[k] \in Items
         /\ \A k \in 1 .. Len(f.items) + 1 : f.start[k] \in Nat
         /\ \A j, k \in 1 .. Len(f.items) + 1 : j < k => f.start[j] < f.start[k]
         /\ f.start[1] = f.p_offset + FileHeader
         /\ f.p_offset \in Nat /\ f.carrier_id \in Nat /\ Limit(f) \in Int
         /\ Len(f.start) = Len(f.items) + 1
<1>1. /\ Len(f.items) \in Nat /\ DOMAIN f.items = 1 .. Len(f.items)
      /\ \A k \in 1 .. Len(f.items) : f.items[k] \in Items
  <2>1. f.items \in Seq(Items)
    BY DEF WellFormed
  <2> QED
    BY <2>1
<1>2. DOMAIN f.start = 1 .. Len(f.items) + 1 /\ Len(f.start) = Len(f.items) + 1
  BY <1>1 DEF WellFormed
<1>3. \A k \in 1 .. Len(f.items) + 1 : f.start[k] \in Nat
  <2>1. f.start \in Seq(Nat)
    BY DEF WellFormed
  <2> QED
    BY <1>2, <2>1
<1>4. \A j, k \in 1 .. Len(f.items) + 1 : j < k => f.start[j] < f.start[k]
  BY <1>2 DEF WellFormed, Increasing
<1>5. /\ f.start[1] = f.p_offset + FileHeader
      /\ f.p_offset \in Nat /\ f.carrier_id \in Nat
      /\ f.footer.len \in Nat /\ f.footer.padded \in Nat
  BY DEF WellFormed
<1> QED
  BY <1>1, <1>2, <1>3, <1>4, <1>5 DEF Limit

LEMMA FooterFacts ==
  ASSUME NEW f, WellFormed(f)
  PROVE  LET m == Len(f.footer.sections) IN
         /\ m \in Nat \ {0} /\ DOMAIN f.footer.sections = 1 .. m
         /\ \A k \in 1 .. m : f.footer.sections[k] \in Sections
         /\ \A k \in 1 .. m + 1 : f.footer.start[k] \in Nat
         /\ \A j, k \in 1 .. m + 1 : j < k => f.footer.start[j] < f.footer.start[k]
         /\ \A k \in 1 .. m :
              f.footer.start[k + 1] = f.footer.start[k] + Stride(f.footer.sections[k])
         /\ f.footer.start[1] = Footer
         /\ f.footer.start[m] < Limit(f) /\ Limit(f) <= f.footer.start[m + 1]
         /\ Len(f.footer.start) = m + 1
<1> DEFINE m == Len(f.footer.sections)
<1>1. /\ m \in Nat \ {0} /\ DOMAIN f.footer.sections = 1 .. m
      /\ \A k \in 1 .. m : f.footer.sections[k] \in Sections
  <2>1. f.footer.sections \in Seq(Sections) /\ f.footer.sections # << >>
    BY DEF WellFormed
  <2> QED
    BY <2>1
<1>2. DOMAIN f.footer.start = 1 .. m + 1 /\ Len(f.footer.start) = m + 1
  BY <1>1 DEF WellFormed
<1>3. \A k \in 1 .. m + 1 : f.footer.start[k] \in Nat
  <2>1. f.footer.start \in Seq(Nat)
    BY DEF WellFormed
  <2> QED
    BY <1>2, <2>1
<1>4. \A j, k \in 1 .. m + 1 : j < k => f.footer.start[j] < f.footer.start[k]
  BY <1>2 DEF WellFormed, Increasing
<1>5. /\ \A k \in 1 .. m :
           f.footer.start[k + 1] = f.footer.start[k] + SectionExtent(f.footer.sections[k])
      /\ f.footer.start[1] = Footer
      /\ f.footer.start[m] < Limit(f) /\ Limit(f) <= f.footer.start[m + 1]
  BY <1>1 DEF WellFormed
<1>6. \A k \in 1 .. m :
        f.footer.start[k + 1] = f.footer.start[k] + Stride(f.footer.sections[k])
  BY <1>1, <1>5, ExtentsAgree
<1> QED
  BY <1>1, <1>2, <1>3, <1>4, <1>5, <1>6

\* The first item follows the file's header.
LEMMA FirstItem ==
  ASSUME NEW f, WellFormed(f)
  PROVE  /\ Len(f.items) \in Nat /\ f.start[1] = f.p_offset + FileHeader
         /\ f.start[1] \in Nat /\ f.carrier_id \in Nat
<1>1. /\ Len(f.items) \in Nat /\ \A k \in 1 .. Len(f.items) + 1 : f.start[k] \in Nat
      /\ f.start[1] = f.p_offset + FileHeader /\ f.carrier_id \in Nat
  BY FileFacts
<1>2. 1 \in 1 .. Len(f.items) + 1
  BY <1>1
<1> QED
  BY <1>1, <1>2

\* An item of a known kind is as long as the code takes it to be.
LEMMA ItemFacts ==
  ASSUME NEW f, WellFormed(f), NEW k \in 1 .. Len(f.items)
  PROVE  /\ f.items[k].type = "FOOT" =>
              /\ f.start[k + 1] > f.start[k] + ItemHeader
              /\ f.footer.refused => k = Len(f.items)
         /\ f.items[k].type \in {"NV", "UNKNOWN", "NVFILE", "FILE"} =>
              f.start[k + 1] = f.start[k] + (ItemHeader + Body(f.items[k]))
<1>1. k \in DOMAIN f.items /\ f.items[k] \in Items
  BY FileFacts
<1> QED
  BY <1>1, ExtentsAgree DEF WellFormed

\* The loop goes over the items that sixteen bits can count.
LEMMA ItemCount ==
  ASSUME NEW f, Len(f.items) \in Nat
  PROVE  /\ NumItems(f) \in Nat /\ NumItems(f) <= Len(f.items)
         /\ Len(f.items) < Word => NumItems(f) = Len(f.items)
<1> DEFINE count == Len(f.items)
<1> HIDE DEF count
<1>1. ASSUME count \in Nat
      PROVE  /\ count % Word \in Nat /\ count % Word <= count
             /\ count < Word => count % Word = count
  BY <1>1 DEF Word
<1> QED
  BY <1>1 DEF NumItems, count

LEMMA BodyTyped ==
  ASSUME NEW item \in Items, item.type \in {"NV", "UNKNOWN", "NVFILE", "FILE"}
  PROVE  Body(item) \in Nat
<1>1. item.len \in Nat /\ item.contents \in Nat
  BY DEF Items
<1>2. CASE item.type \in {"NV", "UNKNOWN"}
  BY <1>1, <1>2 DEF Body, Part
<1>3. CASE item.type \in {"NVFILE", "FILE"}
  BY <1>1, <1>3 DEF Body, Part
<1> QED
  BY <1>2, <1>3

\* What the sections tell after one more of them.
LEMMA NetworkGrows ==
  ASSUME NEW f, NEW s \in Nat, NEW entry \in Infos, f.footer.sections[s + 1] \in Sections,
         NEW name, TellsNetwork(f, 1 .. s, entry)
  PROVE  TellsNetwork(f, 1 .. s + 1, Tell(entry, f.footer.sections[s + 1], name))
<1> DEFINE x == f.footer.sections[s + 1]
           T(m) == Telling(f, 1 .. m, "MCC_MNC")
<1>1. CASE x.id = "MCC_MNC"
  <2>1. LastOf(T(s + 1), s + 1)
    BY <1>1 DEF LastOf, Telling
  <2>2. /\ Tell(entry, x, name).mcc % Byte = x.mcc % Byte
        /\ Tell(entry, x, name).mnc % Byte = x.mnc % Byte
    <3>0. x.mcc \in Nat /\ x.mnc \in Nat
      BY DEF Sections
    <3>1. Tell(entry, x, name) = [entry EXCEPT !.mcc = x.mcc % Byte, !.mnc = x.mnc % Byte]
      BY <1>1 DEF Tell
    <3>2. /\ Tell(entry, x, name).mcc = x.mcc % Byte
          /\ Tell(entry, x, name).mnc = x.mnc % Byte
      BY <3>1 DEF Infos
    <3> QED
      BY <3>0, <3>2 DEF Byte
  <2>3. s + 1 \in 1 .. s + 1
    OBVIOUS
  <2> DEFINE entry2 == Tell(entry, f.footer.sections[s + 1], name)
  <2>4. \E k \in 1 .. s + 1 :
          /\ LastOf(Telling(f, 1 .. s + 1, "MCC_MNC"), k)
          /\ entry2.mcc % Byte = f.footer.sections[k].mcc % Byte
          /\ entry2.mnc % Byte = f.footer.sections[k].mnc % Byte
    BY <2>1, <2>2, <2>3, Zenon
  <2> HIDE DEF entry2
  <2>5. TellsNetwork(f, 1 .. s + 1, entry2)
    BY ONLY <2>4, Zenon DEF TellsNetwork
  <2> QED
    BY <2>5 DEF entry2
<1>2. CASE x.id # "MCC_MNC"
  <2>1. T(s + 1) = T(s)
    BY <1>2 DEF Telling
  <2>2. Tell(entry, x, name).mcc = entry.mcc /\ Tell(entry, x, name).mnc = entry.mnc
    BY <1>2 DEF Tell, Infos
  <2>3. 1 .. s \subseteq 1 .. s + 1
    OBVIOUS
  <2> QED
    BY <2>1, <2>2, <2>3 DEF TellsNetwork
<1> QED
  BY <1>1, <1>2

LEMMA NameGrows ==
  ASSUME NEW f, NEW s \in Nat, NEW entry \in Infos, f.footer.sections[s + 1] \in Sections,
         NEW name \in Copied(f.footer.sections[s + 1]), TellsName(f, 1 .. s, entry)
  PROVE  TellsName(f, 1 .. s + 1, Tell(entry, f.footer.sections[s + 1], name))
<1> DEFINE x == f.footer.sections[s + 1]
           T(m) == Telling(f, 1 .. m, "PROFILE_NAME")
<1>1. CASE x.id = "PROFILE_NAME"
  <2>1. LastOf(T(s + 1), s + 1)
    BY <1>1 DEF LastOf, Telling
  <2>2. x.chars < NameRoom => Tell(entry, x, name).internal_name = x.name
    BY <1>1 DEF Tell, Infos, Copied
  <2>3. s + 1 \in 1 .. s + 1
    OBVIOUS
  <2> QED
    BY <2>1, <2>2, <2>3 DEF TellsName
<1>2. CASE x.id # "PROFILE_NAME"
  <2>1. T(s + 1) = T(s)
    BY <1>2 DEF Telling
  <2>2. Tell(entry, x, name).internal_name = entry.internal_name
    BY <1>2 DEF Tell, Infos
  <2>3. 1 .. s \subseteq 1 .. s + 1
    OBVIOUS
  <2> QED
    BY <2>1, <2>2, <2>3 DEF TellsName
<1> QED
  BY <1>1, <1>2

LEMMA TellTyped ==
  ASSUME NEW entry \in Infos, NEW x \in Sections, NEW name \in Copied(x)
  PROVE  /\ Tell(entry, x, name) \in Infos
         /\ Tell(entry, x, name).is_valid = entry.is_valid
         /\ Tell(entry, x, name).carrier_id = entry.carrier_id
<1>1. x.mcc % Byte \in Nat /\ x.mnc % Byte \in Nat /\ name \in Names
  BY DEF Sections, Byte, Copied
<1> QED
  BY <1>1 DEF Tell, Infos

LEMMA NoInfoTold ==
  /\ NoInfo \in Infos
  /\ ~NoInfo.is_valid
  BY McfgAssumption DEF NoInfo, Infos

-----------------------------------------------------------------------------
(* Where the scan is.                                                      *)

LEMMA TheFile ==
  ASSUME ScanInv, Reading
  PROVE  /\ head = n /\ n \in 1 .. Len(files) /\ n = Len(file_infos) + 1
         /\ WellFormed(files[n]) /\ Readable(files[n])
         /\ ItemsInv /\ SectionsInv /\ InfoInv
<1>1. Len(file_infos) \in Nat /\ phase # "next" /\ Len(files) \in Nat
  BY DEF ScanInv, Reading, IsDirectory
<1>2. n \in 1 .. Len(files) /\ n = Len(file_infos) + 1
  BY <1>1 DEF ScanInv
<1> QED
  BY <1>2 DEF ScanInv, IsDirectory

\* The item under the cursor is the one after those handled.
LEMMA TheItem ==
  ASSUME ScanInv, NEW k, AtItem(k)
  PROVE  /\ k = i + 1 /\ k \in 1 .. Len(files[n].items) /\ i \in Nat /\ ~InFooter
         /\ Item = current_offset /\ current_offset = files[n].start[k]
         /\ files[n].start[k] \in Nat
<1> DEFINE f == files[n]
<1>1. /\ head = n /\ WellFormed(f) /\ ItemsInv /\ phase = "items"
  BY TheFile DEF AtItem, Reading
<1>2. /\ Len(f.items) \in Nat /\ DOMAIN f.items = 1 .. Len(f.items)
      /\ \A j \in 1 .. Len(f.items) + 1 : f.start[j] \in Nat
      /\ \A j, l \in 1 .. Len(f.items) + 1 : j < l => f.start[j] < f.start[l]
  BY <1>1, FileFacts
<1>3. /\ k \in 1 .. Len(f.items) /\ i < Len(f.items) /\ i \in 0 .. Len(f.items)
      /\ current_offset = f.start[k]
  <2>1. i < NumItems(f) /\ i \in 0 .. Len(f.items)
    BY <1>1 DEF AtItem, ItemsInv
  <2>2. NumItems(f) \in Nat /\ NumItems(f) <= Len(f.items)
    BY <1>2, ItemCount
  <2>3. k \in 1 .. Len(f.items) /\ current_offset = f.start[k]
    BY <1>1, <1>2 DEF AtItem
  <2> HIDE DEF f
  <2> QED
    BY <1>2, <2>1, <2>2, <2>3
<1>4. ~InFooter
  <2> SUFFICES ASSUME InFooter PROVE FALSE
    OBVIOUS
  <2>1. i \in 1 .. Len(f.items) /\ f.items[i].type = "FOOT"
    BY <1>2, <1>3 DEF InFooter, Kind
  <2>2. current_offset = f.start[i] + ItemHeader
    <3>1. Item = current_offset - ItemHeader /\ Item = f.start[i]
      BY <1>1, <2>1 DEF Item, InFooter, Kind, ItemsInv
    <3>2. current_offset \in Nat /\ f.start[i] \in Nat
      BY <1>2, <1>3, <2>1
    <3> QED
      BY <3>1, <3>2 DEF ItemHeader
  <2>3. f.start[i + 1] > f.start[i] + ItemHeader
    BY <1>1, <2>1, ItemFacts
  <2>4. k \in 1 .. Len(f.items) + 1 /\ i \in 1 .. Len(f.items) + 1 /\ i + 1 \in 1 .. Len(f.items) + 1
    BY <1>2, <1>3, <2>1
  <2> HIDE DEF f
  <2>5. f.start[i] < f.start[k] /\ f.start[k] < f.start[i + 1]
    BY <1>2, <1>3, <2>2, <2>3, <2>4 DEF ItemHeader
  <2>6. ~(k < i) /\ k # i /\ ~(i + 1 < k) /\ k # i + 1
    BY <1>2, <2>4, <2>5
  <2> QED
    BY <1>2, <1>3, <2>4, <2>6
<1>5. Item = current_offset /\ Item = f.start[i + 1]
  BY <1>1, <1>4 DEF Item, InFooter, Kind, ItemsInv
<1>6. k = i + 1
  <2> HIDE DEF f
  <2>1. f.start[k] = f.start[i + 1] /\ i + 1 \in 1 .. Len(f.items) + 1
    BY <1>2, <1>3, <1>5
  <2>2. k \in 1 .. Len(f.items) + 1
    BY <1>2, <1>3
  <2>3. ~(k < i + 1) /\ ~(i + 1 < k)
    BY <1>2, <2>1, <2>2
  <2> QED
    BY <1>2, <1>3, <2>3
<1> QED
  BY <1>2, <1>3, <1>4, <1>5, <1>6

\* The section under the cursor is the one after those in the table.
LEMMA TheSection ==
  ASSUME ScanInv, NEW k, AtSection(k)
  PROVE  LET f == files[n]
             s == Len(footer_items) IN
         /\ k = s + 1 /\ s \in Nat /\ k \in 1 .. Len(f.footer.sections)
         /\ f.footer.sections[k] \in Sections
         /\ curr_obj_offset = f.footer.start[k] /\ f.footer.start[k] \in Nat
         /\ f.footer.start[k + 1] = f.footer.start[k] + Stride(f.footer.sections[k])
<1> DEFINE f == files[n]
           s == Len(footer_items)
           m == Len(f.footer.sections)
<1>1. head = n /\ WellFormed(f) /\ SectionsInv /\ phase = "footer" /\ s \in Nat
  BY TheFile DEF AtSection, Reading, ScanInv
<1>2. /\ m \in Nat \ {0} /\ DOMAIN f.footer.sections = 1 .. m
      /\ \A j \in 1 .. m : f.footer.sections[j] \in Sections
      /\ \A j \in 1 .. m + 1 : f.footer.start[j] \in Nat
      /\ \A j, l \in 1 .. m + 1 : j < l => f.footer.start[j] < f.footer.start[l]
      /\ \A j \in 1 .. m :
           f.footer.start[j + 1] = f.footer.start[j] + Stride(f.footer.sections[j])
  BY <1>1, FooterFacts
<1>3. k \in 1 .. m /\ curr_obj_offset = f.footer.start[k]
  BY <1>1, <1>2 DEF AtSection
<1>4. s < m /\ curr_obj_offset = f.footer.start[s + 1]
  BY <1>1 DEF SectionsInv
<1>5. k = s + 1
  <2> HIDE DEF f, s, m
  <2>1. k \in 1 .. m + 1 /\ s + 1 \in 1 .. m + 1
    BY <1>1, <1>2, <1>3, <1>4
  <2>2. f.footer.start[k] = f.footer.start[s + 1]
    BY <1>3, <1>4
  <2>3. ~(k < s + 1) /\ ~(s + 1 < k)
    BY <1>2, <2>1, <2>2
  <2> QED
    BY <1>1, <1>2, <1>3, <2>3
<1>6. s \in Nat
  BY <1>1
<1>7. f.footer.start[k] \in Nat
  <2>1. k \in 1 .. m + 1
    BY <1>2, <1>3
  <2> QED
    BY <1>2, <2>1
<1>8. /\ f.footer.sections[k] \in Sections
      /\ f.footer.start[k + 1] = f.footer.start[k] + Stride(f.footer.sections[k])
  BY <1>2, <1>3
<1> QED
  BY <1>3, <1>5, <1>6, <1>7, <1>8

-----------------------------------------------------------------------------
(* The steps that end a file.                                              *)

\* A true report on the file, whose buffer is freed when it is valid.
LEMMA Reported ==
  ASSUME Inv, NEW entry \in Infos, NEW told, told = Len(file_infos) + 1,
         Report(entry), UNCHANGED <<files, footer_items>>, info' \in Infos,
         n' = told, told \in 1 .. Len(files), told = n \/ n = Len(file_infos),
         Len(files[told].items) < Word => Tells(files[told], entry),
         \A k : k # told => (k \in live' => k \in live),
         entry.is_valid => told \notin live'
  PROVE  Inv'
<1>1. /\ phase' = "next" /\ file_infos' = Append(file_infos, entry)
      /\ file_infos \in Seq(Infos) /\ IsDirectory(files)
  BY DEF Report, Inv, ScanInv
<1>2. /\ Len(file_infos') = told /\ file_infos' \in Seq(Infos)
      /\ DOMAIN file_infos' = 1 .. told /\ told \in Nat
      /\ file_infos'[told] = entry
      /\ \A k \in 1 .. told - 1 : file_infos'[k] = file_infos[k] /\ k \in DOMAIN file_infos
  BY <1>1
<1>3. ScanInv'
  BY <1>1, <1>2 DEF Inv, ScanInv, Reading
<1>4. EntriesTellTheirFiles'
  <2>1. ASSUME NEW k \in 1 .. told, Len(files[k].items) < Word
        PROVE  Tells(files[k], file_infos'[k])
    <3>1. CASE k = told
      BY <1>2, <2>1, <3>1
    <3>2. CASE k # told
      <4>1. k \in DOMAIN file_infos /\ file_infos'[k] = file_infos[k]
        BY <1>2, <3>2
      <4> QED
        BY <2>1, <4>1 DEF Inv, EntriesTellTheirFiles
    <3> QED
      BY <3>1, <3>2
  <2> QED
    BY <1>2, <2>1 DEF EntriesTellTheirFiles
<1>5. BuffersInUse'
  <2>1. ASSUME NEW k \in 1 .. told, file_infos'[k].is_valid PROVE k \notin live'
    <3>1. CASE k = told
      BY <1>2, <2>1, <3>1
    <3>2. CASE k # told
      <4>1. k \in DOMAIN file_infos /\ file_infos'[k] = file_infos[k]
        BY <1>2, <3>2
      <4> QED
        BY <2>1, <3>2, <4>1 DEF Inv, BuffersInUse
    <3> QED
      BY <3>1, <3>2
  <2> QED
    BY <1>1, <1>2, <2>1 DEF BuffersInUse, Reading
<1>6. CrashesOverTheFile'
  BY <1>1 DEF CrashesOverTheFile
<1> QED
  BY <1>3, <1>4, <1>5, <1>6 DEF Inv

LEMMA OpenFailsKeeps ==
  ASSUME Inv, OpenFails
  PROVE  Inv'
<1>1. /\ phase = "next" /\ n < Len(files) /\ n' = n + 1 /\ n = Len(file_infos)
      /\ Len(file_infos) \in Nat /\ Len(files) \in Nat
  BY DEF OpenFails, NextFile, Inv, ScanInv, IsDirectory
<1>2. n' \in 1 .. Len(files)
  BY <1>1
<1>3. Report(NoInfo) /\ info' = NoInfo /\ UNCHANGED <<files, footer_items, live>>
      /\ ~files[n'].opens
  BY DEF OpenFails, Cleared, sections
<1>4. Tells(files[n'], NoInfo)
  BY <1>3 DEF Tells, Readable
<1> QED
  BY <1>1, <1>2, <1>3, <1>4, NoInfoTold, Reported

LEMMA RefuseKeeps ==
  ASSUME Inv, Refuse
  PROVE  Inv'
<1>1. /\ phase = "next" /\ n < Len(files) /\ n' = n + 1 /\ n = Len(file_infos)
      /\ Len(file_infos) \in Nat /\ Len(files) \in Nat
  BY DEF Refuse, NextFile, Inv, ScanInv, IsDirectory
<1>2. n' \in 1 .. Len(files)
  BY <1>1
<1>3. Report(NoInfo) /\ info' = NoInfo /\ UNCHANGED <<files, footer_items>>
      /\ live' = live \cup {n'} /\ files[n'].opens /\ files[n'].refused # "no"
  BY DEF Refuse, Cleared, sections
<1>4. Tells(files[n'], NoInfo)
  BY <1>3 DEF Tells, Readable
<1> QED
  BY <1>1, <1>2, <1>3, <1>4, NoInfoTold, Reported

\* Before item k the walk met no footer and nothing unknown.
LEMMA ItemReached ==
  ASSUME ScanInv, NEW k, AtItem(k)
  PROVE  Reached(files[n], k) /\ Kind(files[n], k) = files[head].items[k].type
<1>1. /\ k = i + 1 /\ i \in Nat /\ ~InFooter /\ head = n /\ ItemsInv /\ WellFormed(files[n])
  BY TheItem, TheFile DEF AtItem, Reading
<1>2. \A j \in 1 .. i : Kind(files[n], j) \notin {"OTHER", "FOOT"}
  BY <1>1 DEF ItemsInv, InFooter
<1>3. \A j \in DOMAIN files[n].items : j < k => j \in 1 .. i
  BY <1>1, FileFacts
<1> QED
  BY <1>1, <1>2, <1>3 DEF Reached, Kind

\* A footer that was met is the one that counts.
LEMMA FooterReached ==
  ASSUME ScanInv, Reading, InFooter
  PROVE  HasFooter(files[n]) /\ i \in DOMAIN files[n].items
<1> DEFINE f == files[n]
<1>1. WellFormed(f) /\ ItemsInv
  BY TheFile
<1>2. Len(f.items) \in Nat /\ DOMAIN f.items = 1 .. Len(f.items)
  BY <1>1, FileFacts
<1>3. i \in 1 .. Len(f.items) /\ Kind(f, i) = "FOOT"
  BY <1>1, <1>2 DEF ItemsInv, InFooter
<1>4. \A j \in 1 .. Len(f.items) : j < i => Kind(f, j) \notin {"OTHER", "FOOT"}
  BY <1>1, <1>2, <1>3 DEF ItemsInv
<1> QED
  BY <1>2, <1>3, <1>4 DEF HasFooter, Reached

LEMMA UnknownItemKeeps ==
  ASSUME Inv, NEW k, UnknownItem(k)
  PROVE  Inv'
<1> DEFINE f == files[n]
<1>1. /\ AtItem(k) /\ files[head].items[k].type = "OTHER" /\ Report(info)
      /\ UNCHANGED <<files, n, live, info, footer_items>>
  BY DEF UnknownItem, sections
<1>2. Reading
  BY <1>1 DEF AtItem, Reading
<1>3. /\ head = n /\ n \in 1 .. Len(files) /\ n = Len(file_infos) + 1
      /\ WellFormed(f) /\ Readable(f) /\ InfoInv /\ info \in Infos
  BY <1>2, TheFile DEF Inv, ScanInv
<1>4. k \in DOMAIN f.items /\ Kind(f, k) = "OTHER" /\ ~InFooter /\ Reached(f, k)
  BY <1>1, <1>3, TheItem, ItemReached DEF Inv, AtItem
<1>5. Handled = {} /\ ~Whole(f)
  BY <1>4 DEF Handled, Whole
<1>6. ~HasFooter(f)
  <2> SUFFICES ASSUME NEW j \in DOMAIN f.items, Kind(f, j) = "FOOT", Reached(f, j)
               PROVE  FALSE
    BY DEF HasFooter
  <2>1. Len(f.items) \in Nat /\ DOMAIN f.items = 1 .. Len(f.items)
    BY <1>3, FileFacts
  <2>2. ~(j < k)
    BY <1>4 DEF Reached
  <2>3. ~(k < j)
    BY <1>4 DEF Reached
  <2>4. j = k
    <3> HIDE DEF f
    <3> QED
      BY <1>4, <2>1, <2>2, <2>3
  <2> QED
    BY <1>4, <2>4
<1>7. Tells(f, info)
  <2>1. /\ info.is_valid = FALSE /\ info.carrier_id = f.carrier_id
        /\ TellsNetwork(f, Sectioned(f), info) /\ TellsName(f, Sectioned(f), info)
    BY <1>3, <1>5, <1>6 DEF InfoInv, Infos, Sectioned
  <2>2. Whole(f) = FALSE
    BY <1>5 DEF Whole
  <2> QED
    BY <1>3, <2>1, <2>2 DEF Tells
<1> QED
  BY <1>1, <1>3, <1>7, Reported DEF InfoInv

\* Behind a footer that is read the sections handled are those that count.
LEMMA HandledFooter ==
  ASSUME ScanInv, phase = "items", InFooter
  PROVE  Sectioned(files[n]) = Handled
<1> DEFINE f == files[n]
           s == Len(footer_items)
           m == Len(f.footer.sections)
<1>1. WellFormed(f) /\ SectionsInv /\ s \in Nat /\ HasFooter(f)
  BY TheFile, FooterReached DEF Reading, ScanInv
<1>2. m \in Nat /\ DOMAIN f.footer.sections = 1 .. m
  BY <1>1, FooterFacts
<1>3. CASE ~f.footer.refused
  <2>1. /\ s <= m /\ s <= MAX_FOOTER_SECTIONS
        /\ s = m \/ s = MAX_FOOTER_SECTIONS
        /\ MAX_FOOTER_SECTIONS \in Nat
    BY <1>1, <1>3, McfgAssumption DEF SectionsInv
  <2> HIDE DEF s, m
  <2>2. {k \in 1 .. m : k <= MAX_FOOTER_SECTIONS} = 1 .. s
    BY <1>1, <1>2, <2>1
  <2> QED
    BY <1>1, <1>2, <1>3, <2>2 DEF Sectioned, Handled, s, m
<1>4. CASE f.footer.refused
  <2>1. s = 0
    BY <1>1, <1>4 DEF SectionsInv
  <2> QED
    BY <1>4, <2>1 DEF Sectioned, Handled
<1> QED
  BY <1>3, <1>4

\* A file with a footer in its midst is not valid, but its footer was told.
LEMMA InsideFooterKeeps ==
  ASSUME Inv, InsideFooter
  PROVE  Inv'
<1> DEFINE f == files[n]
<1>1. /\ phase = "items" /\ i \in 1 .. NumItems(files[head]) - 1
      /\ files[head].items[i].type = "FOOT" /\ Report(info)
      /\ UNCHANGED <<files, n, live, info, footer_items>>
  BY DEF InsideFooter, sections
<1>2. /\ head = n /\ n \in 1 .. Len(files) /\ n = Len(file_infos) + 1 /\ WellFormed(f)
      /\ Readable(f) /\ InfoInv /\ info \in Infos
  BY <1>1, TheFile DEF Inv, ScanInv, Reading
<1>3. InFooter
  BY <1>1, <1>2 DEF InFooter, Kind
<1>4. Sectioned(f) = Handled
  BY <1>1, <1>3, HandledFooter DEF Inv
<1>5. /\ Len(f.items) \in Nat /\ DOMAIN f.items = 1 .. Len(f.items)
      /\ NumItems(f) \in Nat /\ NumItems(f) <= Len(f.items)
  BY <1>2, FileFacts, ItemCount
<1>6. i + 1 \in DOMAIN f.items /\ i \in DOMAIN f.items /\ i < i + 1
  <2>1. i \in 1 .. NumItems(f) - 1
    BY <1>1, <1>2
  <2> HIDE DEF f
  <2> QED
    BY <1>5, <2>1
<1>7. Whole(f) = FALSE
  <2>1. ~Reached(f, i + 1)
    BY <1>3, <1>6 DEF Reached, InFooter
  <2> QED
    BY <1>6, <2>1 DEF Whole
<1>8. Tells(f, info)
  BY <1>2, <1>4, <1>7 DEF Tells, InfoInv, Infos
<1> QED
  BY <1>1, <1>2, <1>8, Reported DEF InfoInv

\* At the end of the items the sections handled are those that count.
LEMMA HandledAll ==
  ASSUME ScanInv, phase = "items", i = Len(files[n].items)
  PROVE  Whole(files[n]) /\ Sectioned(files[n]) = Handled
<1> DEFINE f == files[n]
<1>1. WellFormed(f) /\ ItemsInv
  BY TheFile DEF Reading
<1>2. Len(f.items) \in Nat /\ DOMAIN f.items = 1 .. Len(f.items) /\ i = Len(f.items)
  BY <1>1, FileFacts
<1>3. \A j \in DOMAIN f.items : Kind(f, j) # "OTHER" /\ (Kind(f, j) = "FOOT" => j = i)
  BY <1>1, <1>2 DEF ItemsInv
<1>4. Whole(f)
  <2>1. ASSUME NEW k \in DOMAIN f.items, NEW j \in DOMAIN f.items, j < k
        PROVE  Kind(f, j) \notin {"OTHER", "FOOT"}
    <3>1. j # i
      <4> HIDE DEF f
      <4> QED
        BY <1>2, <2>1
    <3> QED
      BY <1>3, <3>1
  <2> QED
    BY <1>3, <2>1 DEF Whole, Reached
<1>5. CASE InFooter
  BY <1>4, <1>5, HandledFooter
<1>6. CASE ~InFooter
  <2>1. ~HasFooter(f)
    BY <1>2, <1>3, <1>6 DEF HasFooter, InFooter
  <2> QED
    BY <1>4, <1>6, <2>1 DEF Sectioned, Handled
<1> QED
  BY <1>5, <1>6

LEMMA EndItemsKeeps ==
  ASSUME Inv, EndItems
  PROVE  Inv'
<1> DEFINE f == files[n]
<1>1. /\ phase = "items" /\ i = NumItems(files[head])
      /\ info' = [info EXCEPT !.is_valid = TRUE] /\ Report(info')
      /\ live' = live \ {n} /\ UNCHANGED <<files, n, footer_items>>
  BY DEF EndItems, sections
<1>2. /\ head = n /\ n \in 1 .. Len(files) /\ n = Len(file_infos) + 1 /\ WellFormed(f)
      /\ Readable(f) /\ InfoInv /\ info \in Infos
  BY <1>1, TheFile DEF Inv, ScanInv, Reading
<1>3. Len(f.items) < Word => Whole(f) /\ Sectioned(f) = Handled
  <2>1. Len(f.items) \in Nat
    BY <1>2, FileFacts
  <2>2. Len(f.items) < Word => i = Len(f.items)
    BY <1>1, <1>2, <2>1, ItemCount
  <2> QED
    BY <1>1, <2>2, HandledAll DEF Inv
<1>4. /\ info' \in Infos /\ info'.is_valid = TRUE /\ info'.carrier_id = info.carrier_id
      /\ info'.mcc = info.mcc /\ info'.mnc = info.mnc
      /\ info'.internal_name = info.internal_name
  BY <1>1, <1>2 DEF Infos
<1>5. Len(f.items) < Word => Tells(f, info')
  BY <1>2, <1>3, <1>4 DEF Tells, InfoInv, TellsNetwork, TellsName
<1> QED
  BY <1>1, <1>2, <1>4, <1>5, Reported

-----------------------------------------------------------------------------
(* The steps inside a file.                                                *)

\* They report nothing and free nothing.
LEMMA StillReading ==
  ASSUME Inv, ScanInv', CrashesOverTheFile',
         Reading, UNCHANGED <<files, n, live, head, file_infos>>, phase' # "next"
  PROVE  Inv'
<1>1. head = n
  BY TheFile DEF Inv
<1> QED
  BY <1>1 DEF Inv, EntriesTellTheirFiles, BuffersInUse

LEMMA AcceptKeeps ==
  ASSUME Inv, Accept
  PROVE  Inv'
<1> DEFINE f == files[n']
<1>1. /\ phase = "next" /\ n < Len(files) /\ n' = n + 1 /\ n = Len(file_infos)
      /\ Len(file_infos) \in Nat /\ Len(files) \in Nat /\ IsDirectory(files)
  BY DEF Accept, NextFile, Inv, ScanInv, IsDirectory
<1>2. n' \in 1 .. Len(files) /\ n' \in Nat /\ WellFormed(f)
  BY <1>1 DEF IsDirectory
<1>3. /\ Readable(f) /\ live' = live \cup {n'} /\ head' = n' /\ phase' = "items"
      /\ info' = [NoInfo EXCEPT !.carrier_id = f.carrier_id]
      /\ i' = 0 /\ current_offset' = f.p_offset + FileHeader /\ input_nvitems_size' = 0
      /\ UNCHANGED <<files, footer_items, file_infos>>
  BY DEF Accept, Readable, Cleared, sections
<1>4. /\ Len(f.items) \in Nat /\ f.start[1] = f.p_offset + FileHeader
      /\ f.start[1] \in Nat /\ f.carrier_id \in Nat
  BY <1>2, FirstItem
<1>5. ~InFooter' /\ Item' = f.start[1]
  BY <1>3, <1>4 DEF InFooter, Item
<1>6. ItemsInv'
  BY <1>3, <1>4, <1>5 DEF ItemsInv
<1>7. SectionsInv'
  BY <1>3, <1>5 DEF SectionsInv
<1>8. /\ info'.is_valid = FALSE /\ info'.carrier_id = f.carrier_id /\ info' \in Infos
      /\ info'.mcc = 0 /\ info'.mnc = 0 /\ info'.internal_name = NoName
  BY <1>3, <1>4, McfgAssumption DEF NoInfo, Infos
<1>9. Handled' = {}
  BY <1>5 DEF Handled
<1>10. InfoInv'
  BY <1>3, <1>8, <1>9 DEF InfoInv, TellsNetwork, TellsName, Telling
<1>11. ScanInv'
  BY <1>1, <1>2, <1>3, <1>6, <1>7, <1>8, <1>10 DEF Inv, ScanInv
<1>12. BuffersInUse'
  <2>1. DOMAIN file_infos = 1 .. n
    BY <1>1 DEF Inv, ScanInv
  <2>2. n' \notin DOMAIN file_infos
    BY <1>1, <2>1
  <2> QED
    BY <1>3, <2>2 DEF Inv, BuffersInUse
<1>13. EntriesTellTheirFiles' /\ CrashesOverTheFile'
  BY <1>3 DEF Inv, EntriesTellTheirFiles, CrashesOverTheFile
<1> QED
  BY <1>11, <1>12, <1>13 DEF Inv

\* Sixteen bits are enough to tell the size of a small item, wherever it begins.
LEMMA SizeTold ==
  ASSUME NEW before \in Nat, NEW size \in Nat, size < Word
  PROVE  ItemSize(before, before + size) = size
  BY DEF ItemSize, Word

LEMMA ReadItemKeeps ==
  ASSUME Inv, NEW k, ReadItem(k)
  PROVE  Inv'
<1> DEFINE f == files[n]
<1>1. /\ AtItem(k) /\ i' = i + 1
      /\ files[head].items[k].type \in {"NV", "UNKNOWN", "NVFILE", "FILE"}
      /\ current_offset' = current_offset + ItemHeader + Body(files[head].items[k])
      /\ input_nvitems_size' = input_nvitems_size + ItemSize(current_offset, current_offset')
      /\ UNCHANGED <<files, n, phase, live, head, footer_items, sec3, curr_obj_offset,
                     info, file_infos>>
  BY DEF ReadItem, sections, ItemEnd
<1>2. Reading /\ phase = "items" /\ ScanInv
  BY <1>1 DEF AtItem, Reading, Inv
<1>3. head = n /\ WellFormed(f) /\ ItemsInv /\ SectionsInv /\ InfoInv
  BY <1>2, TheFile
<1>4. /\ k = i + 1 /\ k \in 1 .. Len(f.items) /\ i \in Nat /\ ~InFooter
      /\ Item = current_offset /\ current_offset = f.start[k]
  BY <1>1, <1>2, TheItem
<1>5. f.start[k + 1] = current_offset' /\ f.items[k].type \notin {"FOOT", "OTHER"}
  <2>1. /\ f.items[k].type \in {"NV", "UNKNOWN", "NVFILE", "FILE"}
        /\ current_offset' = f.start[k] + ItemHeader + Body(f.items[k])
    BY <1>1, <1>3, <1>4
  <2>2. f.start[k + 1] = f.start[k] + (ItemHeader + Body(f.items[k]))
    BY <1>3, <1>4, <2>1, ItemFacts
  <2>3. Body(f.items[k]) \in Nat /\ f.start[k] \in Nat
    <3>1. f.items[k] \in Items
      BY <1>3, <1>4, FileFacts
    <3> QED
      BY <1>1, <1>2, <2>1, <3>1, TheItem, BodyTyped
  <2> QED
    BY <2>1, <2>2, <2>3 DEF ItemHeader
<1>6. /\ Len(f.items) \in Nat /\ f.start[k] \in Nat /\ f.start[k + 1] \in Nat
      /\ f.start[k] < f.start[k + 1] /\ f.start[1] \in Nat
  <2>1. k + 1 \in 1 .. Len(f.items) + 1 /\ k \in 1 .. Len(f.items) + 1 /\ k < k + 1
        /\ Len(f.items) \in Nat /\ 1 \in 1 .. Len(f.items) + 1
    BY <1>3, <1>4, FileFacts
  <2> QED
    BY <1>3, <2>1, FileFacts
<1>7. ~InFooter' /\ Item' = current_offset'
  BY <1>1, <1>3, <1>4, <1>5 DEF InFooter, Item, Kind
<1>8. Small(f) => input_nvitems_size' = Item' - f.start[1]
  <2> SUFFICES ASSUME Small(f) PROVE input_nvitems_size' = Item' - f.start[1]
    OBVIOUS
  <2>1. k \in DOMAIN f.items
    BY <1>1, <1>3 DEF AtItem
  <2>2. f.start[k + 1] - f.start[k] < Word
    BY <1>5, <2>1 DEF Small, Kind
  <2> DEFINE size == f.start[k + 1] - f.start[k]
  <2>3. size \in Nat /\ f.start[k] + size = f.start[k + 1]
    BY <1>6
  <2>4. ItemSize(current_offset, current_offset') = size
    BY <1>4, <1>5, <1>6, <2>2, <2>3, SizeTold
  <2>5. input_nvitems_size = f.start[k] - f.start[1]
    BY <1>3, <1>4 DEF ItemsInv
  <2> QED
    BY <1>1, <1>5, <1>6, <1>7, <2>4, <2>5
<1>9. ItemsInv'
  <2>1. \A j \in 1 .. i' : Kind(f, j) # "OTHER" /\ (Kind(f, j) = "FOOT" => j = i')
    BY <1>1, <1>3, <1>4, <1>5 DEF ItemsInv, Kind, InFooter
  <2> QED
    BY <1>1, <1>4, <1>5, <1>6, <1>7, <1>8, <2>1 DEF ItemsInv
<1>10. SectionsInv' /\ InfoInv'
  BY <1>1, <1>2, <1>3, <1>4, <1>7 DEF SectionsInv, InfoInv, Handled
<1>11. ScanInv' /\ CrashesOverTheFile'
  BY <1>1, <1>2, <1>3, <1>9, <1>10 DEF Inv, ScanInv, Reading, CrashesOverTheFile
<1> QED
  BY <1>1, <1>2, <1>11, StillReading

\* A scan that is lost reports nothing.
LEMMA CrashKeeps ==
  ASSUME Inv, Reading, Crash, Unnamed(files[n]) \/ Oversized(files[n])
  PROVE  Inv'
<1>1. phase' = "crashed" /\ UNCHANGED <<files, n, live, head, footer_items, info, file_infos>>
  BY DEF Crash, sections
<1>2. CrashesOverTheFile'
  <2>1. files'[n'] = files[n]
    BY <1>1
  <2> QED
    BY <2>1 DEF CrashesOverTheFile
<1>3. ScanInv'
  BY <1>1 DEF Inv, ScanInv, Reading
<1> QED
  BY <1>1, <1>2, <1>3, StillReading DEF Inv

\* Sixteen bits never tell more than the size is.
LEMMA SizeBound ==
  ASSUME NEW before \in Nat, NEW size \in Nat, ItemSize(before, before + size) > Blob
  PROVE  size > Blob
<1>1. CASE size < Word
  BY <1>1, SizeTold
<1>2. CASE ~(size < Word)
  BY <1>2 DEF Word, Blob
<1> QED
  BY <1>1, <1>2

LEMMA OverrunItemKeeps ==
  ASSUME Inv, NEW k, OverrunItem(k)
  PROVE  Inv'
<1> DEFINE f == files[n]
           item == f.items[k]
           size == f.start[k + 1] - f.start[k]
<1>1. Reading /\ ScanInv /\ AtItem(k) /\ Crash
  BY DEF OverrunItem, AtItem, Reading, Inv
<1>2. /\ head = n /\ WellFormed(f) /\ k \in 1 .. Len(f.items) /\ Reached(f, k)
      /\ current_offset = f.start[k] /\ f.start[k] \in Nat
  BY <1>1, TheFile, TheItem, ItemReached
<1>3. ItemOverruns(item, ItemSize(f.start[k], ItemEnd(f.start[k], item)))
  BY <1>2 DEF OverrunItem
<1>4. ItemOverruns(item, size)
  <2>1. CASE item.type \in {"NVFILE", "FILE"}
    BY <1>3, <2>1 DEF ItemOverruns
  <2>2. CASE item.type \notin {"NVFILE", "FILE"}
    <3>1. /\ item.type \in {"NV", "UNKNOWN"}
          /\ ItemSize(f.start[k], ItemEnd(f.start[k], item)) > Blob
      BY <1>3, <2>2 DEF ItemOverruns
    <3>2. ItemHeader + Body(item) \in Nat
      <4>1. item \in Items
        BY <1>2, FileFacts
      <4>2. Body(item) \in Nat
        BY <3>1, <4>1, BodyTyped
      <4> QED
        BY <4>2 DEF ItemHeader
    <3>3. f.start[k + 1] = f.start[k] + (ItemHeader + Body(item))
      BY <1>2, <3>1, ItemFacts
    <3> DEFINE b == ItemHeader + Body(item)
    <3>4. ItemEnd(f.start[k], item) = f.start[k] + b
      <4>1. Body(item) \in Nat
        BY <1>2, <3>1, FileFacts, BodyTyped
      <4>2. \A a, c \in Nat : a + ItemHeader + c = a + (ItemHeader + c)
        BY DEF ItemHeader
      <4> QED
        BY <1>2, <4>1, <4>2 DEF ItemEnd
    <3>5. b > Blob
      <4>1. ItemSize(f.start[k], f.start[k] + b) > Blob
        BY <3>1, <3>4
      <4>2. b \in Nat /\ f.start[k] \in Nat
        BY <1>2, <3>2
      <4> HIDE DEF b
      <4> QED
        BY <4>1, <4>2, SizeBound
    <3>6. size = b
      <4> HIDE DEF b
      <4> QED
        BY <1>2, <3>2, <3>3 DEF b
    <3> QED
      BY <3>1, <3>5, <3>6 DEF ItemOverruns
  <2> QED
    BY <2>1, <2>2
<1>5. Oversized(f)
  <2>1. k \in DOMAIN f.items
    BY <1>2, FileFacts
  <2> QED
    BY <1>2, <1>4, <2>1 DEF Oversized
<1> QED
  BY <1>1, <1>5, CrashKeeps

LEMMA MeetFooterKeeps ==
  ASSUME Inv, NEW k, MeetFooter(k)
  PROVE  Inv'
<1> DEFINE f == files[n]
<1>1. /\ AtItem(k) /\ files[head].items[k].type = "FOOT"
      /\ i' = i + 1 /\ current_offset' = current_offset + ItemHeader
      /\ footer_items' = << >> /\ sec3' = FALSE
      /\ files[head].footer.refused => phase' = phase
      /\ ~files[head].footer.refused => phase' = "footer" /\ curr_obj_offset' = Footer
      /\ UNCHANGED <<files, n, live, head, input_nvitems_size, info, file_infos>>
  BY DEF MeetFooter
<1>2. Reading /\ phase = "items" /\ ScanInv
  BY <1>1 DEF AtItem, Reading, Inv
<1>3. /\ head = n /\ WellFormed(f) /\ ItemsInv /\ SectionsInv /\ InfoInv /\ Readable(f)
      /\ n \in 1 .. Len(files)
  BY <1>2, TheFile
<1>4. /\ k = i + 1 /\ k \in 1 .. Len(f.items) /\ i \in Nat /\ ~InFooter
      /\ Item = current_offset /\ current_offset = f.start[k] /\ f.start[k] \in Nat
  BY <1>1, <1>2, TheItem
<1>5. Kind(f, k) = "FOOT" /\ i' = k /\ i' > 0
  BY <1>1, <1>3, <1>4 DEF Kind
<1>6. InFooter' /\ Item' = f.start[k]
  BY <1>1, <1>3, <1>4, <1>5 DEF InFooter, Item, Kind, ItemHeader
<1>7. ItemsInv'
  <2>1. \A j \in 1 .. i' : Kind(f, j) # "OTHER" /\ (Kind(f, j) = "FOOT" => j = i')
    BY <1>3, <1>4, <1>5 DEF ItemsInv, InFooter
  <2>2. Small(f) => input_nvitems_size = f.start[k] - f.start[1]
    BY <1>3, <1>4 DEF ItemsInv
  <2>3. i' \in 0 .. Len(f.items)
    BY <1>3, <1>4, <1>5, FileFacts
  <2> QED
    BY <1>1, <1>5, <1>6, <2>1, <2>2, <2>3 DEF ItemsInv
<1>8. Len(footer_items') = 0 /\ footer_items' \in Seq([id : SectionIds, size : Int])
  BY <1>1
<1>9. SectionsInv'
  <2>1. /\ Len(f.footer.sections) \in Nat \ {0} /\ f.footer.start[1] = Footer
        /\ MAX_FOOTER_SECTIONS \in Nat
    BY <1>3, FooterFacts, McfgAssumption
  <2>2. sec3' = \E j \in 1 .. 0 : f.footer.sections[j].id = "PROFILE_NAME"
    <3>1. ~\E j \in 1 .. 0 : f.footer.sections[j].id = "PROFILE_NAME"
      OBVIOUS
    <3>2. sec3' = FALSE
      BY <1>1
    <3> QED
      BY ONLY <3>1, <3>2
  <2>3. CASE f.footer.refused
    BY <1>1, <1>2, <1>3, <1>6, <1>8, <2>1, <2>3 DEF SectionsInv
  <2>4. CASE ~f.footer.refused
    <3>1. phase' = "footer" /\ curr_obj_offset' = f.footer.start[0 + 1] /\ files' = files /\ n' = n
      BY <1>1, <1>3, <2>1, <2>4
    <3> QED
      BY <1>6, <1>8, <2>1, <2>2, <2>4, <3>1 DEF SectionsInv
  <2> QED
    BY <2>3, <2>4
<1>10. Handled = {} /\ Handled' = {}
  BY <1>4, <1>6, <1>8 DEF Handled
<1>11. InfoInv'
  BY <1>1, <1>3, <1>10 DEF InfoInv
<1>12. phase' \in {"items", "footer"}
  BY <1>1, <1>2
<1>13. ScanInv' /\ CrashesOverTheFile'
  BY <1>1, <1>2, <1>3, <1>7, <1>8, <1>9, <1>11, <1>12
  DEF Inv, ScanInv, Reading, CrashesOverTheFile
<1> QED
  BY <1>1, <1>2, <1>12, <1>13, StillReading

LEMMA TooManySectionsKeeps ==
  ASSUME Inv, TooManySections
  PROVE  Inv'
<1>1. /\ phase = "footer" /\ Len(footer_items) >= MAX_FOOTER_SECTIONS /\ phase' = "items"
      /\ UNCHANGED <<files, n, live, head, i, current_offset, input_nvitems_size,
                     footer_items, curr_obj_offset, sec3, info, file_infos>>
  BY DEF TooManySections, items, sections
<1>2. Reading /\ ScanInv /\ Len(footer_items) \in Nat /\ MAX_FOOTER_SECTIONS \in Nat
  BY <1>1, McfgAssumption DEF Reading, Inv, ScanInv
<1>3. ItemsInv /\ SectionsInv /\ InfoInv
  BY <1>2, TheFile
<1>4. ItemsInv' /\ InfoInv'
  BY <1>1, <1>3 DEF ItemsInv, InfoInv, Item, InFooter, Handled
<1>5. Len(footer_items) = MAX_FOOTER_SECTIONS
  BY <1>1, <1>2, <1>3 DEF SectionsInv
<1>6. SectionsInv'
  BY <1>1, <1>3, <1>5 DEF SectionsInv, InFooter
<1>7. ScanInv' /\ CrashesOverTheFile'
  BY <1>1, <1>2, <1>4, <1>6 DEF ScanInv, Reading, CrashesOverTheFile
<1> QED
  BY <1>1, <1>2, <1>7, StillReading

LEMMA ReadSectionKeeps ==
  ASSUME Inv, NEW k, ReadSection(k)
  PROVE  Inv'
<1> DEFINE f == files[n]
           s == Len(footer_items)
           x == f.footer.sections[k]
<1>1. /\ AtSection(k) /\ s < MAX_FOOTER_SECTIONS
      /\ UNCHANGED <<files, n, live, head, i, current_offset, input_nvitems_size, file_infos>>
  BY DEF ReadSection, items
<1>2. Reading /\ phase = "footer" /\ ScanInv /\ MAX_FOOTER_SECTIONS \in Nat
  BY <1>1, McfgAssumption DEF AtSection, Reading, Inv
<1>3. head = n /\ WellFormed(f) /\ ItemsInv /\ SectionsInv /\ InfoInv /\ info \in Infos
  BY <1>2, TheFile DEF ScanInv
<1>4. /\ \E name \in Copied(x) : info' = Tell(info, x, name)
      /\ sec3' = (sec3 \/ x.id = "PROFILE_NAME")
      /\ curr_obj_offset' = curr_obj_offset + Stride(x)
      /\ footer_items' = Append(footer_items,
           [id |-> x.id, size |-> curr_obj_offset' - curr_obj_offset])
      /\ phase' = IF curr_obj_offset' >= Limit(f) THEN "items" ELSE "footer"
  BY <1>3 DEF ReadSection, SectionEnd
<1>5. /\ k = s + 1 /\ s \in Nat /\ k \in 1 .. Len(f.footer.sections) /\ x \in Sections
      /\ curr_obj_offset = f.footer.start[k] /\ f.footer.start[k] \in Nat
      /\ f.footer.start[k + 1] = f.footer.start[k] + Stride(x)
  BY <1>1, <1>2, TheSection
<1>6. Stride(x) \in Nat /\ x.id \in SectionIds
  <2>1. x.len \in Nat /\ x.id \in SectionIds
    BY <1>5 DEF Sections
  <2> QED
    BY <2>1 DEF Stride, Proto
<1>7. /\ Len(footer_items') = k /\ footer_items' \in Seq([id : SectionIds, size : Int])
  <2>1. [id |-> x.id, size |-> curr_obj_offset' - curr_obj_offset] \in [id : SectionIds, size : Int]
    <3>1. curr_obj_offset' - curr_obj_offset \in Int
      <4>1. curr_obj_offset \in Nat
        BY <1>5
      <4>2. curr_obj_offset' = curr_obj_offset + Stride(x)
        BY <1>4
      <4>3. Stride(x) \in Nat
        BY <1>6
      <4> HIDE DEF x
      <4> QED
        BY <4>1, <4>2, <4>3
    <3>2. x.id \in SectionIds
      BY <1>6
    <3> HIDE DEF x
    <3> QED
      BY <3>1, <3>2
  <2>2. footer_items \in Seq([id : SectionIds, size : Int])
    BY <1>2 DEF ScanInv
  <2>3. footer_items' = Append(footer_items,
          [id |-> x.id, size |-> curr_obj_offset' - curr_obj_offset])
    BY <1>4
  <2>4. k = Len(footer_items) + 1
    BY <1>5
  <2> QED
    BY <2>1, <2>2, <2>3, <2>4
<1>8. InFooter /\ ~f.footer.refused /\ InFooter' /\ f.footer = f.footer
  BY <1>1, <1>2, <1>3 DEF SectionsInv, InFooter
<1>9. ItemsInv'
  BY <1>1, <1>3, <1>8 DEF ItemsInv, Item, InFooter, Kind
<1>10. SectionsInv'
  <2> DEFINE m == Len(f.footer.sections)
  <2>1. /\ m \in Nat \ {0} /\ Limit(f) \in Int
        /\ \A j \in 1 .. m + 1 : f.footer.start[j] \in Nat
        /\ \A j, l \in 1 .. m + 1 : j < l => f.footer.start[j] < f.footer.start[l]
        /\ f.footer.start[m] < Limit(f) /\ Limit(f) <= f.footer.start[m + 1]
    BY <1>3, FooterFacts, FileFacts
  <2>2. curr_obj_offset' = f.footer.start[k + 1]
    BY <1>4, <1>5
  <2>0. /\ k \in Nat /\ k >= 1 /\ k <= m /\ k + 1 \in 1 .. m + 1 /\ m \in 1 .. m + 1
        /\ f.footer.start[k + 1] \in Nat /\ f.footer.start[m] \in Nat
    <3>1. k \in 1 .. m
      BY <1>5
    <3> HIDE DEF m
    <3>2. k \in Nat /\ k >= 1 /\ k <= m /\ k + 1 \in 1 .. m + 1 /\ m \in 1 .. m + 1
      BY <2>1, <3>1
    <3> QED
      BY <2>1, <3>2
  <2>3. CASE phase' = "items"
    <3>1. f.footer.start[k + 1] >= Limit(f)
      BY <1>4, <2>2, <2>3
    <3>2. k = m
      <4> SUFFICES ASSUME k # m PROVE FALSE
        OBVIOUS
      <4> HIDE DEF m, f
      <4>1. k + 1 = m \/ k + 1 < m
        BY <2>0, <2>1
      <4>2. f.footer.start[k + 1] <= f.footer.start[m]
        BY <2>0, <2>1, <4>1
      <4> QED
        BY <2>0, <2>1, <3>1, <4>2
    <3> QED
      BY <1>1, <1>2, <1>7, <1>8, <2>3, <3>2, <1>5 DEF SectionsInv
  <2>4. CASE phase' = "footer"
    <3>1. f.footer.start[k + 1] < Limit(f)
      <4>1. ~(curr_obj_offset' >= Limit(f))
        BY <1>4, <2>4
      <4> HIDE DEF f
      <4> QED
        BY <2>0, <2>1, <2>2, <4>1
    <3>2. k < m
      <4> HIDE DEF m, f
      <4> QED
        BY <2>0, <2>1, <3>1
    <3>3. sec3' = \E j \in 1 .. k : f.footer.sections[j].id = "PROFILE_NAME"
      <4>1. sec3 = \E j \in 1 .. s : f.footer.sections[j].id = "PROFILE_NAME"
        BY <1>2, <1>3 DEF SectionsInv
      <4>2. \A j : j \in 1 .. k <=> j \in 1 .. s \/ j = k
        BY <1>5
      <4> QED
        BY <1>4, <4>1, <4>2
    <3> QED
      BY <1>1, <1>2, <1>5, <1>7, <1>8, <2>2, <2>4, <3>2, <3>3 DEF SectionsInv
  <2> QED
    BY <1>4, <2>3, <2>4
<1>11. InfoInv' /\ info' \in Infos
  <2>0. PICK name \in Copied(x) : info' = Tell(info, x, name)
    BY <1>4
  <2>1. /\ Tell(info, x, name) \in Infos /\ Tell(info, x, name).is_valid = info.is_valid
        /\ Tell(info, x, name).carrier_id = info.carrier_id
    BY <1>3, <1>5, TellTyped
  <2>2. Handled = 1 .. s /\ Handled' = 1 .. s + 1
    BY <1>5, <1>7, <1>8 DEF Handled
  <2>3. TellsNetwork(f, 1 .. s, info) /\ TellsName(f, 1 .. s, info)
    BY <1>3, <2>2 DEF InfoInv
  <2>4. TellsNetwork(f, 1 .. s + 1, Tell(info, f.footer.sections[s + 1], name))
    BY <1>3, <1>5, <2>3, NetworkGrows
  <2>5. TellsName(f, 1 .. s + 1, Tell(info, f.footer.sections[s + 1], name))
    BY <1>3, <1>5, <2>3, NameGrows
  <2> QED
    BY <1>1, <1>3, <1>5, <2>0, <2>1, <2>2, <2>4, <2>5 DEF InfoInv
<1>12. phase' \in {"items", "footer"}
  BY <1>4
<1>13. ScanInv' /\ CrashesOverTheFile'
  BY <1>1, <1>2, <1>3, <1>7, <1>9, <1>10, <1>11, <1>12
  DEF ScanInv, Reading, CrashesOverTheFile
<1> QED
  BY <1>1, <1>2, <1>12, <1>13, StillReading

\* A section under the cursor is one that counts.
LEMMA SectionCounts ==
  ASSUME ScanInv, NEW k, AtSection(k), Len(footer_items) < MAX_FOOTER_SECTIONS
  PROVE  LET f == files[n] IN
         /\ Sectioned(f) = {j \in 1 .. Len(f.footer.sections) : j <= MAX_FOOTER_SECTIONS}
         /\ k \in Sectioned(f)
<1> DEFINE f == files[n]
<1>1. Reading /\ phase = "footer" /\ MAX_FOOTER_SECTIONS \in Nat
  BY McfgAssumption DEF AtSection, Reading
<1>2. WellFormed(f) /\ InFooter /\ ~f.footer.refused
  BY <1>1, TheFile DEF SectionsInv
<1>3. k = Len(footer_items) + 1 /\ Len(footer_items) \in Nat /\ k \in 1 .. Len(f.footer.sections)
  BY TheSection
<1>4. DOMAIN f.footer.sections = 1 .. Len(f.footer.sections) /\ HasFooter(f)
  BY <1>1, <1>2, FooterFacts, FooterReached
<1>5. Sectioned(f) = {j \in 1 .. Len(f.footer.sections) : j <= MAX_FOOTER_SECTIONS}
  BY <1>2, <1>4 DEF Sectioned
<1>6. k <= MAX_FOOTER_SECTIONS
  BY <1>1, <1>3
<1> QED
  BY <1>3, <1>5, <1>6

LEMMA OverrunSectionKeeps ==
  ASSUME Inv, NEW k, OverrunSection(k)
  PROVE  Inv'
<1>1. Reading /\ AtSection(k) /\ Len(footer_items) < MAX_FOOTER_SECTIONS /\ Crash /\ ScanInv
  BY DEF OverrunSection, AtSection, Reading, Inv
<1>2. head = n
  BY <1>1, TheFile
<1>3. k \in Sectioned(files[n])
  BY <1>1, SectionCounts
<1>4. SectionOverruns(files[n].footer.sections[k])
  BY <1>2 DEF OverrunSection
<1> QED
  BY <1>1, <1>3, <1>4, CrashKeeps DEF Oversized

\* A section of an unknown kind was met before any name, in a footer that counts.
LEMMA UnsetNameKeeps ==
  ASSUME Inv, NEW k, UnsetName(k)
  PROVE  Inv'
<1> DEFINE f == files[n]
           s == Len(footer_items)
<1>1. /\ AtSection(k) /\ s < MAX_FOOTER_SECTIONS
      /\ files[head].footer.sections[k].id = "OTHER" /\ ~sec3 /\ Crash
  BY DEF UnsetName
<1>2. Reading /\ phase = "footer" /\ ScanInv
  BY <1>1 DEF AtSection, Reading, Inv
<1>3. head = n /\ SectionsInv
  BY <1>2, TheFile
<1>4. /\ k = s + 1 /\ s \in Nat /\ k \in 1 .. Len(f.footer.sections)
  BY <1>1, <1>2, TheSection
<1>5. /\ Sectioned(f) = {j \in 1 .. Len(f.footer.sections) : j <= MAX_FOOTER_SECTIONS}
      /\ k \in Sectioned(f)
  BY <1>1, <1>2, SectionCounts
<1>6. f.footer.sections[k].id = "OTHER"
  BY <1>1, <1>3
<1>7. \A j \in Telling(f, Sectioned(f), "PROFILE_NAME") : k < j
  <2> SUFFICES ASSUME NEW j \in 1 .. Len(f.footer.sections),
                      f.footer.sections[j].id = "PROFILE_NAME", ~(k < j)
               PROVE  FALSE
    BY <1>5 DEF Telling
  <2>1. j # k
    BY <1>6
  <2>2. j \in 1 .. s
    BY <1>4, <2>1
  <2>3. sec3 = \E l \in 1 .. s : f.footer.sections[l].id = "PROFILE_NAME"
    BY <1>2, <1>3 DEF SectionsInv
  <2> QED
    BY <1>1, <2>2, <2>3
<1>8. Unnamed(f)
  BY <1>5, <1>6, <1>7 DEF Unnamed
<1> QED
  BY <1>1, <1>2, <1>8, CrashKeeps

-----------------------------------------------------------------------------
(* The theorems.                                                           *)

LEMMA InitialInv == Init => Inv
<1> SUFFICES ASSUME Init PROVE Inv
  OBVIOUS
<1>1. IsDirectory(files) /\ Len(files) \in Nat
  BY McfgAssumption DEF Init, IsDirectory
<1>2. ScanInv
  BY <1>1, NoInfoTold DEF Init, ScanInv, Reading
<1>3. EntriesTellTheirFiles /\ CrashesOverTheFile
  BY DEF Init, EntriesTellTheirFiles, CrashesOverTheFile
<1>4. BuffersInUse
  BY DEF Init, BuffersInUse, Reading
<1> QED
  BY <1>2, <1>3, <1>4 DEF Inv

LEMMA ScanStep == Inv /\ [Next]_vars => Inv'
<1> SUFFICES ASSUME Inv, [Next]_vars PROVE Inv'
  OBVIOUS
<1>1. CASE UNCHANGED vars
  <2>1. /\ ItemsInv' <=> ItemsInv
        /\ SectionsInv' <=> SectionsInv
        /\ InfoInv' <=> InfoInv
    BY <1>1 DEF vars, items, sections, ItemsInv, SectionsInv, InfoInv, Item, InFooter, Handled
  <2> QED
    BY <1>1, <2>1 DEF vars, items, sections, Inv, ScanInv, Reading, EntriesTellTheirFiles,
       BuffersInUse, CrashesOverTheFile
<1>2. CASE Next
  BY <1>2, OpenFailsKeeps, RefuseKeeps, AcceptKeeps, EndItemsKeeps, TooManySectionsKeeps,
     ReadItemKeeps, UnknownItemKeeps, MeetFooterKeeps, ReadSectionKeeps, UnsetNameKeeps,
     OverrunItemKeeps, OverrunSectionKeeps, InsideFooterKeeps
  DEF Next
<1> QED
  BY <1>1, <1>2

\* The walks always have behind them what was handled, and info says so.
THEOREM ScanInvTheorem == Spec => []ScanInv
<1>1. Inv => ScanInv
  BY DEF Inv
<1> QED
  BY <1>1, InitialInv, ScanStep, PTL DEF Spec

\* Each file's entry is about that file alone, whatever files came before it.
THEOREM EntriesTheorem == Spec => []EntriesTellTheirFiles
<1>1. Inv => EntriesTellTheirFiles
  BY DEF Inv
<1> QED
  BY <1>1, InitialInv, ScanStep, PTL DEF Spec

\* The header pointer is followed only into a buffer that is still allocated, and
\* the buffers of valid files are freed.
THEOREM BuffersTheorem == Spec => []BuffersInUse
<1>1. Inv => BuffersInUse
  BY DEF Inv
<1> QED
  BY <1>1, InitialInv, ScanStep, PTL DEF Spec

\* Sixteen bit sizes add up to the bytes walked in files of any length.
THEOREM SizesTheorem == Spec => []SizesSurviveTheWrap
<1>1. Inv => SizesSurviveTheWrap
  BY TheFile DEF Inv, SizesSurviveTheWrap, ItemsInv
<1> QED
  BY <1>1, InitialInv, ScanStep, PTL DEF Spec

\* The scan is lost over files that do not fit its arrays and over unknown sections
\* before the name; over no other file, whatever was scanned before.
THEOREM CrashTheorem == Spec => []CrashesOverTheFile
<1>1. Inv => CrashesOverTheFile
  BY DEF Inv
<1> QED
  BY <1>1, InitialInv, ScanStep, PTL DEF Spec

\* The cursor over the items implements the walk from record to record.
THEOREM ItemWalkTheorem == Spec => ImplementsItemWalk
<1>1. Init => ItemWalk!Init
  BY DEF Init, Reading, ItemWalk!Init
<1>2. ASSUME Inv, [Next]_vars PROVE [ItemWalk!Next]_ItemWalk!vars
  <2> DEFINE f == files[n]
             w == IF Reading THEN n ELSE 0
             l == IF Reading THEN files[head].start ELSE <<0>>
             p == IF Reading THEN Item ELSE 0
  <2>1. Reading => n \in 1 .. Len(files) /\ head = n /\ WellFormed(f)
    BY <1>2, TheFile DEF Inv
  <2>2. ASSUME Reading, ~Reading' PROVE ItemWalk!Next
    BY <2>1, <2>2 DEF ItemWalk!Next, ItemWalk!Another
  <2>3. ASSUME NEW k, ReadItem(k) PROVE ItemWalk!Next
    <3>1. AtItem(k) /\ Reading /\ phase' = phase /\ UNCHANGED <<files, n, head>> /\ i' = i + 1
          /\ current_offset' = current_offset + ItemHeader + Body(files[head].items[k])
          /\ files[head].items[k].type \in {"NV", "UNKNOWN", "NVFILE", "FILE"}
      BY <2>3 DEF ReadItem, AtItem, Reading, ItemEnd
    <3>2. /\ k = i + 1 /\ k \in 1 .. Len(f.items) /\ i \in Nat
          /\ Item = current_offset /\ current_offset = f.start[k]
      BY <1>2, <3>1, TheItem DEF Inv
    <3>3. current_offset' = f.start[k + 1] /\ k \in 1 .. Len(f.start) - 1
      <4>1. head = n /\ WellFormed(f)
        BY <2>1, <3>1
      <4>2. f.items[k].type \in {"NV", "UNKNOWN", "NVFILE", "FILE"}
        BY <3>1, <4>1
      <4>3. f.start[k + 1] = f.start[k] + (ItemHeader + Body(f.items[k]))
        BY <3>2, <4>1, <4>2, ItemFacts
      <4>6. Body(f.items[k]) \in Nat /\ f.start[k] \in Nat
        <5>1. f.items[k] \in Items /\ f.start[k] \in Nat
          BY <1>2, <3>1, <3>2, <4>1, FileFacts, TheItem DEF Inv
        <5> QED
          BY <4>2, <5>1, BodyTyped
      <4>4. Len(f.start) = Len(f.items) + 1 /\ Len(f.items) \in Nat
        BY <4>1, FileFacts
      <4>5. current_offset' = f.start[k + 1]
        <5>1. current_offset' = f.start[k] + ItemHeader + Body(f.items[k])
          BY <3>1, <3>2, <4>1
        <5>2. \A a, b \in Nat : a + ItemHeader + b = a + (ItemHeader + b)
          BY DEF ItemHeader
        <5> QED
          BY <4>3, <4>6, <5>1, <5>2
      <4> QED
        BY <3>2, <4>4, <4>5
    <3>4. Item' = current_offset'
      BY <2>1, <3>1, <3>2 DEF Item
    <3>5. Reading' /\ w' = w /\ l' = l /\ l = f.start /\ p = f.start[k] /\ p' = f.start[k + 1]
      BY <2>1, <3>1, <3>2, <3>3, <3>4 DEF Reading
    <3>6. ItemWalk!Advance
      BY <3>3, <3>5 DEF ItemWalk!Advance
    <3> QED
      BY <3>6 DEF ItemWalk!Next
  <2>4. ASSUME NEW k, MeetFooter(k) PROVE UNCHANGED ItemWalk!vars
    <3>1. AtItem(k) /\ Reading /\ Reading' /\ UNCHANGED <<files, n, head>> /\ i' = i + 1
          /\ current_offset' = current_offset + ItemHeader
          /\ files[head].items[k].type = "FOOT"
      BY <2>4 DEF MeetFooter, AtItem, Reading
    <3>2. /\ k = i + 1 /\ i \in Nat /\ Item = current_offset /\ current_offset \in Nat
      BY <1>2, <3>1, TheItem DEF Inv
    <3>3. Item' = current_offset
      BY <2>1, <3>1, <3>2 DEF Item, ItemHeader
    <3> QED
      BY <3>1, <3>2, <3>3 DEF ItemWalk!vars
  <2>5. ASSUME Accept PROVE ItemWalk!Next
    <3>1. /\ ~Reading /\ Reading' /\ n' = n + 1 /\ n \in Nat /\ n' \in 1 .. Len(files)
          /\ head' = n' /\ files' = files /\ i' = 0
          /\ current_offset' = files[n'].p_offset + FileHeader /\ IsDirectory(files)
      BY <1>2, <2>5 DEF Accept, NextFile, Reading, Inv, ScanInv, IsDirectory
    <3>2. files[n'].start[1] = files[n'].p_offset + FileHeader
      BY <3>1, FileFacts DEF IsDirectory
    <3>3. Item' = files[n'].start[1]
      BY <3>1, <3>2 DEF Item
    <3>4. w' # w /\ p' = l'[1]
      BY <3>1, <3>3
    <3> QED
      BY <3>4 DEF ItemWalk!Next, ItemWalk!Another
  <2>6. ASSUME ~Reading, ~Reading' PROVE UNCHANGED ItemWalk!vars
    BY <2>6 DEF ItemWalk!vars
  <2>7. ASSUME Reading, Reading', UNCHANGED <<files, n, head, i, current_offset>>
        PROVE  UNCHANGED ItemWalk!vars
    BY <2>7 DEF ItemWalk!vars, Item
  <2>8. CASE UNCHANGED vars
    BY <2>6, <2>7, <2>8 DEF vars, items, Reading
  <2>9. CASE OpenFails \/ Refuse
    BY <2>6, <2>9 DEF OpenFails, Refuse, NextFile, Report, Reading
  <2>10. CASE EndItems \/ InsideFooter \/ \E k : UnknownItem(k)
    BY <2>2, <2>10 DEF EndItems, InsideFooter, UnknownItem, AtItem, Report, Reading
  <2>11. CASE TooManySections \/ \E k : ReadSection(k)
    BY <2>7, <2>11 DEF TooManySections, ReadSection, AtSection, items, Reading
  <2>12. CASE \E k : UnsetName(k) \/ OverrunItem(k) \/ OverrunSection(k)
    BY <2>2, <2>12 DEF UnsetName, OverrunItem, OverrunSection, Crash, AtItem, AtSection, Reading
  <2> QED
    BY <1>2, <2>3, <2>4, <2>5, <2>8, <2>9, <2>10, <2>11, <2>12 DEF Next
<1> QED
  BY <1>1, <1>2, InitialInv, ScanStep, PTL DEF Spec, ImplementsItemWalk, ItemWalk!Spec

\* So does the cursor over the sections of each footer.
THEOREM SectionWalkTheorem == Spec => ImplementsSectionWalk
<1>1. Init => SectionWalk!Init
  BY DEF Init, SectionWalk!Init
<1>2. ASSUME Inv, [Next]_vars PROVE [SectionWalk!Next]_SectionWalk!vars
  <2> DEFINE f == files[n]
             w == IF phase = "footer" THEN n ELSE 0
             l == IF phase = "footer" THEN files[head].footer.start ELSE <<0>>
             p == IF phase = "footer" THEN curr_obj_offset ELSE 0
  <2>1. Reading => n \in 1 .. Len(files) /\ head = n /\ WellFormed(f)
    BY <1>2, TheFile DEF Inv
  <2>2. ASSUME phase = "footer", phase' # "footer" PROVE SectionWalk!Next
    BY <2>1, <2>2 DEF SectionWalk!Next, SectionWalk!Another, Reading
  <2>3. ASSUME NEW k, ReadSection(k), phase' = "footer" PROVE SectionWalk!Next
    <3>1. AtSection(k) /\ Reading /\ phase = "footer" /\ UNCHANGED <<files, n, head>>
          /\ curr_obj_offset' = curr_obj_offset + Stride(files[head].footer.sections[k])
      BY <2>3 DEF ReadSection, AtSection, Reading, SectionEnd
    <3>2. /\ k \in 1 .. Len(f.footer.sections)
          /\ curr_obj_offset = f.footer.start[k]
          /\ f.footer.start[k + 1] = f.footer.start[k] + Stride(f.footer.sections[k])
      BY <1>2, <3>1, TheSection DEF Inv
    <3>3. curr_obj_offset' = f.footer.start[k + 1]
      BY <2>1, <3>1, <3>2
    <3>4. k \in 1 .. Len(f.footer.start) - 1
      BY <2>1, <3>1, <3>2, FooterFacts
    <3>5. w' = w /\ l' = l /\ l = f.footer.start /\ p = f.footer.start[k]
          /\ p' = f.footer.start[k + 1]
      BY <2>1, <2>3, <3>1, <3>2, <3>3
    <3>6. SectionWalk!Advance
      BY <3>4, <3>5 DEF SectionWalk!Advance
    <3> QED
      BY <3>6 DEF SectionWalk!Next
  <2>4. ASSUME NEW k, MeetFooter(k), phase' = "footer" PROVE SectionWalk!Next
    <3>1. AtItem(k) /\ Reading /\ phase = "items" /\ UNCHANGED <<files, n, head>>
          /\ curr_obj_offset' = Footer
      BY <2>4 DEF MeetFooter, AtItem, Reading
    <3>2. f.footer.start[1] = Footer
      BY <2>1, <3>1, FooterFacts
    <3>3. w' # w /\ p' = l'[1]
      BY <2>1, <2>4, <3>1, <3>2
    <3> QED
      BY <3>3 DEF SectionWalk!Next, SectionWalk!Another
  <2>5. ASSUME phase # "footer", phase' # "footer" PROVE UNCHANGED SectionWalk!vars
    BY <2>5 DEF SectionWalk!vars
  <2>6. CASE UNCHANGED vars
    BY <2>6 DEF vars, sections, SectionWalk!vars
  <2>7. CASE \/ OpenFails \/ Refuse \/ Accept \/ EndItems \/ InsideFooter
             \/ \E k : UnknownItem(k) \/ ReadItem(k) \/ OverrunItem(k)
    BY <2>5, <2>7 DEF OpenFails, Refuse, Accept, EndItems, InsideFooter, UnknownItem, ReadItem,
       OverrunItem, Crash, NextFile, AtItem, Report
  <2>8. CASE TooManySections \/ \E k : UnsetName(k) \/ OverrunSection(k)
    BY <2>2, <2>8 DEF TooManySections, UnsetName, OverrunSection, Crash, AtSection
  <2>9. CASE \E k : MeetFooter(k)
    BY <2>4, <2>5, <2>9 DEF MeetFooter, AtItem
  <2>10. CASE \E k : ReadSection(k)
    BY <2>2, <2>3, <2>10 DEF ReadSection, AtSection
  <2> QED
    BY <1>2, <2>6, <2>7, <2>8, <2>9, <2>10 DEF Next
<1> QED
  BY <1>1, <1>2, InitialInv, ScanStep, PTL DEF Spec, ImplementsSectionWalk, SectionWalk!Spec
=============================================================================
