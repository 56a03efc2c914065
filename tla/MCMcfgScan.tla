------------------------------ MODULE MCMcfgScan ------------------------------
(***************************************************************************)
(* Constant values for checking McfgScan: pairs of files, each with a few  *)
(* items of every kind and a footer of up to MaxSections sections in every *)
(* order, or refused at one of the points where the code refuses it.       *)
(***************************************************************************)
EXTENDS McfgScan, SequencesExt

CONSTANTS Name, MaxItems, MaxSections

\* Where records begin that take Step(record) bytes each.
Begins(first, records, Step(_)) ==
  FoldLeft(LAMBDA begin, r : Append(begin, Last(begin) + Step(r)), <<first>>, records)

Section(id, len) ==
  [id |-> id, len |-> len, mcc |-> 0, mnc |-> 0, name |-> NoName, chars |-> 0]
Network(mcc, mnc) == [Section("MCC_MNC", 4) EXCEPT !.mcc = mcc, !.mnc = mnc]
Named(len, chars) == [Section("PROFILE_NAME", len) EXCEPT !.name = Name, !.chars = chars]
SectionKinds ==
  {Network(460, 11), Network(214, 7), Named(19, 18), Named(61, 128),
   Section("VERSION_1", 2), Section("OTHER", 0), Section("ALLOWED_ICCIDS", 62)}

FooterOf(secs, refused) ==
  LET begins == Begins(Footer, secs, SectionExtent) IN
  [refused |-> refused, sections |-> secs, start |-> begins,
   padded |-> 2, len |-> Last(begins) + 2 + 4]

OneName(secs) == Cardinality({k \in DOMAIN secs : secs[k].id = "PROFILE_NAME"}) <= 1
Footers ==
  {FooterOf(secs, FALSE) :
     secs \in {l \in UNION {[1 .. m -> SectionKinds] : m \in 1 .. MaxSections} : OneName(l)}}
Plain == FooterOf(<<CHOOSE s \in SectionKinds : s.mcc = 460>>, FALSE)
Broken == FooterOf(Plain.sections, TRUE)

\* Two kinds fill their arrays, two do not fit them; the last but one is larger than
\* sixteen bits can say.
ItemKinds ==
  {[type |-> "NV", len |-> 52, contents |-> 0],
   [type |-> "UNKNOWN", len |-> 53, contents |-> 0],
   [type |-> "FILE", len |-> 255, contents |-> 60000],
   [type |-> "NVFILE", len |-> 256, contents |-> 65500],
   [type |-> "OTHER", len |-> 0, contents |-> 0]}
Foot == [type |-> "FOOT", len |-> 0, contents |-> 0]

Size(item) == CASE item.type = "OTHER" -> 20
                [] item.type = "FOOT" -> 100
                [] OTHER -> ItemExtent(item)

Mcfg(refused, its, footer) ==
  [opens |-> TRUE, refused |-> refused, carrier_id |-> 260, p_offset |-> 8192,
   items |-> its, start |-> Begins(8192 + FileHeader, its, Size), footer |-> footer]

\* Every footer behind one item, every list of items with one footer or none.
NvItem == CHOOSE k \in ItemKinds : k.type = "NV"
ItemLists == UNION {[1 .. m -> ItemKinds] : m \in 0 .. MaxItems}
Files ==
  {Mcfg("no", <<NvItem, Foot>>, footer) : footer \in Footers \cup {Broken}} \cup
  {Mcfg("no", its, Plain) : its \in ItemLists \cup {Append(l, Foot) : l \in ItemLists}
                                     \cup {<<Foot>> \o l : l \in ItemLists}} \cup
  {Mcfg(refused, <<Foot>>, Plain) : refused \in {"ELF", "MCFG"}} \cup
  {[Mcfg("no", <<Foot>>, Plain) EXCEPT !.opens = FALSE]}

\* One file of each sort, for the second place.
Following == {f \in Files : Len(f.items) <= 1 \/ Len(f.footer.sections) = 2}

AllDirectories == {<<f, g>> : f \in Files, g \in Following}
=============================================================================
