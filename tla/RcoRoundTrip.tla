---------------------------- MODULE RcoRoundTrip ----------------------------
(***************************************************************************)
(* write_rco followed by read_rco on the file it has written, as the       *)
(* rebuild and dump commands read what compile wrote.  The file is all     *)
(* that the two have in common.                                            *)
(***************************************************************************)
EXTENDS RcoWriterProps

CONSTANTS Roles, Memories

VARIABLES step, mem, at, room, ents, calls, found

(* The file as it stands, and what zlib makes of the packed data in it.    *)
Written ==
    [header |-> fileHeader, file |-> file, tables |-> tables, ps3 |-> rco.ps3,
     unpacked |-> [e \in E |-> IF rco.id[e] = TEXT THEN TextTotal(rco, e)
                               ELSE rco.srcLenUnpacked[e]]]

R == INSTANCE RcoReader WITH image <- Written

ASSUME RolesAssumption == R!RolesType
ASSUME MemoriesAssumption == R!MemoriesType

readerVars == <<step, mem, at, room, ents, calls, found>>

allVars == <<vars, readerVars>>

RoundInit == Init /\ R!Init

Write == Next /\ UNCHANGED readerVars
Read == pc = "done" /\ R!Next /\ UNCHANGED vars

RoundSpec == RoundInit /\ [][Write \/ Read]_allVars

(* Both run to the end in a single thread.                                 *)
FairRoundSpec == RoundSpec /\ WF_allVars(Write \/ Read)

-----------------------------------------------------------------------------
(* Every variable of the writer and of the reader has its type.            *)
RoundTypeOK == TypeOK /\ R!TypeOK

(* The reader keeps its place.                                             *)

(* The nth entry the reader comes to is the nth entry of the archive, at   *)
(* the place where write_entry put it and not somewhere near: for every    *)
(* kind of entry read_entry takes up just the words write_entry has left.  *)
InStep ==
    \A i \in DOMAIN ents : i \in E /\ ents[i].at = offset[i]

(* It needs no nextEntryOffset for that: "Entry boundaries not aligned" is *)
(* never said of a file that this program wrote.                           *)
Aligned ==
    (step = "entries" /\ calls # <<>> /\ calls[1].left = 0) =>
        calls[1].next \in {0, R!Consumed(calls[1])}

(* A file that was written is read unless its header is packed with RLZ or *)
(* the file cannot be opened: the checks of the regions and of the chain   *)
(* of texts let everything pass that the writer lays out.                  *)
Accepted ==
    /\ step # "undefined"
    /\ step = "failed" => room = 0 \/ opts.packHeader = RLZ

-----------------------------------------------------------------------------
(* What is read is what was written.                                       *)

(* Whose data, from which word on, there are n words of at a position.     *)
DataAt(inHeader, p, n) ==
    LET word(q) == IF inHeader THEN Word(q) ELSE FileWord(q)
        end == IF inHeader THEN StreamEnd ELSE FileEnd
        first == word(p)
    IN IF n = 0 THEN <<>>
       ELSE IF /\ p >= HeaderWords /\ p + n <= end
               /\ \A j \in 1..n : word(p + j - 1) = first + j - 1
       THEN <<R!OwnerOf(first), R!IndexOf(first) - 1>>
       ELSE <<Nil, 0>>

HasResource(id, type) == type = 1 /\ id \in {VSMX, IMG, MODEL, SOUND}

(* The resource that the entry read ith stands for.                        *)
ResourceOf(i) ==
    LET s == ents[i].src
    IN IF s.len = 0 THEN <<>>
       ELSE DataAt(s.compr = R!IN_RCO, s.addr, Words(s.len))

(* The text that an index of a language stands for: a place of the section *)
(* or, packed, a place within what the block of the language unpacks to.   *)
TextOf(s, index) ==
    LET n == Words(index.length)
        from == index.offset \div 4
    IN IF n = 0 THEN <<>>
       ELSE IF s.compr = NONE
       THEN IF from + n <= s.len THEN DataAt(FALSE, s.addr + from, n) ELSE <<Nil, 0>>
       ELSE IF from + n <= s.unpacked
       THEN <<DataAt(FALSE, s.addr, Words(s.len))[1], from>> ELSE <<Nil, 0>>

(* An archive without its places in a file: the nodes, their words, their  *)
(* texts and their resources.  A text of no length may come back as a null *)
(* one ("how null text data is represented", README).                      *)
Saved ==
    [nodes |-> [e \in E |->
        [id |-> rco.id[e], type |-> rco.type[e], label |-> rco.label[e],
         kids |-> rco.kids[e], attrs |-> rco.attrs[e], lang |-> rco.lang[e],
         channels |-> rco.channels[e], format |-> rco.format[e],
         texts |-> [j \in DOMAIN rco.indexes[e] |->
             LET t == rco.indexes[e][j]
             IN <<t.label, t.length,
                  IF t.length = 0 THEN <<>> ELSE <<e, TextUsed(rco, e)[j-1]>>>>],
         size |-> IF HasResource(rco.id[e], rco.type[e])
                  THEN rco.srcLenUnpacked[e] ELSE 0,
         resource |-> IF /\ HasResource(rco.id[e], rco.type[e])
                         /\ rco.srcLenUnpacked[e] # 0 THEN <<e, 0>> ELSE <<>>]],
     tbl |-> rco.tbl]

Restored ==
    [nodes |-> [i \in DOMAIN ents |->
        LET n == ents[i]
        IN [id |-> n.id, type |-> n.type, label |-> n.label, kids |-> n.kids,
            attrs |-> n.attrs, lang |-> n.lang, channels |-> n.channels,
            format |-> n.format,
            texts |-> [j \in DOMAIN n.indexes |->
                <<n.indexes[j].label, n.indexes[j].length,
                  TextOf(n.src, n.indexes[j])>>],
            size |-> IF HasResource(n.id, n.type) THEN n.src.unpacked ELSE 0,
            resource |-> IF HasResource(n.id, n.type) THEN ResourceOf(i) ELSE <<>>]],
     tbl |-> found.tbl]

(* Writer and reader together keep an archive: once read_rco is done every *)
(* entry has its number, kind, name, children, attributes, texts, channels *)
(* and data back, references lead to the same entries, and nothing of this *)
(* is to be had before.                                                    *)
Store == INSTANCE ArchiveStore WITH
            Nothing <- <<>>,
            saved <- Saved,
            loaded <- IF step = "done" THEN Restored ELSE <<>>

RestoresArchive == Store!Spec

(* write_rco ends, with a file or with an error, and read_rco ends on any  *)
(* file it has written, whatever was lost on the way into it: also on one  *)
(* whose header or texts cannot be inflated, when it reads on in memory it *)
(* has not set.  That memory holds one of Memories; with offsets in it that*)
(* lead back, and with languages enough, it might read one block again.    *)
Ends == <>(pc = "failed" \/ step \in {"done", "failed", "undefined"})
=============================================================================
