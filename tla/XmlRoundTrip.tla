---------------------------- MODULE XmlRoundTrip ----------------------------
(***************************************************************************)
(* The dump command followed by the reading part of compile, on what dump  *)
(* has written: the document and the files.                                *)
(***************************************************************************)
EXTENDS ResourceDump

VARIABLES step, next, ents, path, tbl, head

VARIABLE start   \* the archive, the files and the documents dump began with

X == INSTANCE XmlReader

readerVars == <<step, next, ents, path, tbl, head>>

allVars == <<vars, readerVars, start>>

RoundInit == Init /\ X!Init /\ start = [rco |-> rco, disk |-> disk, docs |-> docs]

Dump == Next /\ UNCHANGED <<readerVars, start>>
Read == phase = "done" /\ X!Next /\ UNCHANGED <<vars, start>>

RoundSpec == RoundInit /\ [][Dump \/ Read]_allVars

-----------------------------------------------------------------------------
(* What is behind an entry, wherever its source is.                        *)

ResourceBehind(s) == LET r == ReadResource(disk, s) IN IF r = <<>> THEN <<>> ELSE r[1]

(* A channel is a part of the source, or a file of its own.                *)
ChannelsBehind(e) ==
    [c \in DOMAIN e.channels |->
        LET f == Expand(e.src.file, ToString(c - 1))
        IN IF HasStar(e.src.file) /\ e.src.buffer = <<>>
           THEN IF f \in DOMAIN disk THEN disk[f] ELSE <<>>
           ELSE Slice(ResourceBehind(e.src), e.channels[c][2], e.channels[c][1])]

(* The characters of text j of a language, without the one that ends it.   *)
CharsBehind(e, j) ==
    LET t == e.texts[j]
        w == CharWidth(e.format)
        f == Expand(e.src.file, LabelOf(t.name))
        bytes == CASE HasStar(e.src.file) /\ e.src.buffer = <<>> ->
                        IF f \in DOMAIN disk
                        THEN SelectSeq(disk[f], LAMBDA b : b >= 0) ELSE <<>>
                   [] OTHER -> Slice(ResourceBehind(e.src), t.offset, t.length)
    IN IF e.src.file \in DOMAIN docs THEN docs[e.src.file][j].chars
       ELSE IF t.length = 0 THEN <<>>
       ELSE Decode(Unterminated(bytes, w), w)

Content(e) ==
    [id |-> e.id, type |-> e.type, name |-> e.name, kids |-> e.kids,
     words |-> e.words, lang |-> e.lang, format |-> e.format,
     compression |-> e.compression,
     texts |-> [j \in DOMAIN e.texts |-> <<e.texts[j].name, CharsBehind(e, j)>>],
     channels |-> ChannelsBehind(e),
     resource |-> IF HasResource(e) /\ e.id # SOUND THEN ResourceBehind(e.src)
                  ELSE <<>>]

Contents(es) == [e \in DOMAIN es |-> Content(es[e])]

(* Version 0 is that of a file for the first firmware that is written      *)
(* nowhere, and read as the default.                                       *)
Archived(es, shortcuts, h) ==
    [nodes |-> Contents(es), tbl |-> shortcuts, umdFlag |-> h.umdFlag,
     ps3 |-> h.ps3, verId |-> IF h.verId = 0 THEN 113 ELSE h.verId]

-----------------------------------------------------------------------------
(* Every variable of dump and read has its type.                           *)
RoundTypeOK ==
    /\ phase \in {"images", "sounds", "models", "texts", "vsmx", "open", "xml", "done"}
    /\ opts \in {j.opts : j \in Jobs}
    /\ todo \in Seq(DOMAIN rco.ents)
    /\ \A f \in DOMAIN disk : disk[f] \in Seq(Int)
    /\ \A e \in DOMAIN rco.ents :
         Source(e).compr = RCO => Source(e).file \in DOMAIN PackedTables
    /\ Len(doc) <= Len(rco.ents) /\ Len(root) <= 1
    /\ step \in X!Steps /\ next \in 0..Len(doc)
    /\ \A e \in DOMAIN ents : \A i \in DOMAIN ents[e].words :
         LET w == ents[e].words[i]
             l == X!FirstLanguage(ents, tbl)
         IN /\ w.type \in EntryRefTypes => w.v \in DOMAIN ents \cup {Nil}
            /\ w.type = "text" =>
                 w.v \in {NULL_PTR, 0} \cup {j - 1 : j \in DOMAIN ents[l].texts}
    /\ path \in Seq(DOMAIN ents) /\ tbl \in [Kinds -> DOMAIN ents \cup {Nil}]

(* Dumping and reading keep an archive.  At every single step what its     *)
(* entries stand for is still to be had, from the RCO file or from the     *)
(* file it was moved to; and when read_xml is done every entry has its     *)
(* number, kind, name, children, attributes, texts, channels and bytes     *)
(* back and every reference leads to the same entry, text or event.        *)
(* The contents are kept if the names of resources in their tree and of    *)
(* texts in their language are their own (of two that would go to one file *)
(* one is lost), no file of a resource was there before (it would be taken *)
(* for what the archive has), and texts can be inflated (the buffer is not *)
(* cleared: what is dumped of others is what the memory held).             *)
NamesDistinct ==
    /\ \A p \in DOMAIN start.rco.ents :
         \A a, b \in ToSet(start.rco.ents[p].kids) :
           a # b /\ HasResource(Ent(a)) /\ HasResource(Ent(b)) => Ent(a).name # Ent(b).name
    /\ \A e \in DOMAIN start.rco.ents :
         \A i, j \in DOMAIN Ent(e).texts :
           i # j => Ent(e).texts[i].name # Ent(e).texts[j].name

IsTextFile(f) == Last(f) = "txt"

NoFileInTheWay ==
    \A f \in DOMAIN start.disk :
       IsTextFile(f) \/ \E e \in DOMAIN start.rco.ents : start.rco.ents[e].src.file = f

TextsInflate ==
    \A e \in DOMAIN start.rco.ents :
       LET s == start.rco.ents[e].src
       IN Ent(e).id = TEXT /\ s.compr # NONE =>
            s.compr = ZLIB
              /\ Len(Made(Slice(start.disk[s.file], s.addr, s.len))) >= s.unpacked

Kept(a) == IF NamesDistinct /\ NoFileInTheWay /\ TextsInflate THEN a
           ELSE [a EXCEPT !.nodes = <<>>]

Store == INSTANCE ArchiveStore WITH
            Nothing <- <<>>,
            saved <- Kept(Archived(rco.ents, rco.tbl, rco)),
            loaded <- IF step = "done" THEN Kept(Archived(ents, tbl, head)) ELSE <<>>

RestoresArchive == Store!Spec

(* A size that is given is the size of what is there: srcLenUnpacked, by   *)
(* which write_rco reserves room, is what read_resource returns.           *)
SizesTrue ==
    step = "done" =>
      \A e \in DOMAIN ents :
        HasResource(ents[e]) =>
          Len(ResourceBehind(ents[e].src)) = ents[e].src.unpacked

(* Dump overwrites nothing but texts.  A file or document that is there,   *)
(* from before dump or written by it, changes only while the language it   *)
(* belongs to is dumped; and never if another entry has its bytes there    *)
(* (the languages of an archive being different).                          *)
Overwritten(f) ==
    \/ f \in DOMAIN disk /\ (f \notin DOMAIN disk' \/ disk'[f] # disk[f])
    \/ f \in DOMAIN docs /\ (f \notin DOMAIN docs' \/ docs'[f] # docs[f])

FilesOfTexts(e) ==
    IF opts.txtOut THEN {TextFile(e, t) : t \in ToSet(Ent(e).texts)} ELSE {DocumentFile(e)}

FilesBehind(e) ==
    IF ~HasStar(Source(e).file) THEN {Source(e).file}
    ELSE {TextFile(e, t) : t \in ToSet(Ent(e).texts)}
           \cup {Expand(Source(e).file, ToString(c - 1)) : c \in DOMAIN Ent(e).channels}

FilesKept ==
    [][\A f \in DOMAIN disk \cup DOMAIN docs : Overwritten(f) =>
          /\ phase = "texts" /\ f \in FilesOfTexts(Head(todo))
          /\ \A e \in DOMAIN rco.ents \ {Head(todo)} : f \notin FilesBehind(e)
      ]_<<disk, docs>>

(* Texts lie in the buffer one behind the other, at multiples of four, and *)
(* within it.                                                              *)
TextsApart ==
    \A e \in DOMAIN ents :
      LET t == ents[e].texts
          full == {j \in DOMAIN t : t[j].length # 0}
      IN ents[e].src.buffer # <<>> /\ ents[e].id = TEXT =>
           /\ \A j \in full : /\ t[j].offset % 4 = 0
                              /\ t[j].offset + t[j].length <= ents[e].src.len
           /\ \A i, j \in full : i < j => t[i].offset + t[i].length <= t[j].offset

(* What dump has written can be compiled.                                  *)
DumpCompiles == step \notin {"failed", "undefined"}
=============================================================================
