---------------------------- MODULE ResourceDump ----------------------------
(***************************************************************************)
(* The dump command (main_dump, rcodump.c, xmlwrite.c) from the archive    *)
(* that read_rco returned on: resources are written to files, their        *)
(* entries are made to point there, and the tree is written as XML.        *)
(*                                                                         *)
(* An action dumps one entry or writes one element.  The document is the   *)
(* sequence of its elements in document order with their depth.            *)
(***************************************************************************)
EXTENDS XmlArchive

CONSTANTS
    Jobs,  \* command lines, with the archive and the files they find
    Junk   \* bytes that memory may hold which nobody has written to

(* No directory was named, or "-" for "do not dump".                       *)
DEFAULT == ""
SKIP == "-"

IsCommand(o) ==
    /\ \A f \in {"dir", "img", "snd", "mdl", "txt", "vsmx"} : o[f] \in STRING
    /\ o.txtOut \in BOOLEAN

ASSUME JobsAssumption == \A j \in Jobs : IsCommand(j.opts)
ASSUME JunkAssumption == Junk # {} /\ Junk \subseteq Nat

VARIABLES
    phase,   \* where main_dump is
    opts,    \* its options
    rco,     \* entries (ents), shortcuts (tbl), verId, umdFlag, ps3
    disk,    \* the files: bytes by name
    docs,    \* the text documents: lists of names and characters, by name
    todo,    \* the entries the loop of the phase has still to visit
    root,    \* attributes of the RcoFile element, <<>> before it is written
    doc      \* the elements written

vars == <<phase, opts, rco, disk, docs, todo, root, doc>>

-----------------------------------------------------------------------------
(* What the options come to.                                               *)

HasTables ==
    \E k \in {IMG, SOUND, MODEL, VSMX, TEXT} : rco.tbl[k] # Nil

Wanted(d) == HasTables /\ opts.dir # SKIP /\ d # SKIP

(* RCO_PRINT_PATH.                                                         *)
PathTo(d) == SelectSeq(<<opts.dir, d>>, LAMBDA part : part # DEFAULT)

sndDumped == Wanted(opts.snd)

(* textDir of write_xml, <<>> for NULL.                                    *)
textDir == IF Wanted(opts.txt) THEN PathTo(opts.txt) ELSE <<>>

textXmlOut == ~(opts.txtOut \/ opts.dir = SKIP \/ opts.txt = SKIP)

Ent(e) == rco.ents[e]
Children(k) == IF rco.tbl[k] = Nil THEN <<>> ELSE Ent(rco.tbl[k]).kids

(* The first label of an archive is that of the main table; offset 0 is    *)
(* taken for the lack of one.                                              *)
AtOffset0(name) == <<name>> = Ent(1).name

LabelOf(name) == IF AtOffset0(name) THEN "No Label" ELSE name   \* get_label_from_offset

Source(e) == Ent(e).src
SetSource(e, s) == rco' = [rco EXCEPT !.ents[e].src = s]

-----------------------------------------------------------------------------
(* Phases.                                                                 *)

Work(p) ==
    CASE p = "images" -> IF Wanted(opts.img) THEN Children(IMG) ELSE <<>>
      [] p = "sounds" -> IF Wanted(opts.snd) THEN Children(SOUND) ELSE <<>>
      [] p = "models" -> IF Wanted(opts.mdl) THEN Children(MODEL) ELSE <<>>
      [] p = "texts"  -> IF Wanted(opts.txt) THEN Children(TEXT) ELSE <<>>
      [] p = "vsmx"   -> IF Wanted(opts.vsmx) /\ rco.tbl[VSMX] # Nil
                         THEN SelectSeq(Ent(1).kids, LAMBDA e : Ent(e).id = VSMX)
                         ELSE <<>>
      [] p = "xml"    -> Below(rco.ents, 1)
      [] OTHER -> <<>>

Goto(p) == phase' = p /\ todo' = Work(p)

Fallthrough(p, q) ==
    /\ phase = p /\ todo = <<>>
    /\ Goto(q)
    /\ UNCHANGED <<opts, rco, disk, docs, root, doc>>

Init ==
    /\ \E j \in Jobs : opts = j.opts /\ rco = j.rco /\ disk = j.disk /\ docs = j.docs
    /\ phase = "images" /\ todo = Work("images")
    /\ root = <<>> /\ doc = <<>>

-----------------------------------------------------------------------------
(* Dumping resources.                                                      *)

(* The disk after dump_resource: an existing file is left alone, and there *)
(* is no file for an empty or unreadable resource.                         *)
DumpedAnyway(d, f, s) ==                                       \* mutant
    LET data == ReadResource(d, s)
    IN IF data = <<>> THEN d ELSE Put(d, f, data[1])

Dumped(d, f, s) ==
    LET data == ReadResource(d, s)
    IN IF f \in DOMAIN d \cup DOMAIN docs \/ data \in {<<>>, << <<>> >>} THEN d
       ELSE Put(d, f, Slice(data[1], 0, s.unpacked))

Extension(e) ==
    LET map == IF e.id = IMG THEN ImageNames ELSE ModelNames
    IN IF e.format < Len(map) THEN map[e.format + 1]
       ELSE IF e.format = Len(map) THEN "" ELSE "dat"

(* An image or model; the source is the file whether it was written or not. *)
DumpPlain(path) ==
    /\ todo # <<>>
    /\ LET e == Head(todo)
           f == path \o <<LabelOf(Ent(e).name[1]), Extension(Ent(e))>>
           d == Dumped(disk, f, Source(e))
           n == FileSize(d, f)
       IN /\ disk' = d
          /\ SetSource(e, [Source(e) EXCEPT !.file = f, !.addr = 0, !.len = n,
                                            !.unpacked = n, !.compr = NONE])
    /\ todo' = Tail(todo)
    /\ UNCHANGED <<phase, opts, docs, root, doc>>

DumpImage == phase = "images" /\ DumpPlain(PathTo(opts.img))
DumpModel == phase = "models" /\ DumpPlain(PathTo(opts.mdl))

(* A file for each channel, with the source narrowed to it meanwhile.      *)
ChannelUnshifted(s, ch) ==                                     \* mutant
    [s EXCEPT !.len = ch[1], !.unpacked = ch[1], !.addr = ch[2]]

ChannelSource(s, ch) ==
    [s EXCEPT !.len = ch[1], !.unpacked = ch[1], !.addr = @ + ch[2]]

(* The extension is set for good by the first sound in VAG format.         *)
SoundExtension(e) ==
    LET sounds == Children(SOUND)
    IN IF \E i \in 1..IndexFirstSubSeq(<<e>>, sounds) : Ent(sounds[i]).format = VAG
       THEN "vag" ELSE "dat"

DumpSound ==
    /\ phase = "sounds" /\ todo # <<>>
    /\ LET e == Head(todo)
           ch == Ent(e).channels
           name(ext) == PathTo(opts.snd) \o <<LabelOf(Ent(e).name[1]), "ch", "*", ext>>
           pattern == name("vag")
           file(i) == Expand(name(SoundExtension(e)), ToString(i - 1))
       IN /\ disk' = FoldLeft(LAMBDA d, i : Dumped(d, file(i), ChannelSource(Source(e), ch[i])),
                              disk, [i \in DOMAIN ch |-> i])
          /\ SetSource(e, [Source(e) EXCEPT
                             !.file = IF ch = <<>> THEN <<>> ELSE pattern,
                             !.addr = 0, !.len = Source(e).unpacked,
                             !.compr = NONE])
    /\ todo' = Tail(todo)
    /\ UNCHANGED <<phase, opts, docs, root, doc>>

(* A text without the null character that ends it.                         *)
Unterminated(bytes, w) ==
    LET n == Len(bytes)
    IN IF n >= w /\ \A j \in 0..w-1 : bytes[n - j] = 0
       THEN Slice(bytes, 0, n - w) ELSE bytes

(* The buffer of a language: what zlib does not fill, or all of it for a   *)
(* compression that is not known, is what the memory held.                 *)
TextBuffers(s, raw) ==
    CASE s.compr = NONE -> {raw}
      [] s.compr = ZLIB -> {Inflate(raw, s.unpacked, g) : g \in Junk}
      [] OTHER -> {Filled(<<>>, s.unpacked, g) : g \in Junk}

(* Where the texts of a language go: a document, or a file each.           *)
LanguagePath(e) ==
    Append(PathTo(opts.txt), IntToText(Ent(e).lang, LanguageNames))

DocumentFile(e) == LanguagePath(e) \o <<"xml">>
TextPattern(e) == LanguagePath(e) \o <<"*", "txt">>
TextFile(e, t) == Expand(TextPattern(e), LabelOf(t.name))

(* Files and documents that exist are overwritten, by a later text of the  *)
(* same name too.  If the source cannot be opened no language after it is  *)
(* dumped either.                                                          *)
DumpTextTo(e, buffer) ==
    LET w == CharWidth(Ent(e).format)
        text(t) == Unterminated(Slice(buffer, t.offset, t.length), w)
        characters(t) == SelectSeq(Decode(text(t), w), LAMBDA c : c # 0)
    IN IF opts.txtOut
       THEN /\ disk' = FoldLeft(LAMBDA d, t :
                           Put(d, TextFile(e, t), BOM(Ent(e).format) \o text(t)),
                           disk, Ent(e).texts)
            /\ UNCHANGED docs
       ELSE /\ docs' = Put(docs, DocumentFile(e),
                           [j \in DOMAIN Ent(e).texts |->
                              LET t == Ent(e).texts[j]
                              IN [name |-> LabelOf(t.name), chars |-> characters(t)]])
            /\ UNCHANGED disk

DumpText ==
    /\ phase = "texts" /\ todo # <<>>
    /\ LET e == Head(todo)
           s == Source(e)
       IN IF s.file \notin DOMAIN disk
          THEN todo' = <<>> /\ UNCHANGED <<rco, disk, docs>>
          ELSE /\ SetSource(e, [s EXCEPT !.file = IF opts.txtOut THEN TextPattern(e)
                                                  ELSE DocumentFile(e)])
               /\ todo' = Tail(todo)
               /\ \E buffer \in TextBuffers(s, Slice(disk[s.file], s.addr, s.len)) :
                     DumpTextTo(e, buffer)
    /\ UNCHANGED <<phase, opts, root, doc>>

(* The length of the source is left as it was.                             *)
DumpVsmx ==
    /\ phase = "vsmx" /\ todo # <<>>
    /\ LET e == Head(todo)
           name == Ent(e).name[1]
           f == PathTo(opts.vsmx) \o <<IF AtOffset0(name) THEN "vsmx" ELSE name, "vsmx">>
       IN /\ disk' = Dumped(disk, f, Source(e))
          /\ SetSource(e, [Source(e) EXCEPT !.file = f, !.addr = 0, !.compr = NONE])
    /\ todo' = Tail(todo)
    /\ UNCHANGED <<phase, opts, docs, root, doc>>

-----------------------------------------------------------------------------
(* write_xml.                                                              *)

(* Firmware versions are written in tenths; an identifier that is none is  *)
(* written as it is, and 0 not at all.                                     *)
Versions == << <<112, 10>>, <<113, 15>>, <<144, 26>>, <<149, 27>>, <<150, 28>>,
               <<256, 35>> >>

WrittenVersion(verId) ==
    LET known == SelectSeq(Versions, LAMBDA v : v[1] = verId)
    IN IF verId = 0 THEN <<>>
       ELSE IF known # <<>> THEN << [tenths |-> known[1][2], id |-> 0] >>
       ELSE << [tenths |-> 0, id |-> verId] >>

WriteRoot ==
    /\ phase = "open"
    /\ root' = <<[version |-> WrittenVersion(rco.verId), umdFlag |-> rco.umdFlag,
                  type |-> IF rco.ps3 THEN "ps3" ELSE "psp"]>>
    /\ Goto("xml")
    /\ UNCHANGED <<opts, rco, disk, docs, doc>>

(* srcRange, when the source is not simply a whole file.                   *)
SrcRange(e) ==
    LET s == e.src
    IN IF /\ e.id = TEXT => ~textXmlOut /\ textDir = <<>>
          /\ e.id = SOUND => ~sndDumped
          /\ s.file # <<>>
          /\ s.addr # 0 \/ s.compr # NONE \/ s.len # FileSize(disk, s.file)
       THEN <<[from |-> s.addr, to |-> s.addr + s.len, compr |-> s.compr,
               unpacked |-> s.unpacked]>>
       ELSE <<>>

Parts(ps) == [i \in DOMAIN ps |-> <<ps[i].length, ps[i].offset>>]

SrcParts(e) ==
    CASE e.id = SOUND /\ ~sndDumped -> e.channels
      [] e.id = TEXT /\ ~textXmlOut /\ textDir = <<>> -> Parts(e.texts)
      [] OTHER -> <<>>

(* xml_fputref: references are written by name, texts by their name in the *)
(* first language.  Floats are written with six digits.                    *)
WrittenWord(w) ==
    CASE w.type \in EntryRefTypes ->
           LET name == Ent(w.v).name
           IN Named(w.type, IF name = <<>> THEN "" ELSE name[1])
      [] w.type = "text" ->
           LET l == FirstLanguage(rco.ents, rco.tbl)
           IN Named("text", IF l = Nil THEN "" ELSE Ent(l).texts[w.v + 1].name)
      [] w.type = "float" -> AttrFloat(SixDigits(w.v))
      [] OTHER -> w

(* Attributes of objects and of animations.                                *)
WrittenExtra(e) == [i \in DOMAIN e.words |-> WrittenWord(e.words[i])]

Formats(id) ==
    CASE id = TEXT -> TextFormatNames [] id = IMG -> ImageNames
      [] id = MODEL -> ModelNames     [] OTHER -> SoundNames

(* xmlwrite_entry without its children.  A container has no more than a    *)
(* name and a source.                                                      *)
Element(n, depth) ==
    LET e == Ent(n)
        plain == [depth |-> depth, id |-> e.id, type |-> e.type, name |-> e.name,
                  src |-> e.src.file, range |-> SrcRange(e), parts |-> <<>>,
                  lang |-> "", format |-> "", compression |-> "",
                  entries |-> <<>>, channels |-> 0, words |-> <<>>]
        container == e.type = 0 \/ (e.id = MAIN /\ e.type = 1)
        data == [plain EXCEPT !.format = IntToText(e.format, Formats(e.id)),
                              !.parts = SrcParts(e)]
    IN IF container THEN plain
       ELSE CASE e.id = TEXT ->
              [data EXCEPT !.lang = IntToText(e.lang, LanguageNames),
                           !.entries = IF textXmlOut THEN <<>>
                                       ELSE [j \in DOMAIN e.texts |-> e.texts[j].name]]
         [] e.id \in {IMG, MODEL} ->
              [data EXCEPT !.compression = IntToText(e.compression, CompressionNames)]
         [] e.id = SOUND ->
              [data EXCEPT !.channels = IF e.format = VAG THEN Len(e.channels) ELSE 0]
         [] OTHER -> [plain EXCEPT !.words = WrittenExtra(e)]

(* How deep entry n lies; the main table at 1.                             *)
DepthOf(n) == Cardinality({a \in DOMAIN rco.ents :
                            n \in ToSet(Below(rco.ents, a))})

WriteElement ==
    /\ phase = "xml" /\ todo # <<>>
    /\ doc' = Append(doc, Element(Head(todo), DepthOf(Head(todo))))
    /\ todo' = Tail(todo)
    /\ UNCHANGED <<phase, opts, rco, disk, docs, root>>

-----------------------------------------------------------------------------
Next ==
    \/ DumpImage \/ DumpSound \/ DumpModel \/ DumpText \/ DumpVsmx
    \/ WriteRoot \/ WriteElement
    \/ Fallthrough("images", "sounds")
    \/ Fallthrough("sounds", "models")
    \/ Fallthrough("models", "texts")
    \/ Fallthrough("texts", "vsmx")
    \/ Fallthrough("vsmx", "open")
    \/ Fallthrough("xml", "done")

Spec == Init /\ [][Next]_vars
=============================================================================
