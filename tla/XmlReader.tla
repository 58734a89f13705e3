----------------------------- MODULE XmlReader -----------------------------
(***************************************************************************)
(* read_xml (xmlread.c): how a document and the files it names become an   *)
(* archive in memory again.                                                *)
(*                                                                         *)
(* Elements are parsed depth first into entries, with references left as   *)
(* names; when all entries are known the references are resolved, then the *)
(* sizes of packed sources are corrected.  An action is one entry of one   *)
(* pass.  The last pass, which reorders the label block, is LabelStore; no *)
(* name changes in it.  root, doc, disk and docs are what was dumped, as   *)
(* in ResourceDump.                                                        *)
(***************************************************************************)
EXTENDS XmlArchive

VARIABLES
    root, doc, disk, docs,
    step,    \* the pass of read_xml
    next,    \* the number of elements parsed, or of entries passed
    ents,    \* the entries
    path,    \* the active calls of parse_entry, the outermost first
    tbl,     \* the shortcuts
    head     \* verId, umdFlag and ps3

vars == <<step, next, ents, path, tbl, head>>

Steps == {"closed", "entries", "refs", "sizes", "done", "failed", "undefined"}

Init ==
    /\ step = "closed" /\ next = 0
    /\ ents = <<>> /\ path = <<>>
    /\ tbl = [k \in Kinds |-> Nil]
    /\ head = [verId |-> 113, umdFlag |-> 0, ps3 |-> FALSE]

-----------------------------------------------------------------------------
(* The RcoFile element.                                                    *)

(* Firmware versions by the least tenths that stand for them.              *)
VersionOf(written, default) ==
    IF written = <<>> THEN default
    ELSE LET t == written[1].tenths
         IN IF t = 0 THEN written[1].id
            ELSE CASE t < 10 -> default
                   [] t \in 10..14 -> 112
                   [] t \in 15..25 -> 113
                   [] t = 26 -> 144
                   [] t = 27 -> 149
                   [] t \in 28..34 -> 150
                   [] t \in 35..62 -> 256
                   [] OTHER -> default

ReadRoot ==
    /\ step = "closed"
    /\ IF doc = <<>> THEN step' = "failed" /\ UNCHANGED head
       ELSE /\ head' = [verId |-> VersionOf(root[1].version, 113),
                        umdFlag |-> IF root[1].umdFlag \in 0..15
                                    THEN root[1].umdFlag ELSE 0,
                        ps3 |-> root[1].type = "ps3"]
            /\ step' = "entries"
    /\ UNCHANGED <<next, ents, path, tbl>>

-----------------------------------------------------------------------------
(* parse_entry.                                                            *)

(* The size of a file with texts; nothing is read from there by size.      *)
DocumentSize == 1

(* src and srcRange.  Of the compressions only zlib is understood.         *)
SourceOfRangeEnd(x) ==                                         \* mutant
    LET r == x.range[1]
    IN IF x.src = <<>> \/ x.range = <<>>
       THEN FromFile(x.src, 0, FileSize(disk, x.src), FileSize(disk, x.src), NONE)
       ELSE FromFile(x.src, r.from, r.to, r.to, IF r.compr = ZLIB THEN ZLIB ELSE NONE)

SourceOf(x) ==
    IF x.src = <<>> THEN NoSource
    ELSE IF x.range = <<>>
    THEN LET n == IF x.src \in DOMAIN docs THEN DocumentSize ELSE FileSize(disk, x.src)
         IN FromFile(x.src, 0, n, n, NONE)
    ELSE LET r == x.range[1]
             n == r.to - r.from
         IN FromFile(x.src, r.from, n, IF r.compr = ZLIB THEN r.unpacked ELSE n,
                     IF r.compr \in {ZLIB, RCO} THEN r.compr ELSE NONE)

(* The channels of a sound: given, of a file each, or one that is all of   *)
(* the file.  Files are put into the buffer at multiples of four.          *)
NotPadded(bytes) == bytes                                      \* mutant

Padded(bytes) == bytes \o [i \in 1..ALIGN_TO_4(Len(bytes)) - Len(bytes) |-> 0]

ReadSound(x, e) ==
    LET n == IF x.channels > 0 THEN x.channels ELSE 1
        bytes(i) == LET f == Expand(x.src, ToString(i - 1))
                    IN IF f \in DOMAIN disk THEN disk[f] ELSE <<>>
        at[i \in 1..n+1] == IF i = 1 THEN 0
                            ELSE at[i-1] + ALIGN_TO_4(Len(bytes(i-1)))
        none == [i \in 1..n |-> <<0, 0>>]
        sound == [e EXCEPT !.format = TextToInt(x.format, SoundNames, VAG)]
    IN IF x.parts # <<>>
       THEN [sound EXCEPT !.channels = IF Len(x.parts) = n THEN x.parts ELSE none]
       ELSE IF HasStar(x.src)
       THEN [sound EXCEPT
               !.channels = [i \in 1..n |-> <<Len(bytes(i)), at[i]>>],
               !.src = InMemory(@, FlattenSeq([i \in 1..n |-> Padded(bytes(i))]))]
       ELSE [sound EXCEPT
               !.channels = IF n = 1 /\ e.src.len # 0 THEN << <<e.src.len, 0>> >>
                            ELSE none]

(* Texts from a document of their own.  What fits in two bytes is taken    *)
(* for blank.                                                              *)
TextsOfDocument(d, w) ==
    LET length(i) == LET n == (Len(d[i].chars) + 1) * w
                     IN IF d[i].chars = <<>> \/ n <= 2 THEN 0 ELSE n
        at[i \in 1..Len(d)+1] == IF i = 1 THEN 0
                                 ELSE at[i-1] + ALIGN_TO_4(length(i-1))
    IN [texts |-> [i \in DOMAIN d |->
                     TextOf(d[i].name, length(i),
                            IF length(i) = 0 THEN NULL_PTR ELSE at[i])],
        bytes |-> FlattenSeq([i \in DOMAIN d |->
                     IF length(i) = 0 THEN <<>>
                     ELSE Padded(Encode(Append(d[i].chars, 0), w))])]

(* Texts from a file each, without their byte order marks.  The null       *)
(* character put behind a text is not counted in its length.               *)
TextFile(x, name) ==
    LET f == Expand(x.src, name) IN IF f \in DOMAIN disk THEN disk[f] ELSE <<>>

Marked(bytes) == bytes # <<>> /\ bytes[1] < 0

MarkedFormat(bytes) == (-bytes[1]) \div 10 - 1

TextBytes(x, name) == SelectSeq(TextFile(x, name), LAMBDA b : b >= 0)

(* A mark of another format than the one the code calls "utf-8" makes it   *)
(* convert, and converting writes to an address made of the mark's bytes.  *)
Converts(x, name) ==
    /\ Marked(TextFile(x, name)) /\ TextBytes(x, name) # <<>>
    /\ ~(MarkedFormat(TextFile(x, name)) = UTF8 /\ x.format = "utf8")

TextsOfFiles(x) ==
    LET bytes(i) == TextBytes(x, x.entries[i])
        at[i \in 1..Len(x.entries)+1] ==
          IF i = 1 THEN 0 ELSE at[i-1] + ALIGN_TO_4(Len(bytes(i-1)))
    IN [texts |-> [i \in DOMAIN x.entries |->
                     TextOf(x.entries[i], Len(bytes(i)), at[i])],
        bytes |-> FlattenSeq([i \in DOMAIN x.entries |-> Padded(bytes(i))])]

ReadTexts(x, e) ==
    LET language == [e EXCEPT !.lang = TextToInt(x.lang, LanguageNames, 0),
                              !.format = TextToInt(x.format, TextFormatNames, UTF16)]
        given == [i \in DOMAIN x.entries |-> TextOf(x.entries[i], 0, 0)]
        document == TextsOfDocument(docs[x.src], CharWidth(language.format))
        files == TextsOfFiles(x)
    IN IF x.entries = <<>>
       THEN IF x.src \notin DOMAIN docs \/ docs[x.src] = <<>> THEN language
            ELSE [language EXCEPT !.texts = document.texts,
                                  !.src = InMemory([@ EXCEPT !.file = <<>>],
                                                   document.bytes)]
       ELSE IF x.parts # <<>>
       THEN [language EXCEPT !.texts =
               IF Len(x.parts) # Len(given) THEN given
               ELSE [i \in DOMAIN given |->
                       TextOf(given[i].name, x.parts[i][1], x.parts[i][2])]]
       ELSE IF HasStar(x.src)
       THEN [language EXCEPT !.texts = files.texts,
                             !.src = InMemory(@, files.bytes)]
       ELSE [language EXCEPT !.texts =
               IF Len(given) = 1 /\ e.src.len # 0
               THEN <<[given[1] EXCEPT !.length = e.src.len]>> ELSE given]

(* rcoxml_parse_ref and rcoxml_parse_value.  The raw pointer of an unknown *)
(* reference type is written in hexadecimal and read as a decimal.         *)
ReadWord(w) == IF w.type = "other" THEN [w EXCEPT !.v = 0] ELSE w

ReadWords(x) == [i \in DOMAIN x.words |-> ReadWord(x.words[i])]

ReadExtra(x) ==
    LET e == [BlankEntry EXCEPT !.id = x.id, !.type = x.type, !.name = x.name,
                                !.src = SourceOf(x)]
    IN CASE x.id \in {IMG, MODEL} /\ x.type = 1 ->
              [e EXCEPT !.format = IF x.id = IMG
                                   THEN TextToInt(x.format, ImageNames, 5)
                                   ELSE TextToInt(x.format, ModelNames, 0),
                        !.compression = TextToInt(x.compression, CompressionNames, NONE)]
         [] x.id = SOUND /\ x.type = 1 -> ReadSound(x, e)
         [] x.id = TEXT /\ x.type = 1 -> ReadTexts(x, e)
         [] OTHER -> [e EXCEPT !.words = ReadWords(x)]

IsShortcut(e) == e.type = 0 \/ (e.type = 1 /\ e.id = VSMX)

(* An element; its parent is the last call that lies less deep.            *)
ParseEntry ==
    /\ step = "entries" /\ next < Len(doc)
    /\ LET x == doc[next + 1]
           e == next + 1
           callers == SubSeq(path, 1, x.depth - 1)
           undefined == /\ x.id = TEXT /\ x.parts = <<>> /\ HasStar(x.src)
                        /\ \E i \in DOMAIN x.entries : Converts(x, x.entries[i])
           entry == ReadExtra(x)
       IN IF undefined THEN step' = "undefined" /\ UNCHANGED <<next, ents, path, tbl>>
          ELSE /\ ents' = Append(IF callers = <<>> THEN ents
                                 ELSE [ents EXCEPT ![Last(callers)].kids = Append(@, e)],
                                 entry)
               /\ path' = Append(callers, e)
               /\ tbl' = IF IsShortcut(entry) /\ tbl[x.id] = Nil
                         THEN [tbl EXCEPT ![x.id] = e] ELSE tbl
               /\ next' = e
               /\ UNCHANGED step
    /\ UNCHANGED head

EntriesParsed ==
    /\ step = "entries" /\ next = Len(doc)
    /\ step' = "refs" /\ next' = 0 /\ path' = <<>>
    /\ UNCHANGED <<ents, tbl, head>>

-----------------------------------------------------------------------------
(* The passes over the entries.                                            *)

(* rcoxml_fix_ref.  Only the first language is searched for a text.        *)
Resolved(w) ==
    LET l == FirstLanguage(ents, tbl)
    IN CASE w.type \in EntryRefTypes -> To(w.type, FindEntry(ents, w.s))
         [] w.type = "text" ->
              To("text", IF l = Nil THEN NULL_PTR ELSE FindText(ents[l].texts, w.s))
         [] OTHER -> w

HasRefs(e) == (e.id = OBJ /\ e.type > 0) \/ (e.id = ANIM /\ e.type > 1)

(* rco_fix_decomp_sizes.                                                   *)
TrueSize(s) ==
    LET packed == Slice(disk[s.file], s.addr, s.len)
    IN IF s.file # <<>> /\ s.compr = ZLIB /\ s.file \in DOMAIN disk
          /\ packed \in DOMAIN Inflated
       THEN [s EXCEPT !.unpacked = Len(Inflated[packed])] ELSE s

(* A step of a pass makes changed of the next entry.                       *)
current == ents[next + 1]

Pass(p, following, changed) ==
    /\ step = p
    /\ IF next < Len(ents)
       THEN /\ ents' = [ents EXCEPT ![next + 1] = changed]
            /\ next' = next + 1 /\ UNCHANGED step
       ELSE step' = following /\ next' = 0 /\ UNCHANGED ents
    /\ UNCHANGED <<path, tbl, head>>

FixRefs ==
    Pass("refs", "sizes",
         IF HasRefs(current)
         THEN [current EXCEPT !.words = [i \in DOMAIN @ |-> Resolved(@[i])]]
         ELSE current)

FixSizes == Pass("sizes", "done", [current EXCEPT !.src = TrueSize(@)])

Next == ReadRoot \/ ParseEntry \/ EntriesParsed \/ FixRefs \/ FixSizes
=============================================================================
