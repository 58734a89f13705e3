----------------------------- MODULE RcoWriter -----------------------------
(***************************************************************************)
(* write_rco (rcowriter.c): how an archive in memory becomes an RCO file.  *)
(*                                                                         *)
(* The writer works in phases.  It first packs every image, sound and      *)
(* model into a temporary file, so that their packed lengths are known;    *)
(* then it writes the tree of entries depth first, leaving placeholders    *)
(* for what it does not know yet (nextEntryOffset, references); then it    *)
(* goes back to patch the references, and appends the hash tables, the     *)
(* texts, the labels and the events; and it finally appends the packed     *)
(* resources and rewrites the header.  With a packed header everything     *)
(* between the file header and the resources goes to a memory buffer that  *)
(* is compressed into the file at the end.                                 *)
(*                                                                         *)
(* Each phase is a value of pc, its loop variable is the sequence todo of  *)
(* what is still to be visited, and an action is one iteration.            *)
(***************************************************************************)
EXTENDS RcoFormat, HashTable, SequencesExt

CONSTANTS
    Archives,     \* the archives that may be written
    Options,      \* the writerco_options that main.c may build
    PackedLens,   \* lengths a compressor may return, 0 when it fails
    LabelSum,     \* the sum of the characters of the label at an offset
    Garbage       \* what an uninitialised word may hold

IsOptions(o) ==
    /\ o.packHeader \in Compressions
    /\ o.packText = o.packHeader                    \* get_pack_opts
    /\ o.packImg \in Compressions \cup {-1}
    /\ o.packImgCompr \in Compressions \cup {-1}
    /\ o.packModel \in Compressions \cup {-1}

ASSUME ArchivesAssumption == \A a \in Archives : IsArchive(a)
ASSUME OptionsAssumption == \A o \in Options : IsOptions(o)
ASSUME PackedLensAssumption == PackedLens \subseteq Nat /\ PackedLens # {}
ASSUME GarbageAssumption == Garbage \subseteq Int /\ Garbage # {}
(* Below twice a number there is a prime (Bertrand): find_larger_prime ends. *)
ASSUME PrimesAssumption ==
    \A a \in Archives : \A m \in 3..a.n :
        \E p \in m..2*m : p % 2 = 1 /\ IsPrime(p)
ASSUME LabelSumAssumption == LabelSum \in [DOMAIN LabelSum -> Nat]

VARIABLES
    pc,          \* the phase of write_rco
    rco, opts,   \* its arguments
    todo,        \* what the loop of the phase has still to visit
    src,         \* srcLen, srcCompression, srcAddr of every entry
    tmp,         \* fTmp
    file,        \* the output file after its header; file[1] is at HeaderWords
    fileHeader,  \* the header as it stands in the file, <<>> if there is none
    tables,      \* the memory buffer, when the header is packed
    pos,         \* rcowrite_ftell
    offset,      \* offset of every entry, 0 before it is written
    stack,       \* the active calls of write_entry, the innermost first
    size,        \* sizeImg, sizeModel, sizeSound, sizeText by kind
    longest,     \* longestLangData
    header       \* the PRFHeader being filled in

vars == <<pc, rco, opts, todo, src, tmp, file, fileHeader, tables, pos,
          offset, stack, size, longest, header>>

Phases == {"open", "image", "sound", "model", "placeholder", "entries",
           "fixObj", "fixAnim", "hashText", "hashLang", "hash", "text",
           "textBody", "labels", "flush", "packText", "packTextBody",
           "resources", "header", "done", "failed"}

-----------------------------------------------------------------------------
(* The stream and the file.                                                *)

(* The words ws replace or extend those of s from 0-based index i on; a    *)
(* gap left by a seek past the end reads as zeroes.                        *)
PutAt(s, i, ws) ==
    LET end == i + Len(ws)
    IN [k \in 1..(IF end > Len(s) THEN end ELSE Len(s)) |->
           IF i < k /\ k <= end THEN ws[k - i]
           ELSE IF k <= Len(s) THEN s[k] ELSE 0]

(* rcoH.tables # NULL.                                                     *)
Buffered == opts.packHeader # NONE

(* What rco_fwrite writes to, and the word at a position of it.            *)
Stream == IF Buffered THEN tables ELSE file
Word(p) == Stream[p - HeaderWords + 1]

(* rco_fwrite at position at.                                              *)
WriteAt(at, ws) ==
    IF Buffered
    THEN tables' = PutAt(tables, at - HeaderWords, ws) /\ UNCHANGED file
    ELSE file' = PutAt(file, at - HeaderWords, ws) /\ UNCHANGED tables

Fwrite(ws) == WriteAt(pos, ws) /\ pos' = pos + Len(ws)

(* ftell (rcoH.fp): a packed header leaves the file position at the end.   *)
FilePosInFile == IF Buffered THEN Len(file) ELSE pos             \* mutant

FilePos == IF Buffered THEN HeaderWords + Len(file) ELSE pos

(* filewrite (rcoH.fp, ...).                                               *)
FileWrite(ws) ==
    /\ file' = PutAt(file, FilePos - HeaderWords, ws)
    /\ pos' = IF Buffered THEN pos ELSE pos + Len(ws)
    /\ UNCHANGED tables

-----------------------------------------------------------------------------
(* The tree, as the loops of the writer walk it.                           *)

Table(k) == rco.tbl[k]

Children(e) == IF e = Nil THEN <<>> ELSE rco.kids[e]

(* e and what is below it, in the order of the recursion of do_hashing.    *)
Preorder(e) ==
    LET last == CHOOSE f \in e..rco.n :
                  Within(rco, e, f) /\ (f = rco.n \/ ~Within(rco, e, f + 1))
    IN [i \in 1..last - e + 1 |-> e + i - 1]

(* What the loop of a phase visits; reference fixing pushes the children   *)
(* of an entry as it comes to it.                                          *)
Work(p) ==
    CASE p = "image"   -> Children(Table(IMG))
      [] p = "sound"   -> Children(Table(SOUND))
      [] p = "model"   -> Children(Table(MODEL))
      [] p = "fixObj"  -> Children(Table(OBJ))
      [] p = "fixAnim" -> Children(Table(ANIM))
      [] p = "hashLang" -> Children(Table(TEXT))
      [] p = "hash"    -> <<IMG, MODEL, SOUND, OBJ, ANIM>>
      [] p = "textBody" -> IF opts.packText = NONE THEN Children(Table(TEXT)) ELSE <<>>
      [] p = "packTextBody" ->
            IF opts.packText # NONE THEN Children(Table(TEXT)) ELSE <<>>
      [] OTHER -> <<>>

Goto(p) == pc' = p /\ todo' = Work(p)

(* A loop that has nothing left to visit falls through to the next phase.  *)
Fallthrough(p, q) ==
    /\ pc = p /\ todo = <<>>
    /\ Goto(q)
    /\ UNCHANGED <<rco, opts, src, tmp, file, fileHeader, tables, pos, offset,
                   stack, size, longest, header>>

-----------------------------------------------------------------------------
(* Opening the output, and the header as it is first filled in.            *)

BlankHeader(a, o) ==
    LET least == CASE o.packHeader = RLZ -> 149   \* 0x95
                   [] o.packHeader = ZLIB -> 144  \* 0x90
                   [] OTHER -> 113                \* 0x71
    IN [version |-> IF a.verId > least THEN a.verId ELSE least,
        compression |-> o.packHeader,
        table |-> [k \in Kinds |-> IF k = MAIN THEN HeaderWords ELSE NULL_PTR],
        ptrs |-> [k \in Kinds |-> NULL_PTR], lptrs |-> [k \in Kinds |-> 0],
        data |-> [k \in Kinds |-> NULL_PTR], ldata |-> [k \in Kinds |-> 0],
        label |-> 0, llabel |-> a.labelsLen,
        event |-> 0, levent |-> a.eventsLen]

Init ==
    /\ rco \in Archives /\ opts \in Options
    /\ pc = "open" /\ todo = <<>>
    /\ src = [len |-> rco.srcLen, compr |-> rco.compression,
              addr |-> [e \in EntriesOf(rco) |-> 0]]
    /\ tmp = <<>> /\ file = <<>> /\ fileHeader = <<>> /\ tables = <<>>
    /\ pos = 0
    /\ offset = [e \in EntriesOf(rco) |-> 0]
    /\ stack = <<>>
    /\ size = [k \in Kinds |-> 0] /\ longest = 0
    /\ header = BlankHeader(rco, opts)

Open ==
    /\ pc = "open"
    /\ Goto("image")
    /\ UNCHANGED <<rco, opts, src, tmp, file, fileHeader, tables, pos, offset,
                   stack, size, longest, header>>

(* The old file cannot be removed or the new one cannot be created.        *)
OpenFails ==
    /\ pc = "open"
    /\ Goto("failed")
    /\ UNCHANGED <<rco, opts, src, tmp, file, fileHeader, tables, pos, offset,
                   stack, size, longest, header>>

-----------------------------------------------------------------------------
(* Packing the resources into the temporary file.                          *)

(* The lengths rco_write_resource may return.                              *)
PackedLensOf(e, compr) ==
    IF ~rco.readable[e] THEN {0}
    ELSE IF compr = NONE THEN {rco.srcLenUnpacked[e]}
    ELSE PackedLens

(* The options override the compression of the archive.                    *)
ChosenByOption(e) ==                                           \* mutant
    IF rco.id[e] = MODEL THEN opts.packModel ELSE opts.packImg

Chosen(e) ==
    LET option == IF rco.id[e] = MODEL THEN opts.packModel
                  ELSE IF rco.format[e] < IMG_BMP THEN opts.packImgCompr
                  ELSE opts.packImg
    IN IF option = -1 THEN rco.compression[e] ELSE option

(* An iteration of the image or of the model loop.  header.ldata[k] is     *)
(* totalPackedLen.                                                         *)
StageCompressed(k) ==
    /\ todo # <<>>
    /\ LET e == Head(todo)
           given == rco.srcLenUnpacked[e] # 0
       IN \E len \in IF given THEN PackedLensOf(e, Chosen(e))
                     ELSE {src.len[e]} :
            /\ src' = [len |-> [src.len EXCEPT ![e] = len],
                       compr |-> [src.compr EXCEPT ![e] = Chosen(e)],
                       addr |-> [src.addr EXCEPT ![e] = header.ldata[k]]]
            /\ tmp' = IF given THEN tmp \o Data(e, Words(len)) ELSE tmp
            /\ header' = [header EXCEPT !.ldata[k] = @ + Words(len)]
    /\ todo' = Tail(todo)
    /\ UNCHANGED <<pc, rco, opts, file, fileHeader, tables, pos, offset, stack,
                   size, longest>>

StageImage == pc = "image" /\ StageCompressed(IMG)
StageModel == pc = "model" /\ StageCompressed(MODEL)

(* Sounds are copied as they are, and their entries are not updated.       *)
StageSound ==
    /\ pc = "sound" /\ todo # <<>>
    /\ LET e == Head(todo)
       IN IF rco.srcLenUnpacked[e] # 0
          THEN \E len \in PackedLensOf(e, NONE) :
                 /\ tmp' = tmp \o Data(e, Words(len))
                 /\ header' = [header EXCEPT !.ldata[SOUND] = @ + Words(len)]
          ELSE UNCHANGED <<tmp, header>>
    /\ todo' = Tail(todo)
    /\ UNCHANGED <<pc, rco, opts, src, file, fileHeader, tables, pos, offset,
                   stack, size, longest>>

(* The header is written for the space it takes.                           *)
WritePlaceholderHeader ==
    /\ pc = "placeholder"
    /\ fileHeader' = header
    /\ pos' = HeaderWords
    /\ Goto("entries")
    /\ UNCHANGED <<rco, opts, src, tmp, file, tables, offset, stack, size,
                   longest, header>>

-----------------------------------------------------------------------------
(* write_entry.                                                            *)

PrevWord(e, prev) ==
    IF IsParentEntry(rco, e) /\ rco.id[e] # ANIM THEN 0 ELSE prev

(* The size of an object or animation that has children includes its       *)
(* attributes; an entry of another kind leaves it blank.                   *)
EntrySize(e) ==
    IF IsParentEntry(rco, e) THEN EntryWords
    ELSE IF /\ rco.id[e] \in {OBJ, ANIM} /\ rco.kids[e] # <<>>
            /\ rco.attrs[e] # <<>>
         THEN EntryWords + Len(rco.attrs[e]) ELSE 0

EntryHeader(e, at, parent, prev, nxt) ==
    <<256 * rco.id[e] + rco.type[e], rco.label[e],
      IF IsParentEntry(rco, e) THEN 0 ELSE EntryWords,
      EntrySize(e), Len(rco.kids[e]),
      nxt, PrevWord(e, prev), at - parent, 0, 0>>

(* The offset of text i of language e, in bytes: relative to the language  *)
(* when packed.  An empty text points one byte before its language.        *)
TextOffset(e, i) ==
    LET t == rco.indexes[e][i]
    IN IF t.null THEN NULL_PTR
       ELSE IF t.length = 0 THEN 4 * size[TEXT] - 1
       ELSE 4 * (TextUsed(rco, e)[i-1] + IF Buffered THEN 0 ELSE size[TEXT])

TextExtra(e) ==
    LET t == rco.indexes[e]
    IN <<rco.lang[e], Len(t)>> \o
       [w \in 1..TextIndexWords * Len(t) |->
          LET i == (w - 1) \div TextIndexWords + 1
          IN CASE w % 3 = 1 -> t[i].label
               [] w % 3 = 2 -> t[i].length
               [] OTHER     -> TextOffset(e, i)]

(* The unpacked size is there only when the resource is compressed; the    *)
(* PS3 has one more word before it.                                        *)
ResourceExtra(e) ==
    <<rco.format[e] + 65536 * src.compr[e], src.len[e], size[rco.id[e]]>>
    \o (IF rco.ps3 THEN <<1>> ELSE <<>>)
    \o (IF src.compr[e] # NONE THEN <<rco.srcLenUnpacked[e]>> ELSE <<>>)

(* Channel sizes and offsets follow the record, padded to two channels.    *)
SoundExtra(e) ==
    LET ch == rco.channels[e]
        n  == IF Len(ch) < 2 THEN 2 ELSE Len(ch)
    IN <<rco.format[e] + 65536 * Len(ch), rco.srcLenUnpacked[e], size[SOUND]>>
       \o [w \in 1..2*n |->
             LET c == (w + 1) \div 2
             IN IF c > Len(ch) THEN IF w % 2 = 1 THEN 0 ELSE NULL_PTR
                ELSE IF w % 2 = 1 THEN ch[c][1] ELSE ch[c][2] + size[SOUND]]

VsmxExtra(e) ==
    <<0, rco.srcLenUnpacked[e]>>
    \o (IF rco.readable[e] THEN Data(e, Words(rco.srcLenUnpacked[e])) ELSE <<>>)

(* Space for the attributes, counting down.                                *)
Placeholders(e) ==
    LET n == Len(rco.attrs[e]) IN [w \in 1..n |-> n - w]

Extra(e) ==
    LET id == rco.id[e]
        type == rco.type[e]
    IN CASE id = VSMX /\ type = 1 -> VsmxExtra(e)
         [] id = TEXT /\ type = 1 -> TextExtra(e)
         [] id \in {IMG, MODEL} /\ type = 1 -> ResourceExtra(e)
         [] id = SOUND /\ type # 0 -> SoundExtra(e)
         [] id = FONT /\ type = 1 -> <<rco.format[e], 0, 0>>
         [] id \in {OBJ, ANIM} /\ type # 0 -> Placeholders(e)
         [] OTHER -> <<>>

(* What an entry adds to sizeImg, sizeModel, sizeSound or sizeText.        *)
DataWordsUnpacked(e) ==                                        \* mutant
    IF rco.id[e] = TEXT THEN TextTotal(rco, e)
    ELSE Words(rco.srcLenUnpacked[e])

DataWordsUnaligned(e) ==                                       \* mutant
    IF rco.id[e] = TEXT THEN TextTotal(rco, e)
    ELSE IF rco.id[e] = SOUND THEN rco.srcLenUnpacked[e] \div 4
    ELSE Words(src.len[e])

DataWords(e) ==
    CASE rco.id[e] \in {IMG, MODEL} /\ rco.type[e] = 1 -> Words(src.len[e])
      [] rco.id[e] = SOUND /\ rco.type[e] # 0 -> Words(rco.srcLenUnpacked[e])
      [] rco.id[e] = TEXT /\ rco.type[e] = 1 -> TextTotal(rco, e)
      [] OTHER -> 0

(* A call of write_entry: where e lies (fPos), the arguments, the children *)
(* its loop has left and the offset the last of them returned.             *)
Frame(e, parent, prev, last) ==
    [e |-> e, at |-> pos, parent |-> parent, prev |-> prev, last |-> last,
     left |-> rco.kids[e], ret |-> 0]

(* The part of write_entry before its loop.                                *)
Enter(e, parent, prev) ==
    /\ offset' = [offset EXCEPT ![e] = pos]
    /\ Fwrite(EntryHeader(e, pos, parent, prev, 0) \o Extra(e))
    /\ size' = [size EXCEPT ![rco.id[e]] = @ + DataWords(e)]
    /\ longest' = IF rco.id[e] = TEXT /\ DataWords(e) > longest
                  THEN DataWords(e) ELSE longest
    /\ UNCHANGED <<pc, rco, opts, todo, src, tmp, fileHeader, header>>

Main == 1

WriteMain ==
    /\ pc = "entries" /\ stack = <<>>
    /\ Enter(Main, HeaderWords, 0)
    /\ stack' = <<Frame(Main, HeaderWords, 0, TRUE)>>

WriteChild ==
    /\ pc = "entries" /\ stack # <<>>
    /\ LET f == stack[1]
           c == Head(f.left)
       IN /\ f.left # <<>>
          /\ Enter(c, f.at, f.ret)
          /\ stack' = <<Frame(c, f.at, f.ret, Tail(f.left) = <<>>),
                        [f EXCEPT !.left = Tail(@)]>> \o Tail(stack)

(* nextEntryOffset: the distance to what is written next.                  *)
NextOffsetAbsolute(f) == IF f.last THEN 0 ELSE pos             \* mutant

NextOffset(f) == IF f.last THEN 0 ELSE pos - f.at

(* The return of write_entry: the header is rewritten with nextEntryOffset *)
(* unless the entry is the last of its siblings.                           *)
FinishEntry ==
    /\ pc = "entries" /\ stack # <<>>
    /\ LET f == stack[1]
           rest == Tail(stack)
       IN /\ f.left = <<>>
          /\ IF f.last THEN UNCHANGED <<file, tables>>
             ELSE WriteAt(f.at, EntryHeader(f.e, f.at, f.parent, f.prev,
                                            NextOffset(f)))
          /\ IF rest = <<>>
             THEN stack' = <<>> /\ Goto("fixObj")
             ELSE /\ stack' = <<[rest[1] EXCEPT !.ret = NextOffset(f)]>>
                              \o Tail(rest)
                  /\ UNCHANGED <<pc, todo>>
    /\ UNCHANGED <<rco, opts, src, tmp, fileHeader, pos, offset, size, longest,
                   header>>

-----------------------------------------------------------------------------
(* rco_write_fix_refs.                                                     *)

(* The attribute words of e with the offsets of the entries they refer to. *)
(* Of a reference to no entry only the type is set: its second word is     *)
(* whatever the stack holds (unset).                                       *)
FixedWordsRelative(e, unset) ==                                \* mutant
    [w \in DOMAIN rco.attrs[e] |->
       LET word == rco.attrs[e][w]
       IN IF ~word.ent THEN word.v
          ELSE IF word.v = Nil THEN unset[w] ELSE offset[word.v] - offset[e]]

FixedWords(e, unset) ==
    [w \in DOMAIN rco.attrs[e] |->
       LET word == rco.attrs[e][w]
       IN IF ~word.ent THEN word.v
          ELSE IF word.v = Nil THEN unset[w] ELSE offset[word.v]]

Dangling(e) ==
    {w \in DOMAIN rco.attrs[e] : rco.attrs[e][w].ent /\ rco.attrs[e][w].v = Nil}

AttrsAtHeader(e) == offset[e]                                  \* mutant

AttrsAt(e) == offset[e] + EntryWords

(* An iteration: seek to the attributes and write them.  The position is   *)
(* left behind them, whatever was written last before.                     *)
FixEntry ==
    /\ pc \in {"fixObj", "fixAnim"} /\ todo # <<>>
    /\ LET e == Head(todo)
       IN /\ \E unset \in [Dangling(e) -> Garbage] :
                WriteAt(AttrsAt(e), FixedWords(e, unset))
          /\ pos' = AttrsAt(e) + Len(rco.attrs[e])
          /\ todo' = Children(e) \o Tail(todo)
    /\ UNCHANGED <<pc, rco, opts, src, tmp, fileHeader, offset, stack, size,
                   longest, header>>

-----------------------------------------------------------------------------
(* The hash tables, the unpacked texts, the labels and the events.         *)

HashText ==
    /\ pc = "hashText"
    /\ header' = IF Table(TEXT) = Nil THEN header
                 ELSE [header EXCEPT !.ptrs[TEXT] = pos]
    /\ Goto("hashLang")
    /\ UNCHANGED <<rco, opts, src, tmp, file, fileHeader, tables, pos, offset,
                   stack, size, longest>>

(* What is hashed: an entry or text without a label is passed over.        *)
Item(label, at) ==
    [named |-> label # NULL_PTR, at |-> at,
     sum |-> IF label = NULL_PTR THEN 0 ELSE LabelSum[label]]

(* The slots of a language hold where the records of its texts lie.        *)
TextItems(e) ==
    [i \in DOMAIN rco.indexes[e] |->
       Item(rco.indexes[e][i].label,
            offset[e] + EntryWords + TextEntryWords + TextIndexWords * (i - 1))]

EntryItems(es) == [i \in DOMAIN es |-> Item(rco.label[es[i]], offset[es[i]])]

(* The slots as they are written.                                         *)
SlotWords(t, n) == [i \in 1..n |-> t[i - 1]]

(* Languages are hashed in the order of their numbers; qsort may put equal *)
(* ones in any order.                                                      *)
Earliest(e) == \A j \in DOMAIN todo : rco.lang[e] <= rco.lang[todo[j]]

HashLang ==
    /\ pc = "hashLang"
    /\ \E i \in DOMAIN todo :
         LET e == todo[i]
             n == Len(rco.indexes[e])
         IN /\ Earliest(e)
            /\ Fwrite(SlotWords(Filled(TextItems(e), n), n))
            /\ header' = [header EXCEPT !.lptrs[TEXT] = @ + n]
            /\ todo' = RemoveAt(todo, i)
    /\ UNCHANGED <<pc, rco, opts, src, tmp, fileHeader, offset, stack, size,
                   longest>>

(* Only objects are hashed at every depth.                                 *)
Hashed(k) == IF k = OBJ THEN Tail(Preorder(Table(OBJ))) ELSE Children(Table(k))

(* The slots: one for each (count_all_subentries for objects), rounded up.  *)
HashSize(k) == FindLargerPrime(Len(Hashed(k)))

HashTree ==
    /\ pc = "hash" /\ todo # <<>>
    /\ LET k == Head(todo)
           n == HashSize(k)
       IN IF Table(k) = Nil THEN UNCHANGED <<file, tables, pos, header>>
          ELSE
          /\ Fwrite(SlotWords(Filled(EntryItems(Hashed(k)), n), n))
          /\ header' = [header EXCEPT !.ptrs[k] = pos, !.lptrs[k] = n]
    /\ todo' = Tail(todo)
    /\ UNCHANGED <<pc, rco, opts, src, tmp, fileHeader, offset, stack, size,
                   longest>>

BeginText ==
    /\ pc = "text"
    /\ header' = IF Work("textBody") = <<>> THEN header
                 ELSE [header EXCEPT !.data[TEXT] = pos,
                                     !.ldata[TEXT] = size[TEXT]]
    /\ Goto("textBody")
    /\ UNCHANGED <<rco, opts, src, tmp, file, fileHeader, tables, pos, offset,
                   stack, size, longest>>

(* The texts of a language one after another; none when its resource       *)
(* cannot be read.                                                         *)
WriteText ==
    /\ pc = "textBody" /\ todo # <<>>
    /\ LET e == Head(todo)
       IN Fwrite(IF rco.readable[e] THEN Data(e, TextTotal(rco, e)) ELSE <<>>)
    /\ todo' = Tail(todo)
    /\ UNCHANGED <<pc, rco, opts, src, tmp, fileHeader, offset, stack, size,
                   longest, header>>

(* Labels and events are data of owners numbered after the entries.        *)
LabelOwner == rco.n + 1
EventOwner == rco.n + 2

(* An archive without events gets one blank word if it has objects or      *)
(* animations; without text, pTextData is set according to the packing.    *)
WriteLabelsEvents ==
    /\ pc = "labels"
    /\ LET blank == rco.eventsLen = 0 /\ (Table(OBJ) # Nil \/ Table(ANIM) # Nil)
       IN /\ Fwrite(Data(LabelOwner, rco.labelsLen)
                    \o (IF blank THEN <<0>> ELSE Data(EventOwner, rco.eventsLen)))
          /\ header' = [header EXCEPT
                !.label = pos, !.event = pos + rco.labelsLen,
                !.levent = IF blank THEN 1 ELSE @,
                !.data[TEXT] = IF header.ldata[TEXT] # 0 THEN @
                               ELSE IF Buffered THEN NULL_PTR ELSE pos]
    /\ Goto("flush")
    /\ UNCHANGED <<rco, opts, src, tmp, fileHeader, offset, stack, size, longest>>

-----------------------------------------------------------------------------
(* The packed header, the packed texts and the resources.                  *)

(* HeaderComprInfo and the compressed buffer.  The compressor's result is  *)
(* not examined.                                                           *)
Flush ==
    /\ pc = "flush"
    /\ IF Buffered
       THEN \E len \in PackedLens :
              FileWrite(<<len, Len(tables), longest>> \o Data(0, Words(len)))
       ELSE UNCHANGED <<file, tables, pos>>
    /\ Goto("packText")
    /\ UNCHANGED <<rco, opts, src, tmp, fileHeader, offset, stack, size, longest,
                   header>>

BeginPackText ==
    /\ pc = "packText"
    /\ header' = IF Work("packTextBody") = <<>> THEN header
                 ELSE [header EXCEPT !.data[TEXT] = FilePos, !.ldata[TEXT] = 0]
    /\ Goto("packTextBody")
    /\ UNCHANGED <<rco, opts, src, tmp, file, fileHeader, tables, pos, offset,
                   stack, size, longest>>

(* TextComprInfo and the compressed texts of a language; nothing when its  *)
(* resource cannot be read or compressed.  nextOffset is 0 for the last.   *)
BlockWords(len) == IF len = 0 THEN 0 ELSE TextComprWords + Words(len)

TextBlock(e, len, last) ==
    IF len = 0 THEN <<>>
    ELSE <<rco.lang[e] + 65536, IF last THEN 0 ELSE BlockWords(len), len,
           TextTotal(rco, e)>> \o Data(e, Words(len))

PackText ==
    /\ pc = "packTextBody" /\ todo # <<>>
    /\ LET e == Head(todo)
       IN \E len \in IF rco.readable[e] THEN PackedLens ELSE {0} :
            /\ FileWrite(TextBlock(e, len, Tail(todo) = <<>>))
            /\ header' = [header EXCEPT !.ldata[TEXT] = @ + BlockWords(len)]
    /\ todo' = Tail(todo)
    /\ UNCHANGED <<pc, rco, opts, src, tmp, fileHeader, offset, stack, size,
                   longest>>

(* The data pointers, and the temporary file copied behind.  If it is      *)
(* shorter than the three lengths the rest of the copy buffer is written   *)
(* as it was.                                                              *)
CopyResources ==
    /\ pc = "resources"
    /\ LET has(k) == HasSubentries(rco, Table(k))
           before == [k \in {IMG, SOUND, MODEL} |->
                        CASE k = IMG -> 0
                          [] k = SOUND -> header.ldata[IMG]
                          [] k = MODEL -> header.ldata[IMG] + header.ldata[SOUND]]
           len == header.ldata[IMG] + header.ldata[SOUND] + header.ldata[MODEL]
       IN /\ header' = [header EXCEPT !.data = [k \in Kinds |->
                IF k \in {IMG, SOUND, MODEL} /\ has(k)
                THEN FilePos + before[k] ELSE @[k]]]
          /\ \E g \in IF Len(tmp) < len THEN Garbage ELSE {0} :
               FileWrite([i \in 1..len |-> IF i <= Len(tmp) THEN tmp[i] ELSE g])
    /\ Goto("header")
    /\ UNCHANGED <<rco, opts, src, tmp, fileHeader, offset, stack, size, longest>>

(* The shortcuts become the table pointers, and the header is rewritten.   *)
FixHeader ==
    /\ pc = "header"
    /\ header' = [header EXCEPT !.table =
          [k \in Kinds |-> IF k # MAIN /\ Table(k) # Nil THEN offset[Table(k)]
                           ELSE @[k]]]
    /\ fileHeader' = header'
    /\ Goto("done")
    /\ UNCHANGED <<rco, opts, src, tmp, file, tables, pos, offset, stack, size,
                   longest>>

-----------------------------------------------------------------------------
EndLoop ==
    \/ Fallthrough("image", "sound")
    \/ Fallthrough("sound", "model")
    \/ Fallthrough("model", "placeholder")
    \/ Fallthrough("fixObj", "fixAnim")
    \/ Fallthrough("fixAnim", "hashText")
    \/ Fallthrough("hashLang", "hash")
    \/ Fallthrough("hash", "text")
    \/ Fallthrough("textBody", "labels")
    \/ Fallthrough("packTextBody", "resources")

Next ==
    \/ Open \/ OpenFails
    \/ StageImage \/ StageSound \/ StageModel
    \/ WritePlaceholderHeader
    \/ WriteMain \/ WriteChild \/ FinishEntry
    \/ FixEntry
    \/ HashText \/ HashLang \/ HashTree
    \/ BeginText \/ WriteText \/ WriteLabelsEvents
    \/ Flush \/ BeginPackText \/ PackText
    \/ CopyResources \/ FixHeader
    \/ EndLoop

Spec == Init /\ [][Next]_vars

(* Nothing outside write_rco can hold it up: a single thread runs it to    *)
(* the end.                                                                *)
FairSpec == Spec /\ WF_vars(Next)
=============================================================================
