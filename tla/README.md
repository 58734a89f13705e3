# Verification of RCOMage

RCOMage reads, writes, dumps and compiles RCO files, the resource archives of
the PSP and PS3 user interface.  This directory holds TLA+ models of the parts
of the program in which something can go wrong that a test would hardly reach,
the TLC runs that check them, and machine-checked proofs about them.  Paths
below are relative to `src/src/` unless they say otherwise.

## 1. The system

RCOMage is a sequential command-line program.  What makes it hard is not
concurrency but position: an RCO file is a tree of variable-length records
full of absolute, relative and section-relative offsets, some of which are
known only after what lies behind them has been written; half of it may be
compressed, which moves everything to other coordinates; and each offset is
computed once by the writer and once more, independently, by the reader.

| Component | Code | State | Operations | Interaction |
|---|---|---|---|---|
| RCO writer | `rcowriter.c` | output file, temporary file of resources, memory buffer of the tables when the header is packed, the file header, running totals per section | `write_rco`: stage images, sounds, models; write the tree depth first (`write_entry`); patch references; hash tables; texts; labels and events; compress and flush; copy resources; rewrite the header | takes an archive from the XML reader or the RCO reader; `read_resource` for each resource |
| Hash tables | `rcowriter.c` (`do_hashing`, `calc_hash`, `write_text_hash_table`), `general.c` (`find_larger_prime`) | an open-addressed table | insert with linear probing | called by the writer once per table and once per language |
| RCO reader | `rcoreader.c` | file position or position in the unpacked tables, the size regions are checked against, the tree being built | `read_rco`: unpack header and texts, read sections, `read_entry` recursively, then passes for shortcuts, text sources, absolute addresses, references, sizes | produces an archive for dump, rebuild, extract |
| Archive in memory | `rcomain.c` | the tree of `rRCOEntry`, labels, events, shortcuts | look up by label, sort, read a resource, fix sizes | shared by all |
| XML reader | `xmlread.c` | label and event blocks, the tree, the two-pass resolution of references | `read_xml`, `parse_entry`, `rcoxml_add_label`, reorder labels, `rcoxml_fix_refs`, `parse_text_xml` | produces an archive for compile |
| XML writer | `xmlwrite.c` | the XML file | `write_xml`, entries, references, text files | consumes an archive after dump |
| RLZ compressor | `rlzpack.c`, `general.c` (`rlz_compress`) | a range coder: low, range, pending carries, probability tables, output; a window of chains of earlier positions | `rlz_compress` tries modes, `rlzcompress` packs with one: `find_match`, `write_block`, `write_bit`, `flush_output` | the writer's third way to pack |
| Sound conversion | `vaghandler.c` | ADPCM predictor state | `vag2wav`, `wav2vag` | dump and compile change the archive through it |
| VSMX codec | `vsmx.c` | groups of code, three sections of words | read, decode, encode, write; decompile | dump, compile, vsmxdec, vsmxenc |
| Resource dump | `rcodump.c` | files on disk; sources of entries are redirected to them | `dump_resources`, `dump_text_resources`, conversions | between reader and XML writer |
| Configuration | `configscan.c`, `globdefs.c` | tables of attribute names and types | scan the ini files | tells reader, writer and XML which words are references |
| Command line | `main.c` | options | dump, compile, rebuild, extract, vagenc, vsmxdec, ... | composes the others |
| Deflate encoder | `src/7z/` | - | - | vendored |

Hard behaviours: **ordering** (what is written is patched later by seeking
back; offsets are predicted from running totals), **partial failure** (one
resource of several cannot be read or compressed, and two places must skip the
same amount), **stale state** (offsets into one label block replaced by offsets
into another; addresses that are absolute only after a second pass),
**numeric edges** (empty texts, empty names, reads of length 0, wrap-around of
the region check), **resource bounds** (probing a full table, copying into a
block sized by an earlier pass) and **termination** (chains in the file that
are followed without a bound).  Nothing is concurrent and nothing is persisted
but the output.

What makes each component correct:

* writer: every link, reference, hash slot and section pointer of the file
  leads where it says, whatever was packed and whatever could not be read;
* hash tables: what is stored is found, and probing ends;
* reader: it stays in step with the file and gives back the archive;
* label store: every entry keeps its own name through the reordering;
* dump and XML: after dump and compile every entry has its bytes, texts,
  channels and references back, from wherever they lie now, and dumping
  overwrites nothing but the files of texts, and no file that another entry
  needs;
* RLZ: what is returned as packed and is shorter than the input can be
  unpacked, and the search for matches ends (an output as long as the input is
  cut off: section 4);
* VSMX: a script that the text can carry comes back as the same program, and
  the sections stay consistent with the indices into them.

`PROJECT.json` lists the hazards one by one with their lines.

## 2. The modules

| Module | What it is |
|---|---|
| `RcoFormat` | the layout of the file, in words, and of the archive; which entries are parents, how long names and texts are |
| `HashTable` | the hash tables as operators: one-step insertion and search |
| `HashProbe` | the loops of `do_hashing` and `calc_hash`, one comparison a step |
| `RcoWriter` | `write_rco`, an action per stage, per entry and per patched entry |
| `RcoWriterProps` | what a correct file is, stated on the words of the file |
| `RcoReader` | `read_rco`, an action per stage, per entry read and per return of `read_entry` |
| `ArchiveStore` | the abstract promise: what was saved is loaded, all at once |
| `RcoRoundTrip` | writer, then reader on the file written; refinement of `ArchiveStore` |
| `XmlArchive` | the archive as dump and compile see it: sources of resources, names, tables of names, lookups, `read_resource` |
| `ResourceDump` | `main_dump` behind `read_rco`: `dump_resources` and `write_xml`, an action per entry dumped and per element written |
| `XmlReader` | `read_xml`: an action per element parsed, per entry resolved and per size fixed |
| `XmlRoundTrip` | dump, then `read_xml` on the document and the files; refinement of `ArchiveStore` |
| `LabelStore` | the labels of `read_xml`, one comparison of a search a step |
| `RlzCoder` | the range coder and the bits of lengths, distances and literals |
| `RlzPacker` | `rlzcompress`: chains, `find_match`, a turn of the main loop an action |
| `RlzCompress` | `rlz_compress` with its modes; a reader of the bits and a range decoder to check against |
| `VsmxFile` | the script in memory and in a file; the pools of words |
| `VsmxRoundTrip` | `VsmxDecode` and `VsmxEncode`, one group or line an action, twice in a row |
| `Recursions` | lemmas the proofs share: least and last numbers, induction up to a number, functions defined by recursion |
| `RcoWriterProofs` | what each action of the writer does to the stream; the types of its variables; the theorems about the tree in the file: links, patches, references |
| `RcoWriterLayout` | the theorems about what the file holds: no section lies on another; resources, sounds and texts lie where their entries say; what has a name is found by it |
| `RcoRoundTripProofs` | the theorems about the reader behind the writer: the entries follow one another, and the reader keeps its place |
| `HashProbeProofs`, `LabelStoreProofs`, `RlzProofs`, `VsmxProofs` | the other theorems |
| `MCArchives`, `MCXmlRoundTrip` | archives, options, command lines and results of compressors for TLC |
| `MCRcoWriter`, `MCRcoRoundTrip`, `MCHashProbe`, `MCLabelStore`, `MCRlz`, `MCVsmx` | the other instances |

### 2.1 The file

A position is a number of 32-bit words, since every record is a whole number
of words and `rco_fwrite` pads to one; lengths that the file gives in bytes
(resources, texts) stay in bytes and are rounded up where the code rounds.
The file header is a record.  The contents of a resource, text or label block
are words that name their owner and their index in it: so a property can say
*whose* data lies at a place, and data that landed elsewhere shows.  Byte
order is a flag of the archive; where the layout depends on it (the entry of
a PS3 image has a word more) the model does too, the swapping itself is not
modelled.  A compressor is a choice of a packed length, 0 when it fails;
packed data names its owner like plain data.

### 2.2 The writer (`RcoWriter`)

| Variable | Code |
|---|---|
| `file`, `pos` | the output and its position |
| `tables` | the memory buffer used instead when the header is packed |
| `tmp` | the temporary file of resources |
| `src` | `srcLen`, `srcAddr`, compression of each entry as staging leaves them |
| `offset` | where `write_entry` put each entry |
| `stack` | the active calls of `write_entry` with their next child |
| `size` | `sizeImg`, `sizeText`, ...: running totals used to predict offsets |
| `header`, `fileHeader` | the header being filled in, and the one in the file |
| `longest` | the size of the copy buffer |
| `pc`, `todo` | the stage of `write_rco` and what is left of its loop |

`Open`, `StageImage`, `StageSound`, `StageModel`, `WritePlaceholderHeader`,
`WriteMain`, `WriteChild`, `FinishEntry` (the backpatch of `nextEntryOffset`),
`FixEntry` (one call of `rco_write_fix_refs`), `HashText`, `HashLang`,
`HashTree`, `BeginText`, `WriteText`, `WriteLabelsEvents`, `Flush`,
`BeginPackText`, `PackText`, `CopyResources`, `FixHeader`: the stages in the
order of the code, each with its effect on the stream, on the running totals
and on the header.  An uninitialised word is a choice from `Garbage`.

### 2.3 The reader (`RcoReader`)

`image` is the file (it does not change), `mem` the unpacked tables, `at` the
position, `room` is `fSizeExpanded`, `ents` the entries in the order they were
read, `calls` the active calls of `read_entry`, `found` the shortcuts and the
lengths of labels and events.  `ReadPackedHeader` and `UnpackText` unpack;
`ReadSections` checks the regions; `ReadMain` and `ReadChild` are the part of
`read_entry` in front of the children, `Return` the part behind them, with the
correction by `nextEntryOffset` and the repair of images that lack a word.
Packed data that zlib cannot unpack are only warned of (`Z_BUF_ERROR`, as for a
packed length of 0, is turned into a data error): the reader goes on with the
buffer as `malloc` returned it, in `Inflated` a choice from `Memories`, and a
text counts and its `nextOffset` is followed as if nothing had happened.
`AssignShortcuts` to `FixSizes` are the passes over the tree.  `CanRead`,
`Seek`, `Clipped` and `Fits` are the helpers with their peculiarities: reading
no bytes is a failure, memory reads are cut off at the end, seeks beyond it are
refused, the region check wraps around.

### 2.4 Writer and reader together (`RcoRoundTrip`)

The reader's `image` is defined from the writer's variables; it runs when the
writer is done, and nothing else is shared.  Under the mapping `Saved` (the
archive without its places in a file) and `Restored` (the same of what was
read, resources and texts replaced by whose data lies at the recorded place),
the pair implements `ArchiveStore`.

### 2.5 Hash tables and labels

`RcoWriter` fills a table in one step with `HashTable!Filled`; `HashProbe` is
the same insertion as the code does it, and `StoresAtProbeSlot` connects them.
`LabelStore` covers both passes: collecting names while the document is parsed,
and collecting them again in the order of the tables' ids, with each offset
replaced at once.  A name is a value with a width in words; the empty name is
one whose first byte is 0.  `qsort` may order equal ids in any way.

### 2.6 Dump and compile (`XmlArchive`, `ResourceDump`, `XmlReader`, `XmlRoundTrip`)

Here bytes count, not words: the hazards are ends of ranges, paddings and
which file a resource is in.  A name is a string that stands for itself (where
names lie in the label block is `LabelStore`'s matter), except that the label
at offset 0 is taken for the lack of one, which `LabelOf` keeps.  A file name is
a sequence of its parts; `*` in it is the place that the code fills with a
channel or a label.

| Variable | Code |
|---|---|
| `phase`, `todo` | where `main_dump` is, and what is left of its loop |
| `opts` | the directories and `--output-txt` |
| `rco` | the archive; `ents[e].src` is where the bytes of `e` are to be found |
| `disk`, `docs` | the files, and the documents of texts (`*.xml` of a language) |
| `root`, `doc` | the `RcoFile` element and the elements, with their depth |
| `step`, `next`, `ents`, `path`, `tbl`, `head` | the pass of `read_xml`, its progress and the archive it builds |

`DumpImage`, `DumpSound`, `DumpModel`, `DumpText` and `DumpVsmx` are
`dump_resources`, each with the redirection of its entry; `WriteRoot` and
`WriteElement` are `write_xml`.  `XmlReader` parses the root, then an element a
step, then resolves the references of an entry a step, then fixes sizes.  The
outcome "undefined" is the conversion of a text file whose byte order mark is
not that of UTF-8, which writes to a wild address.  Like writer and reader,
`XmlRoundTrip` implements `ArchiveStore`: `Archived` replaces each source by the
bytes behind it, so that it does not matter where they are.

What zlib cannot unpack is here, too, only warned of.  `read_resource` clears
its buffer first, so the rest of a resource is zeros; the buffer of texts is not
cleared, and what is dumped of such texts is `Junk`.  `start` is the state in
front of the dump: the properties are said of what was there.  A job of
`MCXmlRoundTrip` may begin with files that are in the way, of resources, texts
and languages, with two texts of one name in a language, and with an image or
texts that cannot be inflated.

### 2.7 RLZ (`RlzCoder`, `RlzPacker`, `RlzCompress`)

A coder is a record of the fields of `RLZ_Info`; its probability tables are one
function, defined where it differs from the value the tables are set to.  The
number of bits in a byte is a constant, since four bytes and a carry do not fit
TLC's numbers with eight.  `items` and `tokens` are history: the bits written
with their contexts, and the literals and matches they stand for.  The program
has no decoder, so `RlzCompress` has one: it knows the format, shares no
operator of `find_match` or `write_block`, and is told where items begin, not
what they hold.  The estimate by which mode 7 leaves a match out is a
floating-point sum; it is a choice.

### 2.8 VSMX (`VsmxFile`, `VsmxRoundTrip`)

A line of text is an instruction and what follows it, numbers or characters.
`Pieces` cuts a line as `fgetws` does; a later piece of a word is what it spells
(`Spelled`: an instruction with its value, given to the model since a word is
only numbers there), or else nothing that `VsmxEncode` knows.  Pieces that name
an instruction without the value it needs, or by a number (`UNKNOWN_...`), are
left out.  `status` "crashed" is a null argument
used, or a name index used before its check.  `round` counts the passes:
after the first the file written is read again.

## 3. The runs

| Run | What it asks | Distinct states |
|---|---|---|
| `roundtrip_same` | six complete archives under four packings: is the written file right in every respect, and does reading give the archive back? | 6 040 |
| `roundtrip_ends` | texts or resources lost, an unresolved reference, trees in an unusual order: or a header or text packed to nothing: are images and models still where the file says, and do writing and reading end? | 11 809 |
| `hash_probe` | five colliding labels in a table of five slots, in every order | 651 |
| `labels_named` | every document with a main entry and three tables of up to two names | 52 493 |
| `xml_same` | five archives under four command lines, with text files, with files in the way, with two texts of one name, with data that cannot be inflated: does dump and compile give the archive back? | 1 870 |
| `rlz` | short, repetitive and late matches in modes 5, 6, 7, 26 and with all modes tried | 11 121 |
| `vsmx` | scripts of up to three groups of every kind, words whose later lines spell instructions, and files that do not agree with themselves, in two rounds | 14 641 |

**What the properties say.**

* `roundtrip_same`, for the file: `TreeLinked` (parents, siblings and counts),
  `WriteOnce` (a step only changes words that are there to be patched),
  `RefsResolve`, `NamesHashed` (entries and texts are found in their tables),
  `DataLocated` (images, models, sounds and texts are where they are said to
  be), `SectionsDisjoint`; for the reader: `InStep` (it comes to every entry
  exactly where the writer put it), `Aligned` (it never needs
  `nextEntryOffset` to get back on course), `Accepted` (no check refuses a
  written file); `RestoresArchive` for both.
* `roundtrip_ends`: `ResourcesLocated` (whatever could not be read or packed
  before them, images and models are where their entries say) and `Ends`, for
  what `Memories` says fresh memory may hold: zeros, or a tree with 1 or 70000
  children.  In other memory an offset that leads back could be followed again,
  once for each language, or an entry be read as its own child: no bound is in
  the code against that.
* `xml_same`: `SizesTrue` (the size by which the writer reserves room is that
  of what `read_resource` returns), `TextsApart`, `DumpCompiles`, `FilesKept`
  (of the files and documents, those that were there included, only those of
  the language being dumped are overwritten, and none that another entry has its
  bytes in; the languages of an archive are different), `RestoresArchive` (of
  the contents if names are their own, no file of a resource was there before
  and the texts can be inflated; of all else always).
* `rlz`: `TokensExpand` (literals and matches stand for the input),
  `BitsReadBack` (the bits alone tell them and where they end), `Decodes` (the
  bytes give the bits back, whatever lies behind them, if they are fewer than
  those of the input, and the size returned is that of what lies in the buffer),
  `ChainsFall` (each link leads back).
* `vsmx`: `SameProgram`, `PoolsExact`, `IndicesHold`, `ReadsBack`,
  `SecondRoundSame` (whatever the first round lost, a second one changes
  nothing any more, but the values of instructions that are not known: each is
  again the id, which has lost its upper bytes if the instruction has a name;
  and a float that a line of a word spelled is left six digits).

**Bounds.**  The archives of `MCArchives` have up to 14 entries: between them
every kind of entry, plain and packed images of both lengths, sounds of one and
two channels, three languages out of order with empty and null texts, objects
three levels deep with references forwards, backwards and across trees, an
animation with actions, one that is empty of attributes.  Offsets are computed
from what precedes them by sums, so an error shows with two or three
predecessors of different, unaligned sizes; deeper or longer archives repeat
the same sums.  The packings are none, zlib for header and texts, zlib for
images, RLZ for the header.  `PackedLens` has an aligned and an unaligned
length, or failure and an unaligned one.  Labels 0 and 2 have equal sums, so
tables collide and wrap.  In `labels_named` two names of different widths and
two tables with the same id suffice for every order of first occurrences.
`MAX_SUBENTRIES` and the 2^32 wrap are kept in the operators but no small
archive comes near them.

The archives of `MCXmlRoundTrip` have an empty image, a packed one, two of one
name, names shared between kinds and with the main table, lengths that are not
multiples of four, sounds of one and two channels, texts of one, two and four
bytes a character, empty texts, a script inside a packed header, references of
each kind.  The command lines dump all, all but some kinds, with and without
directories, and nothing.

In `rlz` a byte has 4 bits, so that a block is at most 15 long, and the limits
that depend on it are scaled: `Near`, `Nearer` and `Farthest` are small enough
that matches fall on both sides of each, `WindowSize` 7 makes hashes collide,
inputs of up to 118 bytes carry, fill the output and reach the longest block.
All strings of up to four bytes over 0, 1 and the largest are among them.
Inputs longer than the dictionary (256 KB) are not modelled: `InputsAssumption`
says so.  In `vsmx` `LineMax` is 6 characters, so that one of the words is too
long for a line, and `WordSize` is 100000 in the place of 2^32: larger than any
other number used, so that only the last one wraps.

**Fairness.**  The program is one thread that never waits: weak fairness of the
whole next-state relation (`FairSpec`, `FairRoundSpec`) says that it runs on.
With it `AllStored` and the `Ends` of `LabelStore` and of `RcoRoundTrip` say
that no loop is endless.  The other models stop because each step takes
something off what is left to do; nothing is claimed for them.

**Deadlock** is not checked in any run: each model is one execution of a
function and stops when it returns.

## 4. Findings

Each is a run that ends in a counterexample.

* `writer_order`: after `rco_write_fix_refs` the position is that of the last
  patched entry, and the hash tables are written there.  If a tree follows the
  objects, or the animation tree has no animations, entries are overwritten.
* `labels_dropped`: when the reordered labels are shorter (an empty name makes
  the first block longer) they are dropped, but the offsets already refer to
  them.
* `roundtrip_mute`: for a sound without channels `read_entry` returns in front
  of the two null channels that the writer put there, and takes them for the
  next entry.
* `xml_txt`: a text file that begins with the byte order mark of UTF-16 is
  converted in two calls of `iconv`, the first of which writes through the
  bytes of the mark.  Texts of PSP archives dumped with `--output-txt` cannot
  be compiled.
* `rlz_full`: when the output becomes as long as the input only after the main
  loop, the rest is dropped and the length of the buffer returned as a success.
  The bytes cannot be decoded, and `rlz_compress` hands them on.

Seen while modelling, and kept in the models but out of the properties, which
say in their comments what they are restricted to:

* Writer: a lost sound shifts every later one (`rcowriter.c:685`); all lost
  texts leave `pTextData` equal to `pLabelData` with a length
  (`rcowriter.c:326`); if the last packed language cannot be read, the
  `nextOffset` of the block before it points past the texts
  (`rcowriter.c:1022`; `rcofile.h:283` says 0 for the last one); an image whose unpacked
  length is 0 is recorded with its packed length, but not copied
  (`rcowriter.c:158`); `write_rco` reports success for all of these.
* Reader: a type whose known length is 0 (`ObjUnknown0xB`) loses its children
  (`rcoreader.c:1016`), so no archive here gives it any; `type <= LEN_NUM`
  reads one past the table of lengths (`rcoreader.c:993`); an image that lacks
  its last word at the end of a file loses its size (`rcoreader.c:1126`); the
  region check wraps around (`rcoreader.c:1275`); a header or a text that cannot
  be inflated is accepted with a warning, and uninitialised memory read for it
  (`rcoreader.c:230`, `rcoreader.c:296`).
* Dump and XML: `--output-txt` without a directory for texts leaves their
  directory NULL; the null character put behind a text from a file is not
  counted in its length; a text of one UTF-8 character takes two bytes with its
  end and is read as blank; the pointer of an unknown reference is written in
  hexadecimal and read as decimal; the compression `rlz` in a `srcRange` is not
  understood; a second entry of one name is not dumped but takes the file of the
  first; if the source of a language cannot be opened no later one is dumped;
  an unresolved reference is dereferenced by `xml_fputref`; a reference finds
  the first entry of its name, of whatever kind; the version 0 is not written
  and comes back as 0x71; floats keep six digits; a sound in another format is
  dumped as `.dat` but looked for as `.vag`; of two texts of one name the second
  overwrites the file of the first (`rcodump.c:473`), and both come back as it;
  texts that cannot be inflated are dumped from memory that was never set
  (`rcodump.c:413`); a file that is there under the name of a resource is taken
  for it; a resource said to lie in the packed header of a file whose header is
  plain never gets its length (`rcomain.c:204`).
* RLZ: writing a 1 lowers the probability of a 1, where the comment says that it
  is increased (`rlzpack.c:378`: 0xFF added to a byte takes 1 away); after enough
  of them it is 0 and a 1 can no longer be coded; with the longest input the dictionary
  is indexed one past its end; the main loop reads a byte past the input; the
  counter of waiting 0xFF bytes is a `char`; contexts of far distances overlap;
  `rlz_compress` can return 0 though a mode has succeeded (`general.c:177`).
* VSMX: the value of an unknown instruction is lost; a line end in a string, or
  a line longer than the buffer, breaks it in two; a name's index is used
  before it is checked; an instruction one past the table is named by what lies
  there; the flag byte of a function is lost; an empty property or name makes a
  null argument.

## 5. The proofs

| Theorem | Says, for every value of the constants |
|---|---|
| `HashProbeProofs!TypeCorrect` | the probe stays inside the table |
| `HashProbeProofs!StoredIsFound` | what is stored is found by probing |
| `HashProbeProofs!ProbeCanEnd` | while an entry is being hashed a slot is free |
| `HashProbeProofs!ProbeImplementsInsertion` | the loops store where `HashTable`'s operator says |
| `LabelStoreProofs!TypeCorrect` | a search stays inside its block |
| `LabelStoreProofs!OffsetsAreRight` | every use has the offset of its own name in the block of the pass that set it |
| `LabelStoreProofs!ReorderingKeepsNames` | a reordering that is kept is right |
| `LabelStoreProofs!LabelsStoredOnce` | without empty names, no name is stored twice |
| `LabelStoreProofs!BlocksAgree` | without empty names, the block built in another order is as long as the first |
| `RlzProofs!ChainsAlwaysFall` | every link of a chain leads further back, through all passes of `rlz_compress` |
| `RlzProofs!InputComesBack` | the literals and matches written, expanded, are the input as far as it has been read |
| `RcoWriterProofs!TypeCorrect` | the stream is always a sequence of words, no position is negative, calls are calls for entries of the archive |
| `RcoWriterProofs!TreeIsLinked` | once the tree is written the words of the file link it, whatever is patched and appended later |
| `RcoWriterProofs!WrittenOnce` | a step of the writer changes no word but those that are there to be patched |
| `RcoWriterProofs!ReferencesResolve` | in the finished file every reference holds the place of its entry |
| `RcoWriterLayout!SectionsApart` | entries, tables, labels, events, texts and resources lie where the header says, beside each other |
| `RcoWriterLayout!ResourcesAreLocated` | the packed length and the offset of an image or model delimit its own data, whatever of the others was lost |
| `RcoWriterLayout!SoundsAreLocated` | with readable sounds, those of a sound delimit its data, and its channels lie within |
| `RcoWriterLayout!TextsAreLocated` | the index of a language, or the chain of packed blocks, leads to every one of its texts |
| `RcoWriterLayout!DataIsLocated` | all data packed for an entry lie where the finished file says |
| `RcoWriterLayout!NamesAreHashed` | every entry and text with a label is found by it, in the tables as they stand in the finished file |
| `RcoRoundTripProofs!EntriesFollow` | the entries of the file lie one right behind the other, each as long as it tells |
| `RcoRoundTripProofs!ReaderInStep` | the nth entry the reader comes to is the nth of the archive, where `write_entry` put it |
| `RcoRoundTripProofs!ReaderAligned` | in files of this program the reader never needs `nextEntryOffset` to find back |
| `RcoRoundTripProofs!FilesAreAccepted` | a file with all its texts is read, unless it cannot be opened or its header is packed with RLZ |
| `VsmxProofs!PoolsAreExact` | no word is in a section twice and each lies where its offset says |
| `VsmxProofs!IndicesAlwaysHold` | the index of a word goes on meaning it |
| `VsmxProofs!WrittenIsRead` | what `writeVSMX` writes `readVSMX` accepts, and reads as the same words at the same numbers |
| `VsmxProofs!ProgramKept` | a script that the text can carry comes back as the same program, and nothing fails on it |
| `VsmxProofs!SecondRound` | whatever a first round of decoding and encoding has lost, a second one changes nothing but values without a meaning |

*Hash tables.*  Assumed: finitely many entries, sums in `Nat`, places other
than 0, and as many slots as entries (`find_larger_prime` rounds up, text
tables have one slot per text).  `Findable` is not inductive: that the new
entry is found rests on the slots the probe has passed being taken (`Path`),
and that the probe passes fewer than `N` slots rests on one being free, that
is on as many slots being taken as entries are stored (`Counted`, by
`FS_AddElement` and `FS_Subset`).  `IInv` is their conjunction with `TypeOK`
and `Fresh`; one lemma per action, and three corollaries.

*Labels.*  Assumed: widths are positive and documents are sequences of tables.
`OffsetsHold` is not inductive: a use visited twice would have its new offset
taken for one of the old block.  `Waiting` says that a use waits at most once
and never while its table is still to come.  For `TypeOK` and `StoredOnce` the
blocks must be rows of whole names (`Rowed`) and the search must have passed
no name that is the one sought (`Searched`); these form `SInv`, proved on top
of `IInv`.  `SameLength` compares the blocks as sets of words: in each, no word
is twice (`Distinct`) and every name is whole (`Entire`); the second holds only
names of the first (`Within`), and at the end all of them, since every name of
the first block is that of some use (`Used`) and every use has been visited.
Equal sets make equal lengths; the first half alone bounds the second block by
the first while it is being filled (`LengthWithin`).  That no name is empty is
needed: `NamesKept` is violated otherwise (section 4).

*RLZ.*  Assumed: inputs are sequences of bytes no longer than the dictionary,
and a byte has three to eight bits.  `ChainsFall` is inductive once `input`,
`inputpos` and the two arrays have types, since a position is only pushed after
it has been passed, and what it is linked to was the head of its chain
(`LinkFalls`) or the last of several positions pushed at once, of which there
is one (`LastExists`, by the well-foundedness of `<`).  `HashInWindow` needs
only that hashing ends in `% WindowSize`.

`TokensExpand` rests on `ChainsFall`: each position that `find_match` compares
with lies behind the one being packed, so that what is found there can be
copied.  `Copies` says so of a distance and a length; every way out of
`find_match` gives such a pair.  The repetitions of two bytes do
(`TwoCopied`), a candidate of the chain does (`AmountMatches`: as many bytes
match as `matchAmt` says), and so does whatever shortens it afterwards, since a
shorter part of what can be copied can be copied (`CopiesLess`).  `Fits` adds
that as long as the search goes on there is room for a longer match, without
which `matchAmt` would start beyond `maxBlockSize`; it is carried along the
chain by induction (`SearchFits`).  Copying byte by byte then gives the input a
little further, even where the copy reaches into what it makes
(`CopiedInput`).  `ComesBack` holds the values between the tokens, so that no
bound on what tokens expand to is needed for the function to exist.

*VSMX.*  For the first two theorems nothing is assumed of the files: words are
any values.  `PoolsExact` is inductive with `Shape`, which says that a pool
consists of sequences; `VsmxAddText` is the only thing that changes one, and
either finds the word or appends it.  `IndicesHold` follows from the same lemma
on appending.

For the others files hold groups of bytes and values, and characters that are
numbers (`FilesAssumption`); values are taken modulo some `WordSize` > 0; and
the buffer of `fgetws` has room for two characters.  `TInv` says what the
variables are: words without the character 0, lines with the numbers their
instructions need, pieces of words without a line end but at the end.
`ReadsBack` then is a fact about two recursive functions: `Parted` cuts what
`Joined` has put together into the same words (`PartedJoined`, by `UpTo`), and
the length of a pool is that of what is joined (`PoolLength`, from
`PoolExact`).

`SameProgram` is not inductive: it says nothing of the text.  `PInv` says while
decoding that each line stands for the group of its number (`Stands`: the
instruction, and the word or the numbers behind it), and while encoding that
each group made so far means the same as the one its line stands for
(`Held`), with an index that is one of a word in its pool.  A word that may
last is a single line (`PiecesWhole`) and is left as it is by trimming
(`TrimmedSame`); words added later change no meaning (`MeaningGrows`); and what
is added to a jump is taken from it again, modulo `WordSize`
(`Less1Following`).

*Writer.*  Assumed of an archive (`IsArchive`, of which `IsTree` is a part):
entries are numbered in the order in which `write_entry` comes to them, each
has one parent in front of it and stands once among its parent's subentries,
tables are subentries of the main entry.  Assumed of the rest: options are
options, packed lengths are in `Nat`, uninitialised words are numbers, and
there is a prime between n and 2n for every table size (`PrimesAssumption`,
Bertrand's postulate, without which `find_larger_prime` need not stop).  Two
hypotheses restrict the theorems on `RcoWriter` to archives that are written
well.  `PatchedLast`: nothing follows the tree whose references are patched
last.  It is needed: the finding `writer_order` is a run where it does not hold
and links are overwritten.  `RefsInTables`: only entries inside the two tables
that `rco_write_fix_refs` is called for have references.  All the complete
archives of `MCArchives` satisfy both.

`TypeInv` is inductive.  That a text's total or a hash table is a number or a
table of numbers takes induction over the data; it is done with sets
(`UpTo`: what holds at 0 and is passed on holds up to n) and with functions
(`Recursion`: a function defined by a step exists), without the theorems that
take an operator.

`TreeLinked` is not inductive: it says nothing before the tree is complete.
`TreeInv` says, while the tree is being written, that for some m the entries up
to m, in document order, and no others are placed one behind the other
(`Placed`), that their words are what `write_entry` and its backpatches have
made of them so far (`Linked`: next fields are 0 for the last entry and for
those that are still open), that the stream ends behind the last one (`AtEnd`),
and that the calls on the stack are a path from the last entry to the root,
each with what its loop has left to do (`Calls`).  Then the next entry to be
written is m + 1, and a backpatch in `FinishEntry` writes the distance to it
into a field that was 0.  Afterwards the whole tree stays (`Whole`), because
what is still written is either behind the end or among the words of attributes
(`Patches`); that the end is where the position is when hash tables are written
is `EndsAtEnd`, by which `PatchedLast` comes in.

`RefsInv` says of each entry that its references are resolved, or are still the
placeholder and the entry will be visited: it lies below the table being
patched or below one on the work list, which is expanded depth first
(`ToVisit`).

`SectionsDisjoint` speaks of the finished file; what makes it true is spread
over the stages.  `LayoutInv` says for each stage which of the sections are
already laid: those whose lengths are still 0 are none, those that are written
lie apart in front of the end of the stream, and for the section being written
(the text table and its languages, the texts) the part that is there ends where
the stream does.  The lengths of tables are set only when they are written, and
what is packed is measured as it is written, so there a new section always
begins at the end (`ApartMore`).  Two lengths are known beforehand.  That of
the resources is what was staged, and all of them are written at once; that
their pointer is set too rests on `StageInv` (what is staged is staged for a
table with subentries).  That of texts that are not packed is what
`write_entry` counted (`SizeInv`: the total after m entries is `TextBefore[m]`),
while the languages are written one by one, each if it can be read; the texts
of those in front of language i + 1 end where the count stood in front of it.
Here comes in `TextsKnown`: the texts are packed, or all languages can be read
and are exactly the subentries of the text table.  Without it the header's
length counts texts that are not written, and the section it describes reaches
over the labels.  All the complete archives of `MCArchives` satisfy it.

`ResourcesLocated` joins three places of the code.  The loops over images,
sounds and models append what they packed to the temporary file; `write_entry`
adds the same lengths up again and writes the sums into the entries; the
temporary file is copied behind the tree at the end.  `DataInv` follows one map
`A` from a resource to its place through all three.  While the loops run, the
resources dealt with lie one behind the other at `A` and the kinds one behind
the other in the temporary file, which is as long as the three lengths say
(`StagedUpTo`, `TmpWhole`).  While the tree is written, the running total of a
kind is `A` of the next resource of that kind (`Due`) and the entries already
written hold their length and `A` (`Recorded`); a later write leaves these words
alone, for it goes to the end, to a nextEntryOffset or to attributes, and what
is recorded lies between them.  After the copy the data are at `A` behind the
pointer of the header (`Located`).  What was lost takes no room in any of the
three: its length is 0.  Three hypotheses restrict the theorem.  `PatchedLast`,
as above.  `AllCollected`: the loops (which walk the subentries of the first
table of a kind) come to exactly the entries `write_entry` counts (which looks
at the kind and type of every entry of the tree).  `LengthsKnown`: an archive in
which a resource has the unpacked length 0 gives it the packed length 0 too,
for a length 0 counts as one that is not known.  For sounds the entries count
the length the archive gives and the temporary file the one that was copied;
they agree when the sounds can be read (`SoundsRead`), and without it
`SoundsLocated` is false.  That the channels lie within a sound is
`ChannelsWithin` of the archive that is written.  All archives of `MCArchives`
satisfy `AllCollected` and `LengthsKnown`, also those with lost resources.

`TextLocated` has two cases.  Texts that are not packed are found through words
of the tree: `write_entry` puts into the index of a language where each text
will lie, counted from its running total, long before `write_text_resource`
writes any.  `IndexInv` says that the languages written so far hold these
places (`Indexed`) and that later writes leave them alone, by the argument of
`Recorded`.  `TextInv` says for each stage which languages' texts are in the
stream, each where the total in front of its entry puts it (`TextAt`); that the
languages are written in the order in which they were counted, and that what
lies between two of them has no texts, makes the totals of both sides equal
(`TextsEnd`, as for the layout).  Packed texts are found from block to block:
`TextInv` carries a map from the languages dealt with to where their blocks
begin, the next one beginning where the last one ends (`BlocksAt`), and a reader
that follows nextOffset comes to the same places (`BlocksChained`, by `UpTo`).
The hypothesis is `TextsSure`: with packed tables the compressor does not fail
on a language and all languages can be read; otherwise `TextsWhole`, and what has
no string has no length.  Without it a language that was lost breaks the chain or
moves the texts behind it.  All the complete archives of `MCArchives` satisfy it
under every option, and `DataIsLocated` joins the three parts.

`NamesHashed` joins what a table is when it is filled to where it stands in the
file.  For the first half the writer takes `Filled` as one step: of a table with
as many slots as items, some slot is free before each insertion, because the
slots used are no more than the items inserted (`InsertedFound`, with the
cardinalities of the standard library); the new item is at the first free slot
from its hash on, and filling a free slot leaves every earlier search as it was
(`FilledFound`, by `UpTo`).  For the second, `HashInv` says which parts of the
text table and which tables of a kind stand in the stream (`Stands`): each was
written at the end of the stream, and later steps only add to it.  A part of the
text table lies behind those of the languages with lower numbers.  The loop takes
the languages in that order, so the ones it has dealt with are always the lower
ones (`LangsHashed`), and the length of the table so far is the sum over them; the
property takes that sum with a fold over a set, in an order of the fold's own,
which `FoldIsSlots` shows to be the sum entry by entry.  The hypotheses are
`PatchedLast` and `NamesSure`: no two languages have the same number (the order of
two that do is left to `qsort`, and a reader could not tell their parts apart),
and the characters of every label have been added up, which says that `LabelSum`
knows the labels of the archive.  The complete archives of `MCArchives` satisfy it.

*Reader behind writer.*  Nothing in the file says where an entry begins but the
entry in front of it, so `InStep` is a statement about every word between the
header and the end of the tree.  The proof has two halves.

The first is about the file.  `FormInv` says that the entries written so far
follow one another without a gap (`Follow`), each `EntryWords + ExtraLen` long,
and that the words by which the reader judges that length are in place and stay
(`Telling`: the lengths of scripts, the numbers of text indexes and channels,
whether a resource is packed).  What is appended later is behind the tree and
what is patched is a nextEntryOffset or an attribute (`TreeInv`), so these words
are never touched.  `HeadInv` says what the file header tells of the packing,
and that a packed file begins with the length of the tables before they were
packed.

The second is about the reader.  It sees the stream as it was written, also if
the tables were packed (`Unpacked`, `Sight`).  For each kind of entry what
`read_entry` takes up of the words behind the header is what `write_entry` left
there (`ExtraTaken`, one lemma for each kind: the packed image with or without
its extra word, the sound with its channels, the attributes as many as the
attribute tables list, the entry that measures itself by where the next one
begins).  `ReadInv` then says: for some m the reader is where entry m ends, the
first m entries are read, each at the place where it was written, and the
active calls of `read_entry` are the path from entry m to the root, every entry
whose parent is read but which is not read itself being awaited by one of them
(`Awaited`).  So the next call reads m + 1: that it is one more child of the call
on top is what numbering in document order says.  When the children of a call
are read, `nextEntryOffset` is 0 or the distance to where the reader is
(`CallEnds`, from `Linked`), which is `Aligned`.

Two hypotheses: `PatchedLast`, as above, and `Legible`, that the format can hold
the archive and a reader can tell what is meant: types are below 256, formats
below 65536, no entry has more than 65536 children or indexes (these fields are
narrower than the numbers in memory, and `write_entry` cuts them off), scripts
can be read, a sound has a channel (the finding `roundtrip_mute` is a sound that has
none) and the type 0 or 1, an object has as many attributes as its table lists,
and an entry whose length is taken from nextEntryOffset has nothing below it.
All archives of `CompleteArchives` satisfy both, and all hypotheses of
`DataIsLocated`; TLC has checked that.  `HeaderSure` is a third: if the header is
packed, packing it does not fail.  Without it the theorems are false, for what
was packed to nothing cannot be unpacked and the reader goes on in whatever the
buffer holds.  Of resources and texts any number may be packed to nothing: they
are read behind the entries or in front of them, and the entries do not lie in
them.

`Accepted` is about the room: `read_rco` measures every section against
`fSizeExpanded`, the length of the file and, for all it unpacks, the difference
of the two lengths.  That number is neither the length of the stream nor that of
the file, for the packed tables and texts stay counted in full while their packed
form is taken away.  `RoomInv` says what it is in each phase: while texts are
unpacked, at the block at p, it is at least the end of the stream and what is
left of the file behind p; afterwards at least the end of the stream, in front
of which `LayoutInv` has all the sections.  That a packed text takes away no more
than it may rests on the blocks lying one behind the other (`BlocksAt`) and
behind the packed header (`HeaderInv`), and that whatever is to be unpacked is
there, in its full length and not 0, on `HeaderInv` and `TextInv`.  Two details
come in with `PointersInv`: a table the header points to has slots, and without a
language there are no texts, so that the reader does not look for a first block.
The hypotheses are `PatchedLast`, `Legible` and `TextsSure`, as above.  `TextsSure`
excludes a header or a text packed to nothing: the reader would not refuse the
file for it, but go on with memory it has not set, where a check may refuse what
it finds.

TLC has checked all of these invariants on the archives of the runs (`DataInv`
with the map `A` computed from the lengths, for it ranges over functions into
`Nat`).

Only model-checked: of `RcoReader` the contents of the entries
(`RestoresArchive`) and `RoundTypeOK`; everything about `XmlReader`,
`ResourceDump` and their composition; of RLZ the form of the bits (`BitsReadBack`) and what the
range coder computes (`Decodes`), which need induction over the bits written,
and `RlzTypeOK`, whose bounds do; liveness under fairness (`AllStored`, `Ends`), which is
beyond the prover.

## 6. What is left, in order

1. **Proofs**: from `InStep`, that what the reader makes of each entry is what the
   archive says (`RestoresArchive`); `FilesKept` of `ResourceDump`, whose only steps that write are
   those of `Dumped` and of text files.
2. **Rebuild**: reader, then writer, on archives whose resources lie in the
   file that was read, with `read_resource` as it is in `XmlArchive`.
3. **Sounds**: the conversion to and from WAV in dump and compile, for the
   channel blocks it leaves (`rcodump.c:299`, `xmlread.c:487`), without the
   signal.
4. **VSMX in archives**: `--decode-vsmx` and its reverse in compile, with the
   variants of the codec that work on memory.

## 7. Not modelled, and why

Wording of messages, logging, memory management, failures of `fwrite` (the
code ignores them) and of `malloc`; sizes above the 16 MB limits; swapping of
bytes.  `vaghandler.c` is signal arithmetic in floating point and has no small
instance.  `configscan.c` and `globdefs.c` parse tables once before anything
else; the models have the tables as operators or constants.  The decompiler of
`vsmx.c` prints a guess of the script for a reader and nothing reads it back.
`src/7z/` is vendored; zlib, iconv, libxml and the image converter are outside
the repository and appear only as their results.  Arguments are not parsed: a
command line is the record of options that it comes to.  Files and documents
that this program did not write are not modelled, apart from scripts whose
sections do not agree: behaviour on arbitrary input is outside what is stated
here.
