----------------------------- MODULE LabelStore -----------------------------
(***************************************************************************)
(* The labels of an archive as read_xml collects and reorders them         *)
(* (rcoxml_add_label, rcoxml_add_label_reordering, rcoxml_reorder_labels   *)
(* and the end of read_xml, xmlread.c).                                    *)
(*                                                                         *)
(* Names are kept one behind the other in a block of memory, each aligned  *)
(* to a word, and an entry or a text has the offset of its name.  While    *)
(* the document is parsed a name is looked for from the start and added if *)
(* it is not found.  Then the names are collected again in a second block, *)
(* the tables of the archive in the order of their ids, every offset being *)
(* replaced at once; the second block becomes the labels unless it turns   *)
(* out shorter than the first.                                             *)
(***************************************************************************)
EXTENDS Integers, Sequences

CONSTANTS
    Names,       \* the names a document may use
    Empty,       \* the empty string, perhaps one of them
    Width,       \* the words a name takes: ALIGN_TO_4 (strlen + 1) / 4
    Documents    \* the documents: sequences of tables [id, names]

(* The first table stands for the main entry, the others are its children; *)
(* the names of a table are those of its entries and texts in pre-order.   *)
IsDocument(d) == d # <<>> /\ d \in Seq([id : Nat, names : Seq(Names)])

ASSUME WidthAssumption == Width \in [Names -> Nat \ {0}]
ASSUME DocumentsAssumption == \A d \in Documents : IsDocument(d)

VARIABLES
    pc,          \* the pass: parse, reorder; reordered or dropped at the end
    doc,         \* the document
    labels,      \* rco->labels, word by word
    newLabels,   \* the block of the second pass, up to labelPos
    offset,      \* the offset each use of a name has, in words
    rest,        \* the tables whose turn is still to come
    todo,        \* the uses still to be visited in the current table
    p            \* where the search has come to

vars == <<pc, doc, labels, newLabels, offset, rest, todo, p>>

Root == 1

(* Use <<t, u>> is the u-th name of table t.                               *)
UsesOf(d, t) == [u \in DOMAIN d[t].names |-> <<t, u>>]
Uses(d) == UNION {{t} \X DOMAIN d[t].names : t \in DOMAIN d}
NameOf(use) == doc[use[1]].names[use[2]]

(* A word of a block belongs to a name; the first word of the empty name   *)
(* begins with a zero byte.                                                *)
Word(name, part) == [name |-> name, part |-> part]

CellsWithoutEnd(name) ==                                           \* mutant
    [k \in 1..Width[name] - 1 |-> Word(name, k)]

Cells(name) == [k \in 1..Width[name] |-> Word(name, k)]
At(block, at) == block[at + 1]

(* The block the pass adds to, and the name it looks for: that of the      *)
(* document, then what the first block has at the offset of the use.       *)
Block == IF pc = "parse" THEN labels ELSE newLabels
Sought == IF pc = "parse" THEN Word(NameOf(Head(todo)), 1)
          ELSE At(labels, offset[Head(todo)])

Init ==
    /\ doc \in Documents
    /\ pc = "parse"
    /\ labels = <<>> /\ newLabels = <<>>
    /\ offset = [use \in Uses(doc) |-> 0]
    /\ rest = DOMAIN doc \ {Root}
    /\ todo = UsesOf(doc, Root)
    /\ p = 0

(* The use gets its offset, and the search starts anew for the next one.   *)
Assign(at) ==
    /\ offset' = [offset EXCEPT ![Head(todo)] = at]
    /\ todo' = Tail(todo)
    /\ p' = 0
    /\ UNCHANGED <<pc, doc, rest>>

(* The while loop goes on while p is inside the block and not at a zero.   *)
SearchesToLast == p + 1 < Len(Block) /\ At(Block, p).name # Empty  \* mutant

Searching == p < Len(Block) /\ At(Block, p).name # Empty

(* strcmp () is not 0: go on behind the name, aligned.                     *)
StridePast(name) == Width[name] + 1                                \* mutant

(* ALIGN_TO_4 rounding down: a name of one word is never passed.           *)
StrideRoundedDown(name) == Width[name] - 1                         \* mutant

Stride(name) == Width[name]

Skip ==
    /\ todo # <<>> /\ Searching
    /\ At(Block, p) # Sought
    /\ p' = p + Stride(At(Block, p).name)
    /\ UNCHANGED <<pc, doc, labels, newLabels, offset, rest, todo>>

Found ==
    /\ todo # <<>> /\ Searching
    /\ At(Block, p) = Sought
    /\ Assign(p)
    /\ UNCHANGED <<labels, newLabels>>

(* Not found: the name goes to the end.  The second block is as long as    *)
(* the first; what is written behind it is kept here as if there was room. *)
AddLabel ==
    /\ todo # <<>> /\ ~Searching
    /\ Assign(Len(Block))
    /\ IF pc = "parse"
       THEN labels' = labels \o Cells(Sought.name) /\ UNCHANGED newLabels
       ELSE newLabels' = newLabels \o Cells(Sought.name) /\ UNCHANGED labels

(* The next table: in the order of the document, then in that of the ids   *)
(* (qsort: equal ids in any order).                                        *)
Turn(t) ==
    \A s \in rest : IF pc = "parse" THEN t <= s ELSE doc[t].id <= doc[s].id

NextTable ==
    /\ pc \in {"parse", "reorder"} /\ todo = <<>>
    /\ \E t \in rest :
         /\ Turn(t)
         /\ todo' = UsesOf(doc, t)
         /\ rest' = rest \ {t}
    /\ p' = 0
    /\ UNCHANGED <<pc, doc, labels, newLabels, offset>>

(* The second pass begins with the name of the main entry.                 *)
ReorderWithoutRoot ==                                              \* mutant
    /\ pc = "parse" /\ todo = <<>> /\ rest = {}
    /\ pc' = "reorder"
    /\ rest' = DOMAIN doc \ {Root}
    /\ todo' = <<>> /\ p' = 0
    /\ UNCHANGED <<doc, labels, newLabels, offset>>

Reorder ==
    /\ pc = "parse" /\ todo = <<>> /\ rest = {}
    /\ pc' = "reorder"
    /\ rest' = DOMAIN doc \ {Root}
    /\ todo' = UsesOf(doc, Root) /\ p' = 0
    /\ UNCHANGED <<doc, labels, newLabels, offset>>

(* labelPos < rco->labelsLen: "error!", the second block is freed.  The    *)
(* offsets stay as the second pass has left them.                          *)
Finish ==
    /\ pc = "reorder" /\ todo = <<>> /\ rest = {}
    /\ IF Len(newLabels) < Len(labels)
       THEN pc' = "dropped" /\ UNCHANGED labels
       ELSE pc' = "reordered" /\ labels' = newLabels
    /\ UNCHANGED <<doc, newLabels, offset, rest, todo, p>>

Next == Skip \/ Found \/ AddLabel \/ NextTable \/ Reorder \/ Finish

Spec == Init /\ [][Next]_vars

(* A single thread runs both passes to their end.                          *)
FairSpec == Spec /\ WF_vars(Next)

-----------------------------------------------------------------------------
(* The uses the current pass has given an offset.                          *)
Visited ==
    {use \in Uses(doc) : /\ use[1] \notin rest
                         /\ \A i \in DOMAIN todo : todo[i] # use}

Starts(block) == {i \in DOMAIN block : block[i].part = 1}

BlockType(block) ==
    block \in Seq([name : Names, part : Nat])

(* Every variable has its type, and a search stays inside its block.       *)
TypeOK ==
    /\ pc \in {"parse", "reorder", "reordered", "dropped"}
    /\ IsDocument(doc)
    /\ BlockType(labels) /\ BlockType(newLabels)
    /\ offset \in [Uses(doc) -> Nat]
    /\ rest \in SUBSET DOMAIN doc
    /\ todo \in Seq(Uses(doc))
    /\ p \in 0..Len(Block)

(* A use that has been visited has the offset of its own name in the block *)
(* of the pass, and in the second pass one that has not been visited still *)
(* has that of its name in the first block: rcoxml_reorder_labels visits   *)
(* every use exactly once, so no offset of one block is taken for one of   *)
(* the other.                                                              *)
Holds(block, use) ==
    /\ offset[use] < Len(block)
    /\ At(block, offset[use]) = Word(NameOf(use), 1)

OffsetsHold ==
    /\ pc = "parse" => \A use \in Visited : Holds(labels, use)
    /\ pc = "reorder" =>
         \A use \in Uses(doc) :
           Holds(IF use \in Visited THEN newLabels ELSE labels, use)

(* After a reordering that was not dropped every entry and text has its    *)
(* own name.                                                               *)
ReorderedNames ==
    pc = "reordered" => \A use \in Uses(doc) : Holds(labels, use)

(* Every name is stored once ("first, see if we already have this label"). *)
StoredOnce ==
    \A block \in {labels, newLabels} :
      \A i, j \in Starts(block) : block[i].name = block[j].name => i = j

(* The second pass finds the names of the first, no more and no fewer: the *)
(* block allocated with the length of the first holds them, and is not     *)
(* dropped in the end.                                                     *)
SameLength ==
    /\ Len(newLabels) <= IF pc = "parse" THEN 0 ELSE Len(labels)
    /\ pc # "dropped"

(* Reordering is "really optional" (xmlread.c): after read_xml every entry *)
(* and text has the name it has in the document, reordered or not.         *)
NamesKept ==
    pc \in {"reordered", "dropped"} => \A use \in Uses(doc) : Holds(labels, use)

(* read_xml's passes come to an end: every search of a block, whose only   *)
(* bound is its end, gets there or to the name.                            *)
Ends == <>(pc \in {"reordered", "dropped"})
=============================================================================
