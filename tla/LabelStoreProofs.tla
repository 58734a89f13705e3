-------------------------- MODULE LabelStoreProofs --------------------------
(***************************************************************************)
(* For every document and every set of names: the offsets an entry or a    *)
(* text has are those of its own name, in the block of the pass that gave  *)
(* it (OffsetsHold), and so are they after a reordering that was kept.     *)
(*                                                                         *)
(* OffsetsHold is inductive once it is known that a use waits at most once *)
(* and never while its table is still to come (Waiting): a use visited     *)
(* twice would take an offset of the second block for one of the first.    *)
(***************************************************************************)
EXTENDS LabelStore, SequenceTheorems, FiniteSets, FiniteSetTheorems, TLAPS

Cell == [name : Names, part : Nat]

(* TypeOK without what it says of the end of a search.                     *)
Typed ==
    /\ pc \in {"parse", "reorder", "reordered", "dropped"}
    /\ IsDocument(doc)
    /\ BlockType(labels) /\ BlockType(newLabels)
    /\ offset \in [Uses(doc) -> Nat]
    /\ rest \in SUBSET DOMAIN doc
    /\ todo \in Seq(Uses(doc))
    /\ p \in Nat

Waiting ==
    /\ \A i, j \in DOMAIN todo : todo[i] = todo[j] => i = j
    /\ \A i \in DOMAIN todo : todo[i][1] \notin rest
    /\ pc \in {"reordered", "dropped"} => todo = <<>>

IInv == Typed /\ Waiting /\ OffsetsHold /\ ReorderedNames

-----------------------------------------------------------------------------
(* The words of a name.                                                    *)
LEMMA CellsType ==
    ASSUME NEW n \in Names
    PROVE  /\ Cells(n) \in Seq(Cell)
           /\ Len(Cells(n)) = Width[n]
           /\ \A k \in 1..Width[n] : Cells(n)[k] = Word(n, k)
  <1>1. Width[n] \in Nat \ {0}
    BY WidthAssumption
  <1>2. \A k \in 1..Width[n] : Word(n, k) \in Cell
    BY <1>1 DEF Word, Cell
  <1> QED BY <1>1, <1>2, SMT DEF Cells

(* A name added at the end of a block is there, and nothing else changes.  *)
LEMMA Added ==
    ASSUME NEW block, BlockType(block), NEW n \in Names
    PROVE  /\ BlockType(block \o Cells(n))
           /\ Len(block \o Cells(n)) = Len(block) + Width[n]
           /\ Width[n] \in Nat \ {0} /\ Len(block) \in Nat
           /\ \A i \in 1..Len(block) : (block \o Cells(n))[i] = block[i]
           /\ (block \o Cells(n))[Len(block) + 1] = Word(n, 1)
           /\ \A i \in Len(block) + 1..Len(block) + Width[n] :
                (block \o Cells(n))[i] = Word(n, i - Len(block))
  <1>1. block \in Seq(Cell) /\ Len(block) \in Nat
    BY LenProperties DEF BlockType, Cell
  <1>2. Width[n] \in Nat \ {0}
    BY WidthAssumption
  <1>3. /\ block \o Cells(n) \in Seq(Cell)
        /\ Len(block \o Cells(n)) = Len(block) + Len(Cells(n))
        /\ \A i \in 1..Len(block) + Len(Cells(n)) :
             (block \o Cells(n))[i] =
                 IF i <= Len(block) THEN block[i] ELSE Cells(n)[i - Len(block)]
    BY <1>1, CellsType, ConcatProperties
  <1>4. \A i \in 1..Len(block) : (block \o Cells(n))[i] = block[i]
    BY <1>1, <1>2, <1>3, CellsType, SMT
  <1>5. (block \o Cells(n))[Len(block) + 1] = Cells(n)[1]
    BY <1>1, <1>2, <1>3, CellsType, SMT
  <1>6. Cells(n)[1] = Word(n, 1)
    BY <1>2, CellsType, SMT
  <1>7. BlockType(block \o Cells(n))
    BY <1>3 DEF BlockType, Cell
  <1>8. ASSUME NEW i \in Len(block) + 1..Len(block) + Width[n]
        PROVE  (block \o Cells(n))[i] = Word(n, i - Len(block))
    <2>1. (block \o Cells(n))[i] = Cells(n)[i - Len(block)]
      BY <1>1, <1>2, <1>3, CellsType, SMT
    <2>2. i - Len(block) \in 1..Width[n]
      BY <1>1, <1>2, SMT
    <2> QED BY <2>1, <2>2, CellsType
  <1> QED BY <1>1, <1>2, <1>3, <1>4, <1>5, <1>6, <1>7, <1>8, CellsType

LEMMA TableType ==
    ASSUME NEW d, IsDocument(d), NEW t \in DOMAIN d
    PROVE  d[t].names \in Seq(Names)
  <1>1. d[t] \in [id : Nat, names : Seq(Names)]
    BY ElementOfSeq, LenProperties DEF IsDocument
  <1> QED BY <1>1

(* The uses of a document, and those of one table as they are visited.     *)
LEMMA UsesOfTable ==
    ASSUME NEW d, IsDocument(d), NEW t \in DOMAIN d
    PROVE  /\ UsesOf(d, t) \in Seq(Uses(d))
           /\ DOMAIN UsesOf(d, t) = DOMAIN d[t].names
           /\ \A u \in DOMAIN d[t].names : UsesOf(d, t)[u] = <<t, u>>
           /\ \A use \in Uses(d) : use[1] = t =>
                \E u \in DOMAIN UsesOf(d, t) : UsesOf(d, t)[u] = use
  <1>1. d[t].names \in Seq(Names)
    BY TableType
  <1>2. Len(d[t].names) \in Nat /\ DOMAIN d[t].names = 1..Len(d[t].names)
    BY <1>1, LenProperties
  <1>3. \A u \in DOMAIN d[t].names : <<t, u>> \in Uses(d)
    BY DEF Uses
  <1>4. UsesOf(d, t) \in Seq(Uses(d))
    BY <1>2, <1>3, SMT DEF UsesOf
  <1>5. /\ DOMAIN UsesOf(d, t) = DOMAIN d[t].names
        /\ \A u \in DOMAIN d[t].names : UsesOf(d, t)[u] = <<t, u>>
    BY DEF UsesOf
  <1>6. ASSUME NEW use \in Uses(d), use[1] = t
        PROVE  \E u \in DOMAIN UsesOf(d, t) : UsesOf(d, t)[u] = use
    <2>1. PICK s \in DOMAIN d : use \in {s} \X DOMAIN d[s].names
      BY <1>6 DEF Uses
    <2>2. use = <<t, use[2]>> /\ use[2] \in DOMAIN d[t].names
      BY <2>1, <1>6
    <2> QED BY <2>2, <1>5
  <1> QED BY <1>4, <1>5, <1>6

LEMMA NameType ==
    ASSUME IsDocument(doc), NEW use \in Uses(doc)
    PROVE  use[1] \in DOMAIN doc /\ NameOf(use) \in Names
  <1>1. PICK t \in DOMAIN doc : use \in {t} \X DOMAIN doc[t].names
    BY DEF Uses
  <1>2. use[1] = t /\ use[2] \in DOMAIN doc[t].names /\ doc[t].names \in Seq(Names)
    BY <1>1, TableType
  <1> QED BY <1>2, ElementOfSeq, LenProperties DEF NameOf

LEMMA RootTable == ASSUME NEW d, IsDocument(d)  PROVE Root \in DOMAIN d
  <1>1. Len(d) \in Nat \ {0} /\ DOMAIN d = 1..Len(d)
    BY EmptySeq, LenProperties DEF IsDocument
  <1> QED BY <1>1, SMT DEF Root

(* The head of todo has not been visited, the others stay as they are.     *)
LEMMA HeadWaits ==
    ASSUME Typed, Waiting, todo # <<>>
    PROVE  /\ Head(todo) \in Uses(doc) /\ Tail(todo) \in Seq(Uses(doc))
           /\ Head(todo) \notin Visited /\ Head(todo)[1] \notin rest
           /\ \A use \in Uses(doc) :
                (\A i \in DOMAIN Tail(todo) : Tail(todo)[i] # use) =>
                  use = Head(todo) \/ \A i \in DOMAIN todo : todo[i] # use
           /\ \A i \in DOMAIN Tail(todo) :
                /\ i + 1 \in DOMAIN todo /\ Tail(todo)[i] = todo[i + 1]
                /\ Tail(todo)[i] # Head(todo)
  <1>1. /\ todo \in Seq(Uses(doc)) /\ Len(todo) \in Nat \ {0}
        /\ DOMAIN todo = 1..Len(todo)
    BY EmptySeq, LenProperties DEF Typed
  <1>2. /\ Head(todo) \in Uses(doc) /\ Tail(todo) \in Seq(Uses(doc))
        /\ Len(Tail(todo)) = Len(todo) - 1
        /\ \A i \in 1..Len(Tail(todo)) : Tail(todo)[i] = todo[i + 1]
    BY <1>1, HeadTailProperties
  <1>3. DOMAIN Tail(todo) = 1..Len(todo) - 1
    BY <1>2, LenProperties
  <1>4. Head(todo) = todo[1] /\ 1 \in DOMAIN todo
    BY <1>1, SMT
  <1>5. Head(todo) \notin Visited /\ Head(todo)[1] \notin rest
    BY <1>4 DEF Visited, Waiting
  <1>6. \A i \in DOMAIN Tail(todo) :
           /\ i + 1 \in DOMAIN todo /\ i + 1 # 1 /\ Tail(todo)[i] = todo[i + 1]
    BY <1>1, <1>2, <1>3, SMT
  <1>7. \A i \in DOMAIN Tail(todo) : Tail(todo)[i] # Head(todo)
    BY <1>4, <1>6 DEF Waiting
  <1>8. ASSUME NEW use \in Uses(doc), use # Head(todo),
               \A i \in DOMAIN Tail(todo) : Tail(todo)[i] # use,
               NEW i \in DOMAIN todo
        PROVE  todo[i] # use
    <2>1. CASE i = 1
      BY <2>1, <1>4, <1>8
    <2>2. CASE i # 1
      <3>1. i - 1 \in DOMAIN Tail(todo) /\ (i - 1) + 1 = i
        BY <2>2, <1>1, <1>3, SMT
      <3>2. Tail(todo)[i - 1] = todo[i]
        BY <3>1, <1>6
      <3> QED BY <3>1, <3>2, <1>8
    <2> QED BY <2>1, <2>2
  <1> QED BY <1>2, <1>5, <1>6, <1>7, <1>8

-----------------------------------------------------------------------------
LEMMA InitInv == Init => IInv
  <1> SUFFICES ASSUME Init PROVE IInv
    OBVIOUS
  <1>1. IsDocument(doc)
    BY DocumentsAssumption DEF Init
  <1>2. Root \in DOMAIN doc
    BY <1>1, RootTable
  <1>3. /\ UsesOf(doc, Root) \in Seq(Uses(doc))
        /\ DOMAIN UsesOf(doc, Root) = DOMAIN doc[Root].names
        /\ \A u \in DOMAIN doc[Root].names : UsesOf(doc, Root)[u] = <<Root, u>>
        /\ \A use \in Uses(doc) : use[1] = Root =>
             \E u \in DOMAIN UsesOf(doc, Root) : UsesOf(doc, Root)[u] = use
    BY <1>1, <1>2, UsesOfTable
  <1>4. Typed
    BY <1>1, <1>3 DEF Init, Typed, BlockType
  <1>5. Waiting
    BY <1>3 DEF Init, Waiting
  <1>6. Visited = {}
    <2>1. \A use \in Uses(doc) : use[1] \in DOMAIN doc
      BY <1>1, NameType
    <2> QED BY <2>1, <1>3 DEF Init, Visited
  <1>7. OffsetsHold /\ ReorderedNames
    BY <1>6 DEF Init, OffsetsHold, ReorderedNames
  <1> QED BY <1>4, <1>5, <1>7 DEF IInv

(* A use gets an offset where its name is: Found and AddLabel.             *)
LEMMA AssignInv ==
    ASSUME IInv, todo # <<>>, NEW at \in Nat, Assign(at),
           BlockType(labels'), BlockType(newLabels'),
           pc = "parse" => newLabels' = newLabels,
           pc # "parse" => labels' = labels,
           at < Len(Block'), At(Block', at) = Sought,
           \A i \in 1..Len(Block) : i <= Len(Block') /\ Block'[i] = Block[i]
    PROVE  IInv'
  <1> DEFINE h == Head(todo)
  <1> USE DEF IInv
  <1>1. /\ h \in Uses(doc) /\ Tail(todo) \in Seq(Uses(doc))
        /\ h \notin Visited /\ h[1] \notin rest
        /\ \A use \in Uses(doc) :
             (\A i \in DOMAIN Tail(todo) : Tail(todo)[i] # use) =>
               use = h \/ \A i \in DOMAIN todo : todo[i] # use
        /\ \A i \in DOMAIN Tail(todo) :
             /\ i + 1 \in DOMAIN todo /\ Tail(todo)[i] = todo[i + 1]
             /\ Tail(todo)[i] # h
    BY HeadWaits
  <1>2. /\ todo' = Tail(todo) /\ offset' = [offset EXCEPT ![h] = at]
        /\ p' = 0 /\ pc' = pc /\ doc' = doc /\ rest' = rest
    BY DEF Assign
  <1>3. pc \in {"parse", "reorder"}
    BY DEF Typed, Waiting
  <1>4. Typed'
    BY <1>1, <1>2 DEF Typed
  <1>5. Waiting'
    <2>1. ASSUME NEW i \in DOMAIN Tail(todo), NEW j \in DOMAIN Tail(todo),
                 Tail(todo)[i] = Tail(todo)[j]
          PROVE  i = j
      <3>1. i + 1 = j + 1
        BY <2>1, <1>1 DEF Waiting
      <3>2. i \in Nat /\ j \in Nat
        BY <1>1, LenProperties, SMT
      <3> QED BY <3>1, <3>2, SMT
    <2>2. \A i \in DOMAIN Tail(todo) : Tail(todo)[i][1] \notin rest
      BY <1>1 DEF Waiting
    <2> QED BY <2>1, <2>2, <1>2, <1>3 DEF Waiting
  <1>6. Visited' = Visited \cup {h}
    BY <1>1, <1>2 DEF Visited
  <1>7. /\ offset'[h] = at
        /\ \A use \in Uses(doc) : use # h => offset'[use] = offset[use]
    BY <1>1, <1>2 DEF Typed
  <1>8. Sought = Word(NameOf(h), 1)
    <2>1. CASE pc = "parse"
      BY <2>1 DEF Sought
    <2>2. CASE pc = "reorder"
      BY <2>2, <1>1 DEF Sought, OffsetsHold, Holds
    <2> QED BY <2>1, <2>2, <1>3
  <1>9. \A use : NameOf(use)' = NameOf(use)
    BY <1>2 DEF NameOf
  <1>10. ASSUME NEW use \in Uses(doc), offset[use] < Len(Block),
                At(Block, offset[use]) = Word(NameOf(use), 1), use # h
         PROVE  /\ offset'[use] < Len(Block')
                /\ At(Block', offset'[use]) = Word(NameOf(use), 1)
    <2>1. offset[use] \in Nat /\ Len(Block) \in Nat /\ Len(Block') \in Nat
      BY LenProperties, <1>2, <1>3 DEF Typed, BlockType, Block
    <2>2. offset[use] + 1 \in 1..Len(Block)
      BY <2>1, <1>10, SMT
    <2>3. /\ offset[use] + 1 <= Len(Block')
          /\ Block'[offset[use] + 1] = Block[offset[use] + 1]
      BY <2>2
    <2>4. offset'[use] = offset[use]
      BY <1>7, <1>10
    <2>5. offset[use] < Len(Block')
      BY <2>1, <2>3, SMT
    <2> QED BY <1>10, <2>3, <2>4, <2>5 DEF At
  <1>11. OffsetsHold'
    <2>1. CASE pc = "parse"
      <3>1. Block = labels /\ Block' = labels'
        BY <2>1, <1>2 DEF Block
      <3>2. \A use \in Visited \cup {h} :
              /\ offset'[use] < Len(Block')
              /\ At(Block', offset'[use]) = Word(NameOf(use), 1)
        BY <2>1, <3>1, <1>1, <1>7, <1>8, <1>10 DEF OffsetsHold, Holds, Visited
      <3>3. \A use \in Visited' : Holds(labels, use)'
        BY <3>1, <3>2, <1>6, <1>9 DEF Holds, Word, At
      <3> QED BY <3>3, <2>1, <1>2 DEF OffsetsHold
    <2>2. CASE pc = "reorder"
      <3>1. Block = newLabels /\ Block' = newLabels' /\ labels' = labels
        BY <2>2, <1>2 DEF Block
      <3>2. \A use \in Visited \cup {h} :
              /\ offset'[use] < Len(Block')
              /\ At(Block', offset'[use]) = Word(NameOf(use), 1)
        BY <2>2, <3>1, <1>1, <1>7, <1>8, <1>10 DEF OffsetsHold, Holds, Visited
      <3>3. \A use \in Visited' : Holds(newLabels, use)'
        BY <3>1, <3>2, <1>6, <1>9 DEF Holds, Word, At
      <3>4. \A use \in Uses(doc) : use \notin Visited' => Holds(labels, use)'
        BY <2>2, <3>1, <1>6, <1>7, <1>9 DEF OffsetsHold, Holds, Word, At
      <3>5. Uses(doc)' = Uses(doc)
        BY <1>2
      <3>6. \A use \in Uses(doc)' :
              Holds(IF use \in Visited THEN newLabels ELSE labels, use)'
        BY <3>3, <3>4, <3>5
      <3> QED BY <3>6, <2>2, <1>2 DEF OffsetsHold
    <2> QED BY <2>1, <2>2, <1>3
  <1>12. ReorderedNames'
    BY <1>2, <1>3 DEF ReorderedNames
  <1> QED BY <1>4, <1>5, <1>11, <1>12

LEMMA SkipInv == IInv /\ Skip => IInv'
  <1> SUFFICES ASSUME IInv, Skip PROVE IInv'
    OBVIOUS
  <1> USE DEF IInv
  <1>1. /\ pc' = pc /\ doc' = doc /\ labels' = labels /\ newLabels' = newLabels
        /\ offset' = offset /\ rest' = rest /\ todo' = todo
    BY DEF Skip
  <1>2. p' \in Nat
    <2>1. Block \in Seq(Cell) /\ p \in Nat /\ Len(Block) \in Nat /\ p < Len(Block)
      BY LenProperties DEF Typed, BlockType, Block, Cell, Skip, Searching
    <2>2. p + 1 \in 1..Len(Block)
      BY <2>1, SMT
    <2>3. At(Block, p) \in Cell
      BY <2>1, <2>2, ElementOfSeq DEF At
    <2>4. At(Block, p).name \in Names
      BY <2>3 DEF Cell
    <2> QED BY <2>1, <2>4, WidthAssumption DEF Skip, Stride
  <1>3. Typed' /\ Waiting'
    BY <1>1, <1>2 DEF Typed, Waiting, BlockType, IsDocument
  <1>4. OffsetsHold' /\ ReorderedNames'
    BY <1>1 DEF OffsetsHold, ReorderedNames, Holds, Visited, NameOf, At
  <1> QED BY <1>3, <1>4

LEMMA FoundInv == IInv /\ Found => IInv'
  <1> SUFFICES ASSUME IInv, Found PROVE IInv'
    OBVIOUS
  <1>1. /\ todo # <<>> /\ Assign(p) /\ labels' = labels /\ newLabels' = newLabels
        /\ p < Len(Block) /\ At(Block, p) = Sought
    BY DEF Found, Searching
  <1>2. Block' = Block
    BY <1>1 DEF Block, Assign
  <1>3. p \in Nat /\ BlockType(labels') /\ BlockType(newLabels')
    BY <1>1 DEF IInv, Typed
  <1>4. Len(Block) \in Nat
    BY LenProperties DEF IInv, Typed, BlockType, Block
  <1>5. /\ p < Len(Block') /\ At(Block', p) = Sought
        /\ \A i \in 1..Len(Block) : i <= Len(Block') /\ Block'[i] = Block[i]
    BY <1>1, <1>2, <1>4
  <1> QED BY <1>1, <1>3, <1>5, AssignInv

LEMMA AddLabelInv == IInv /\ AddLabel => IInv'
  <1> SUFFICES ASSUME IInv, AddLabel PROVE IInv'
    OBVIOUS
  <1>1. /\ todo # <<>> /\ Assign(Len(Block))
        /\ IF pc = "parse"
           THEN labels' = labels \o Cells(Sought.name) /\ newLabels' = newLabels
           ELSE newLabels' = newLabels \o Cells(Sought.name) /\ labels' = labels
    BY DEF AddLabel
  <1>2. pc' = pc /\ BlockType(labels) /\ BlockType(newLabels)
    BY <1>1 DEF Assign, IInv, Typed
  <1>3. Head(todo) \in Uses(doc) /\ Head(todo) \notin Visited
    BY <1>1, HeadWaits DEF IInv
  <1>4. NameOf(Head(todo)) \in Names
    BY <1>3, NameType DEF IInv, Typed
  <1>5. Sought = Word(NameOf(Head(todo)), 1)
    <2>1. CASE pc = "parse"
      BY <2>1 DEF Sought
    <2>2. CASE pc = "reorder"
      BY <2>2, <1>3 DEF Sought, OffsetsHold, Holds, IInv
    <2> QED BY <2>1, <2>2, <1>1 DEF IInv, Typed, Waiting
  <1>6. Sought.name = NameOf(Head(todo))
    BY <1>5 DEF Word
  <1>7. BlockType(Block) /\ Block' = Block \o Cells(NameOf(Head(todo)))
    BY <1>1, <1>2, <1>6 DEF Block
  <1>8. /\ BlockType(Block')
        /\ Len(Block') = Len(Block) + Width[NameOf(Head(todo))]
        /\ Width[NameOf(Head(todo))] \in Nat \ {0} /\ Len(Block) \in Nat
        /\ \A i \in 1..Len(Block) : Block'[i] = Block[i]
        /\ Block'[Len(Block) + 1] = Word(NameOf(Head(todo)), 1)
    BY <1>4, <1>7, Added
  <1>9. BlockType(labels') /\ BlockType(newLabels')
    BY <1>1, <1>2, <1>8 DEF Block
  <1>10. /\ Len(Block) \in Nat /\ Len(Block) < Len(Block')
         /\ At(Block', Len(Block)) = Sought
         /\ \A i \in 1..Len(Block) : i <= Len(Block') /\ Block'[i] = Block[i]
    BY <1>5, <1>8, SMT DEF At
  <1> QED BY <1>1, <1>9, <1>10, AssignInv

LEMMA NextTableInv == IInv /\ NextTable => IInv'
  <1> SUFFICES ASSUME IInv, NextTable PROVE IInv'
    OBVIOUS
  <1> USE DEF IInv
  <1>1. PICK t \in rest : /\ todo' = UsesOf(doc, t) /\ rest' = rest \ {t}
    BY DEF NextTable
  <1>2. /\ pc \in {"parse", "reorder"} /\ todo = <<>>
        /\ p' = 0 /\ pc' = pc /\ doc' = doc /\ labels' = labels
        /\ newLabels' = newLabels /\ offset' = offset
    BY DEF NextTable
  <1>3. t \in DOMAIN doc /\ IsDocument(doc)
    BY <1>1 DEF Typed
  <1>4. /\ UsesOf(doc, t) \in Seq(Uses(doc))
        /\ DOMAIN UsesOf(doc, t) = DOMAIN doc[t].names
        /\ \A u \in DOMAIN doc[t].names : UsesOf(doc, t)[u] = <<t, u>>
        /\ \A use \in Uses(doc) : use[1] = t =>
             \E u \in DOMAIN UsesOf(doc, t) : UsesOf(doc, t)[u] = use
    BY <1>3, UsesOfTable
  <1>5. Typed'
    BY <1>1, <1>2, <1>4 DEF Typed
  <1>6. Waiting'
    BY <1>1, <1>2, <1>4 DEF Waiting
  <1>7. Visited' = Visited
    <2>1. \A i \in DOMAIN todo : FALSE
      BY <1>2
    <2>2. ASSUME NEW use \in Uses(doc), NEW i \in DOMAIN todo', todo'[i] = use
          PROVE  use[1] = t
      BY <2>2, <1>1, <1>4
    <2>3. \A use \in Uses(doc) : use[1] = t => \E i \in DOMAIN todo' : todo'[i] = use
      BY <1>1, <1>4
    <2> QED BY <2>1, <2>2, <2>3, <1>1, <1>2 DEF Visited
  <1>8. OffsetsHold' /\ ReorderedNames'
    BY <1>2, <1>7 DEF OffsetsHold, ReorderedNames, Holds, NameOf, At
  <1> QED BY <1>5, <1>6, <1>8

LEMMA ReorderInv == IInv /\ Reorder => IInv'
  <1> SUFFICES ASSUME IInv, Reorder PROVE IInv'
    OBVIOUS
  <1> USE DEF IInv
  <1>1. /\ pc = "parse" /\ todo = <<>> /\ rest = {} /\ pc' = "reorder"
        /\ rest' = DOMAIN doc \ {Root} /\ todo' = UsesOf(doc, Root) /\ p' = 0
        /\ doc' = doc /\ labels' = labels /\ newLabels' = newLabels
        /\ offset' = offset
    BY DEF Reorder
  <1>2. IsDocument(doc) /\ Root \in DOMAIN doc
    BY RootTable DEF Typed
  <1>3. /\ UsesOf(doc, Root) \in Seq(Uses(doc))
        /\ DOMAIN UsesOf(doc, Root) = DOMAIN doc[Root].names
        /\ \A u \in DOMAIN doc[Root].names : UsesOf(doc, Root)[u] = <<Root, u>>
        /\ \A use \in Uses(doc) : use[1] = Root =>
             \E u \in DOMAIN UsesOf(doc, Root) : UsesOf(doc, Root)[u] = use
    BY <1>2, UsesOfTable
  <1>4. Typed'
    BY <1>1, <1>3 DEF Typed
  <1>5. Waiting'
    BY <1>1, <1>3 DEF Waiting
  <1>6. Visited = Uses(doc)
    BY <1>1 DEF Visited
  <1>7. Visited' = {}
    <2>1. \A use \in Uses(doc) : use[1] \in DOMAIN doc
      BY <1>2, NameType
    <2> QED BY <2>1, <1>1, <1>3 DEF Visited
  <1>8. \A use \in Uses(doc) : Holds(labels, use)'
    BY <1>1, <1>6 DEF OffsetsHold, Holds, NameOf, At
  <1>9. OffsetsHold' /\ ReorderedNames'
    BY <1>1, <1>7, <1>8 DEF OffsetsHold, ReorderedNames
  <1> QED BY <1>4, <1>5, <1>9

LEMMA FinishInv == IInv /\ Finish => IInv'
  <1> SUFFICES ASSUME IInv, Finish PROVE IInv'
    OBVIOUS
  <1> USE DEF IInv
  <1>1. /\ pc = "reorder" /\ todo = <<>> /\ rest = {}
        /\ pc' \in {"reordered", "dropped"}
        /\ doc' = doc /\ newLabels' = newLabels /\ offset' = offset
        /\ rest' = rest /\ todo' = todo /\ p' = p
        /\ labels' = labels \/ labels' = newLabels
        /\ pc' = "reordered" => labels' = newLabels
    BY DEF Finish
  <1>2. Typed' /\ Waiting'
    BY <1>1 DEF Typed, Waiting, BlockType, IsDocument
  <1>3. Visited = Uses(doc)
    BY <1>1 DEF Visited
  <1>4. \A use \in Uses(doc) : Holds(newLabels, use)
    BY <1>1, <1>3 DEF OffsetsHold
  <1>5. OffsetsHold' /\ ReorderedNames'
    BY <1>1, <1>4 DEF OffsetsHold, ReorderedNames, Holds, NameOf, At
  <1> QED BY <1>2, <1>5

LEMMA StutterInv == IInv /\ UNCHANGED vars => IInv'
  BY DEF IInv, vars, Typed, Waiting, OffsetsHold, ReorderedNames, BlockType,
         IsDocument, Visited, Holds, NameOf, At

(* Every step of read_xml's passes keeps the invariant.                    *)
THEOREM Invariance == Spec => []IInv
  <1>1. IInv /\ [Next]_vars => IInv'
    BY SkipInv, FoundInv, AddLabelInv, NextTableInv, ReorderInv, FinishInv,
       StutterInv DEF Next
  <1> QED BY InitInv, <1>1, PTL DEF Spec

(* The offset of every visited use is that of its own name in the block of *)
(* the pass, for any document and any names, the empty one included.       *)
THEOREM OffsetsAreRight == Spec => []OffsetsHold
  BY Invariance, PTL DEF IInv

(* A reordering that is kept leaves every entry and text with its name.    *)
THEOREM ReorderingKeepsNames == Spec => []ReorderedNames
  BY Invariance, PTL DEF IInv

-----------------------------------------------------------------------------
(***************************************************************************)
(* The search.  A block is a row of whole names (Rowed), so a search that  *)
(* starts at 0 comes to every name until it stops, and it has passed none  *)
(* that is the one sought (Searched).  Unless a name is empty it stops at  *)
(* the end only, and what is added is new.                                 *)
(***************************************************************************)
Whole(block, i, next) ==
    /\ next <= Len(block) + 1
    /\ next <= Len(block) => block[next].part = 1
    /\ \A j \in i + 1..next - 1 : block[j].part # 1

Rowed(block) ==
    /\ Len(block) > 0 => block[1].part = 1
    /\ \A i \in 1..Len(block) :
         block[i].part = 1 => Whole(block, i, i + Width[block[i].name])

Searched ==
    /\ p <= Len(Block)
    /\ p < Len(Block) => Block[p + 1].part = 1
    /\ todo # <<>> => \A i \in 1..p : Block[i] # Sought

SInv == IInv /\ Rowed(labels) /\ Rowed(newLabels) /\ Searched

LEMMA BlockTypes ==
    ASSUME Typed
    PROVE  /\ BlockType(Block) /\ Block \in Seq(Cell) /\ Len(Block) \in Nat
           /\ DOMAIN Block = 1..Len(Block)
           /\ \A i \in 1..Len(Block) :
                /\ Block[i] \in Cell /\ Block[i].name \in Names
                /\ Block[i].part \in Nat /\ Width[Block[i].name] \in Nat \ {0}
  <1>1. BlockType(Block) /\ Block \in Seq(Cell) /\ Len(Block) \in Nat
    BY LenProperties DEF Typed, BlockType, Block, Cell
  <1>2. \A i \in 1..Len(Block) : Block[i] \in Cell
    BY <1>1, ElementOfSeq
  <1>3. \A i \in 1..Len(Block) : Block[i].name \in Names /\ Block[i].part \in Nat
    BY <1>2 DEF Cell
  <1> QED BY <1>1, <1>2, <1>3, WidthAssumption, LenProperties

(* A search starts at the beginning of a name.                             *)
LEMMA SearchStarts ==
    ASSUME NEW block, Len(block) \in Nat, Rowed(block)
    PROVE  0 <= Len(block) /\ (0 < Len(block) => block[0 + 1].part = 1)
  BY SMT DEF Rowed

(* The name sought by the pass, its first word.                            *)
LEMMA SoughtType ==
    ASSUME IInv, todo # <<>>
    PROVE  /\ NameOf(Head(todo)) \in Names
           /\ Sought = Word(NameOf(Head(todo)), 1)
           /\ Sought.part = 1 /\ Sought.name = NameOf(Head(todo))
  <1>1. Head(todo) \in Uses(doc) /\ Head(todo) \notin Visited
    BY HeadWaits DEF IInv
  <1>2. NameOf(Head(todo)) \in Names
    BY <1>1, NameType DEF IInv, Typed
  <1>3. Sought = Word(NameOf(Head(todo)), 1)
    <2>1. CASE pc = "parse"
      BY <2>1 DEF Sought
    <2>2. CASE pc = "reorder"
      BY <2>2, <1>1 DEF Sought, OffsetsHold, Holds, IInv
    <2> QED BY <2>1, <2>2 DEF IInv, Typed, Waiting
  <1> QED BY <1>2, <1>3 DEF Word

(* A name added to a row of names makes a row of names.                    *)
LEMMA RowedAdded ==
    ASSUME NEW block, BlockType(block), Rowed(block), NEW n \in Names
    PROVE  Rowed(block \o Cells(n))
  <1> DEFINE new == block \o Cells(n)
             L == Len(block)
             w == Width[n]
  <1>1. /\ BlockType(new) /\ Len(new) = L + w /\ w \in Nat \ {0} /\ L \in Nat
        /\ \A i \in 1..L : new[i] = block[i]
        /\ \A i \in L + 1..L + w : new[i] = Word(n, i - L)
    BY Added
  <1>2. ASSUME NEW i \in L + 1..L + w
        PROVE  new[i].part = i - L /\ new[i].name = n
    <2>1. new[i] = Word(n, i - L)
      BY <1>1
    <2> HIDE DEF new
    <2> QED BY <2>1 DEF Word
  <1>3. \A i \in 1..L : Width[block[i].name] \in Nat \ {0}
    <2>1. block \in Seq(Cell)
      BY DEF BlockType, Cell
    <2>2. \A i \in 1..L : block[i] \in Cell
      BY <2>1, ElementOfSeq
    <2> QED BY <2>2, WidthAssumption DEF Cell
  <1>4. Len(new) > 0 => new[1].part = 1
    <2>1. CASE L = 0
      BY <2>1, <1>1, <1>2, SMT
    <2>2. CASE L > 0
      <3>1. new[1] = block[1] /\ block[1].part = 1
        BY <2>2, <1>1, SMT DEF Rowed
      <3> QED BY <3>1
    <2> QED BY <2>1, <2>2, <1>1, SMT
  <1>5. new[L + 1].part = 1
    BY <1>1, <1>2, SMT
  <1>6. ASSUME NEW i \in 1..Len(new), new[i].part = 1
        PROVE  Whole(new, i, i + Width[new[i].name])
    <2>1. CASE i <= L
      <3>1. i \in 1..L /\ new[i] = block[i] /\ Width[block[i].name] \in Nat \ {0}
        BY <2>1, <1>1, <1>3, SMT
      <3>2. PICK next \in Nat : next = i + Width[block[i].name]
        BY <3>1, SMT
      <3>3. Whole(block, i, next)
        BY <3>1, <3>2, <1>6 DEF Rowed
      <3>4. next <= L + 1 /\ next >= i + 1
        BY <3>1, <3>2, <3>3, SMT DEF Whole
      <3>5. next <= Len(new) + 1
        BY <3>4, <1>1, SMT
      <3>8. new[next].part = 1
        <4>1. CASE next <= L
          <5>1. next \in 1..L
            BY <4>1, <3>1, <3>4, SMT
          <5> QED BY <5>1, <4>1, <3>3, <1>1 DEF Whole
        <4>2. CASE next = L + 1
          BY <4>2, <1>5
        <4> QED BY <3>4, <4>1, <4>2, <1>1, SMT
      <3>9. ASSUME NEW j \in i + 1..next - 1
            PROVE  new[j].part # 1
        <4>1. j \in 1..L
          BY <3>1, <3>4, <1>1, SMT
        <4> QED BY <4>1, <3>3, <1>1 DEF Whole
      <3>10. Whole(new, i, next)
        BY <3>5, <3>8, <3>9 DEF Whole
      <3> QED BY <3>10, <3>2, <3>1
    <2>2. CASE i > L
      <3>1. i \in L + 1..L + w
        BY <2>2, <1>1, SMT
      <3>2. i - L = 1 /\ new[i].name = n
        BY <3>1, <1>2, <1>6
      <3>3. i = L + 1
        BY <3>1, <3>2, <1>1, SMT
      <3>4. ASSUME NEW j \in i + 1..(i + w) - 1
            PROVE  new[j].part # 1
        <4>1. j \in L + 1..L + w /\ j - L # 1
          BY <3>3, <1>1, SMT
        <4> QED BY <4>1, <1>2
      <3>5. i + w <= Len(new) + 1 /\ ~(i + w <= Len(new))
        BY <3>3, <1>1, SMT
      <3>6. Whole(new, i, i + w)
        BY <3>4, <3>5 DEF Whole
      <3> QED BY <3>2, <3>6
    <2>3. i <= L \/ i > L
      BY <1>1, SMT
    <2> QED BY <2>1, <2>2, <2>3
  <1> QED BY <1>4, <1>6 DEF Rowed

-----------------------------------------------------------------------------
LEMMA InitSearched == Init => SInv
  <1> SUFFICES ASSUME Init PROVE SInv
    OBVIOUS
  <1>1. IInv
    BY InitInv
  <1>2. Len(labels) = 0 /\ Len(newLabels) = 0 /\ p = 0
    BY EmptySeq DEF Init
  <1>3. Rowed(labels) /\ Rowed(newLabels)
    BY <1>2, SMT DEF Rowed
  <1>4. Len(Block) = 0
    BY <1>2 DEF Block
  <1>5. Searched
    BY <1>2, <1>4, SMT DEF Searched
  <1> QED BY <1>1, <1>3, <1>5 DEF SInv

(* A step after which a search starts anew.                                *)
LEMMA SearchAnew ==
    ASSUME IInv', Rowed(labels'), Rowed(newLabels'), p' = 0
    PROVE  SInv'
  <1>1. Len(Block') \in Nat /\ Rowed(Block')
    BY LenProperties DEF IInv, Typed, BlockType, Block
  <1>2. p' <= Len(Block') /\ (p' < Len(Block') => Block'[p' + 1].part = 1)
    BY <1>1, SearchStarts
  <1>3. Searched'
    BY <1>2, SMT DEF Searched
  <1> QED BY <1>3 DEF SInv

LEMMA SkipSearched == SInv /\ Skip => SInv'
  <1> SUFFICES ASSUME SInv, Skip PROVE SInv'
    OBVIOUS
  <1>1. /\ pc' = pc /\ doc' = doc /\ labels' = labels /\ newLabels' = newLabels
        /\ offset' = offset /\ rest' = rest /\ todo' = todo
        /\ todo # <<>> /\ p < Len(Block) /\ At(Block, p) # Sought
        /\ p' = p + Width[At(Block, p).name]
    BY DEF Skip, Searching, Stride
  <1>2. IInv /\ IInv' /\ Searched /\ Rowed(Block)
    BY SkipInv DEF SInv, Block
  <1>3. Block' = Block /\ Sought' = Sought
    BY <1>1 DEF Block, Sought, NameOf, At
  <1>4. /\ Len(Block) \in Nat /\ p \in Nat
        /\ \A i \in 1..Len(Block) : Width[Block[i].name] \in Nat \ {0}
    BY <1>2, BlockTypes DEF IInv, Typed
  <1>5. p + 1 \in 1..Len(Block) /\ Block[p + 1].part = 1
    BY <1>1, <1>2, <1>4, SMT DEF Searched
  <1>6. Whole(Block, p + 1, p + 1 + Width[Block[p + 1].name])
    BY <1>2, <1>5 DEF Rowed
  <1>7. PICK w \in Nat \ {0} : w = Width[Block[p + 1].name]
    BY <1>4, <1>5
  <1>8. p' = p + w
    BY <1>1, <1>7 DEF At
  <1>9. /\ p + 1 + w <= Len(Block) + 1
        /\ p + 1 + w <= Len(Block) => Block[p + 1 + w].part = 1
        /\ \A j \in (p + 1) + 1..(p + 1 + w) - 1 : Block[j].part # 1
    BY <1>6, <1>7 DEF Whole
  <1>10. p' <= Len(Block)
    BY <1>4, <1>7, <1>8, <1>9, SMT
  <1>11. p' < Len(Block) => Block[p' + 1].part = 1
    <2>1. p' + 1 = p + 1 + w
      BY <1>4, <1>7, <1>8, SMT
    <2>2. p' < Len(Block) => p + 1 + w <= Len(Block)
      BY <1>4, <1>7, <1>8, SMT
    <2> QED BY <2>1, <2>2, <1>9
  <1>12. ASSUME NEW i \in 1..p'
         PROVE  Block[i] # Sought
    <2>1. CASE i <= p
      <3>1. i \in 1..p
        BY <2>1, <1>4, SMT
      <3> QED BY <3>1, <1>1, <1>2 DEF Searched
    <2>2. CASE i = p + 1
      BY <2>2, <1>1 DEF At
    <2>3. CASE i > p + 1
      <3>1. i \in (p + 1) + 1..(p + 1 + w) - 1
        BY <2>3, <1>4, <1>7, <1>8, SMT
      <3>2. Block[i].part # 1
        BY <3>1, <1>9
      <3> QED BY <3>2, <1>1, <1>2, SoughtType
    <2>4. i <= p \/ i = p + 1 \/ i > p + 1
      BY <1>4, <1>7, <1>8, SMT
    <2> QED BY <2>1, <2>2, <2>3, <2>4
  <1>13. Searched'
    BY <1>1, <1>3, <1>10, <1>11, <1>12 DEF Searched
  <1> QED BY <1>1, <1>2, <1>13 DEF SInv

LEMMA AddLabelSearched == SInv /\ AddLabel => SInv'
  <1> SUFFICES ASSUME SInv, AddLabel PROVE SInv'
    OBVIOUS
  <1>1. /\ todo # <<>> /\ p' = 0
        /\ IF pc = "parse"
           THEN labels' = labels \o Cells(Sought.name) /\ newLabels' = newLabels
           ELSE newLabels' = newLabels \o Cells(Sought.name) /\ labels' = labels
    BY DEF AddLabel, Assign
  <1>2. IInv /\ IInv' /\ Rowed(labels) /\ Rowed(newLabels)
    BY AddLabelInv DEF SInv
  <1>3. Sought.name \in Names /\ BlockType(labels) /\ BlockType(newLabels)
    BY <1>1, <1>2, SoughtType DEF IInv, Typed
  <1>4. Rowed(labels') /\ Rowed(newLabels')
    BY <1>1, <1>2, <1>3, RowedAdded
  <1> QED BY <1>1, <1>2, <1>4, SearchAnew

(* The other steps start a search anew, or end the last pass.              *)
LEMMA OthersSearched ==
    SInv /\ (Found \/ NextTable \/ Reorder \/ Finish \/ UNCHANGED vars) => SInv'
  <1> SUFFICES ASSUME SInv,
                      Found \/ NextTable \/ Reorder \/ Finish \/ UNCHANGED vars
               PROVE  SInv'
    OBVIOUS
  <1>1. IInv' /\ Rowed(labels) /\ Rowed(newLabels) /\ Searched
    BY FoundInv, NextTableInv, ReorderInv, FinishInv, StutterInv DEF SInv
  <1>2. CASE Found \/ NextTable \/ Reorder
    <2>1. labels' = labels /\ newLabels' = newLabels /\ p' = 0
      BY <1>2 DEF Found, Assign, NextTable, Reorder
    <2> QED BY <2>1, <1>1, SearchAnew
  <1>3. CASE Finish
    <2>1. /\ newLabels' = newLabels /\ p' = p /\ todo' = <<>>
          /\ labels' = labels \/ labels' = newLabels
          /\ Block = newLabels /\ Block' = newLabels'
      BY <1>3 DEF Finish, Block
    <2>2. Searched'
      BY <2>1, <1>1 DEF Searched
    <2> QED BY <2>1, <2>2, <1>1 DEF SInv
  <1>4. CASE UNCHANGED vars
    <2>1. Searched'
      BY <1>4, <1>1 DEF Searched, Block, Sought, NameOf, At, vars
    <2> QED BY <2>1, <1>4, <1>1 DEF SInv, vars
  <1> QED BY <1>2, <1>3, <1>4

THEOREM SearchInvariance == Spec => []SInv
  <1>1. SInv /\ [Next]_vars => SInv'
    BY SkipSearched, AddLabelSearched, OthersSearched DEF Next
  <1> QED BY InitSearched, <1>1, PTL DEF Spec

(* Every variable has its type, and a search never leaves its block.       *)
THEOREM TypeCorrect == Spec => []TypeOK
  <1>1. SInv => TypeOK
    <2> SUFFICES ASSUME SInv PROVE TypeOK
      OBVIOUS
    <2>1. Len(Block) \in Nat /\ p \in Nat /\ p <= Len(Block)
      BY BlockTypes DEF SInv, IInv, Typed, Searched
    <2>2. p \in 0..Len(Block)
      BY <2>1, SMT
    <2> QED BY <2>2 DEF SInv, IInv, Typed, TypeOK
  <1> QED BY <1>1, SearchInvariance, PTL

-----------------------------------------------------------------------------
(* A name that is added was not in the block, when no name is empty.       *)
LEMMA AddedIsNew ==
    ASSUME SInv, Empty \notin Names, todo # <<>>, ~Searching
    PROVE  \A i \in Starts(Block) : Block[i].name # Sought.name
  <1>1. /\ Len(Block) \in Nat /\ p \in Nat /\ p <= Len(Block)
        /\ DOMAIN Block = 1..Len(Block)
        /\ \A i \in 1..Len(Block) : Block[i].name \in Names /\ Block[i] \in Cell
    BY BlockTypes DEF SInv, IInv, Typed, Searched
  <1>2. ~(p < Len(Block))
    <2> SUFFICES ASSUME p < Len(Block) PROVE FALSE
      OBVIOUS
    <2>1. p + 1 \in 1..Len(Block)
      BY <1>1, SMT
    <2>2. At(Block, p).name \in Names
      BY <2>1, <1>1 DEF At
    <2> QED BY <2>2 DEF Searching
  <1>3. p = Len(Block)
    <2>1. Len(Block) \in Nat /\ p \in Nat /\ p <= Len(Block)
      BY <1>1
    <2> QED BY <2>1, <1>2, SMT
  <1>4. \A i \in 1..Len(Block) : Block[i] # Sought
    BY <1>3 DEF SInv, Searched
  <1>5. Sought = Word(Sought.name, 1)
    BY SoughtType DEF SInv
  <1>6. ASSUME NEW i \in Starts(Block), Block[i].name = Sought.name
        PROVE  FALSE
    <2>1. i \in 1..Len(Block) /\ Block[i].part = 1
      BY <1>1 DEF Starts
    <2>2. Block[i] = Word(Block[i].name, 1)
      BY <2>1, <1>1 DEF Cell, Word
    <2> QED BY <2>1, <2>2, <1>4, <1>5, <1>6
  <1> QED BY <1>6

Once(block) ==
    \A i, j \in Starts(block) : block[i].name = block[j].name => i = j

LEMMA OnceAdded ==
    ASSUME NEW block, BlockType(block), NEW n \in Names, Once(block),
           \A i \in Starts(block) : block[i].name # n
    PROVE  Once(block \o Cells(n))
  <1> DEFINE new == block \o Cells(n)
             L == Len(block)
             w == Width[n]
  <1>1. /\ BlockType(new) /\ Len(new) = L + w /\ w \in Nat \ {0} /\ L \in Nat
        /\ \A i \in 1..L : new[i] = block[i]
        /\ \A i \in L + 1..L + w : new[i] = Word(n, i - L)
    BY Added
  <1>2. DOMAIN new = 1..L + w /\ DOMAIN block = 1..L
    BY <1>1, LenProperties DEF BlockType
  <1>3. ASSUME NEW i \in Starts(new)
        PROVE  \/ i \in Starts(block) /\ new[i] = block[i]
               \/ i = L + 1 /\ new[i].name = n
    <2> HIDE DEF new
    <2>1. i \in 1..L + w /\ new[i].part = 1
      BY <1>2 DEF Starts
    <2>2. CASE i \in 1..L
      BY <2>1, <2>2, <1>1, <1>2 DEF Starts
    <2>3. CASE i \in L + 1..L + w
      <3>1. new[i].part = i - L /\ new[i].name = n
        <4>1. new[i] = Word(n, i - L)
          BY <2>3, <1>1
        <4> QED BY <4>1 DEF Word
      <3>2. i - L = 1
        BY <3>1, <2>1
      <3>3. i = L + 1
        BY <3>2, <2>3, <1>1, SMT
      <3> QED BY <3>1, <3>3
    <2>4. i \in 1..L \/ i \in L + 1..L + w
      BY <2>1, <1>1, SMT
    <2> QED BY <2>2, <2>3, <2>4
  <1> HIDE DEF new
  <1>4. ASSUME NEW i \in Starts(new), NEW j \in Starts(new),
               new[i].name = new[j].name
        PROVE  i = j
    BY <1>3, <1>4 DEF Once
  <1> QED BY <1>4 DEF Once, new

(* Without empty names every name is stored once, in both blocks: the      *)
(* search of rcoxml_add_label finds what is there.                         *)
THEOREM LabelsStoredOnce ==
    ASSUME Empty \notin Names  PROVE Spec => []StoredOnce
  <1> DEFINE OInv == Once(labels) /\ Once(newLabels)
  <1>1. Init => OInv
    BY DEF Init, Once, Starts
  <1>2. SInv /\ OInv /\ [Next]_vars => OInv'
    <2> SUFFICES ASSUME SInv, OInv, [Next]_vars
                 PROVE  OInv'
      OBVIOUS
    <2>1. CASE AddLabel
      <3>1. /\ todo # <<>> /\ ~Searching
            /\ IF pc = "parse"
               THEN labels' = labels \o Cells(Sought.name) /\ newLabels' = newLabels
               ELSE newLabels' = newLabels \o Cells(Sought.name) /\ labels' = labels
        BY <2>1 DEF AddLabel
      <3>2. Sought.name \in Names /\ BlockType(labels) /\ BlockType(newLabels)
        BY <3>1, SoughtType DEF SInv, IInv, Typed
      <3>3. \A i \in Starts(Block) : Block[i].name # Sought.name
        BY <3>1, AddedIsNew
      <3>4. CASE pc = "parse"
        BY <3>1, <3>2, <3>3, <3>4, OnceAdded DEF Block
      <3>5. CASE pc # "parse"
        BY <3>1, <3>2, <3>3, <3>5, OnceAdded DEF Block
      <3> QED BY <3>4, <3>5
    <2>2. CASE ~AddLabel
      <3>1. /\ newLabels' = newLabels
            /\ labels' = labels \/ labels' = newLabels
        BY <2>2 DEF Next, Skip, Found, NextTable, Reorder, Finish, vars
      <3> QED BY <3>1
    <2> QED BY <2>1, <2>2
  <1>3. OInv => StoredOnce
    BY DEF Once, StoredOnce
  <1> QED BY <1>1, <1>2, <1>3, SearchInvariance, PTL DEF Spec

-----------------------------------------------------------------------------
(***************************************************************************)
(* How long the blocks are.  No word is twice in a block (Distinct), a     *)
(* name that is in it is there as a whole (Entire), and the second block   *)
(* takes its names from the first: so it is not longer.  In the end every  *)
(* use has its name in the second block, and every name of the first is    *)
(* that of a use (Used): so it is not shorter either.                      *)
(***************************************************************************)
Distinct(block) == \A i, j \in DOMAIN block : block[i] = block[j] => i = j

Entire(block) ==
    \A i \in DOMAIN block :
       /\ block[i].part \in 1..Width[block[i].name]
       /\ \A k \in 1..Width[block[i].name] :
            \E j \in DOMAIN block : block[j] = Word(block[i].name, k)

Within(a, b) == \A i \in DOMAIN a : \E j \in DOMAIN b : a[i] = b[j]

Used == \A i \in DOMAIN labels : \E use \in Uses(doc) : NameOf(use) = labels[i].name

LInv ==
    /\ Distinct(labels) /\ Entire(labels)
    /\ Distinct(newLabels) /\ Entire(newLabels)
    /\ pc = "parse" => newLabels = <<>>
    /\ Within(newLabels, labels)
    /\ pc \in {"parse", "reorder"} => Used
    /\ pc # "dropped"

LEMMA LengthWithin ==
    ASSUME NEW a, NEW b, BlockType(a), BlockType(b), Distinct(a), Within(a, b)
    PROVE  Len(a) <= Len(b)
  <1>1. /\ Len(a) \in Nat /\ DOMAIN a = 1..Len(a)
        /\ Len(b) \in Nat /\ DOMAIN b = 1..Len(b)
    BY LenProperties DEF BlockType
  <1> DEFINE f == [i \in DOMAIN a |-> CHOOSE j \in DOMAIN b : a[i] = b[j]]
  <1>2. f \in [DOMAIN a -> DOMAIN b] /\ \A i \in DOMAIN a : b[f[i]] = a[i]
    BY DEF Within
  <1>3. \A x, y \in DOMAIN a : f[x] = f[y] => x = y
    BY <1>2 DEF Distinct
  <1> HIDE DEF f
  <1>4. /\ IsFiniteSet(DOMAIN a) /\ Cardinality(DOMAIN a) = Len(a)
        /\ IsFiniteSet(DOMAIN b) /\ Cardinality(DOMAIN b) = Len(b)
    <2>1. \A n \in Nat : IsFiniteSet(1..n) /\ Cardinality(1..n) = n
      <3> TAKE n \in Nat
      <3>1. 1 \in Int /\ n \in Int
        OBVIOUS
      <3>2. IsFiniteSet(1..n) /\ Cardinality(1..n) = IF 1 > n THEN 0 ELSE n - 1 + 1
        BY <3>1, FS_Interval
      <3> QED BY <3>2
    <2> QED BY <1>1, <2>1
  <1>5. ~ (Cardinality(DOMAIN b) < Cardinality(DOMAIN a))
    BY <1>2, <1>3, <1>4, FS_PigeonHole
  <1> QED BY <1>1, <1>4, <1>5

LEMMA NameAdded ==
    ASSUME NEW block, BlockType(block), NEW n \in Names, Distinct(block), Entire(block),
           \A i \in Starts(block) : block[i].name # n
    PROVE  /\ Distinct(block \o Cells(n)) /\ Entire(block \o Cells(n))
           /\ \A i \in DOMAIN (block \o Cells(n)) :
                (\E j \in DOMAIN block : (block \o Cells(n))[i] = block[j])
                   \/ \E k \in 1..Width[n] : (block \o Cells(n))[i] = Word(n, k)
  <1> DEFINE new == block \o Cells(n)
             L == Len(block)
             w == Width[n]
  <1>1. /\ BlockType(new) /\ Len(new) = L + w /\ w \in Nat \ {0} /\ L \in Nat
        /\ \A i \in 1..L : new[i] = block[i]
        /\ \A i \in L + 1..L + w : new[i] = Word(n, i - L)
    BY Added
  <1>2. DOMAIN new = 1..L + w /\ DOMAIN block = 1..L
    BY <1>1, LenProperties DEF BlockType
  <1> HIDE DEF new
  <1>3. \A i \in 1..L + w : i \in 1..L \/ i \in L + 1..L + w
    BY <1>1, SMT
  <1>4. \A i \in L + 1..L + w : /\ i - L \in 1..w /\ new[i].part = i - L
                                /\ new[i].name = n
    <2> TAKE i \in L + 1..L + w
    <2>1. i - L \in 1..w
      BY <1>1, SMT
    <2>2. new[i] = Word(n, i - L)
      BY <1>1
    <2> QED BY <2>1, <2>2 DEF Word
  <1>5. \A i \in 1..L : new[i].name # n
    <2> SUFFICES ASSUME NEW i \in 1..L, block[i].name = n PROVE FALSE
      BY <1>1
    <2>1. 1 \in 1..Width[block[i].name]
      BY <1>1, SMT
    <2>2. PICK j \in DOMAIN block : block[j] = Word(n, 1)
      BY <1>2, <2>1 DEF Entire
    <2>3. j \in Starts(block) /\ block[j].name = n
      BY <2>2 DEF Starts, Word
    <2> QED BY <2>3
  <1>6. Distinct(new)
    <2> SUFFICES ASSUME NEW i \in 1..L + w, NEW j \in 1..L + w, new[i] = new[j]
                 PROVE  i = j
      BY <1>2 DEF Distinct
    <2>1. CASE i \in 1..L /\ j \in 1..L
      BY <1>1, <1>2, <2>1 DEF Distinct
    <2>2. CASE i \in L + 1..L + w /\ j \in L + 1..L + w
      <3>1. i - L = j - L
        BY <1>4, <2>2
      <3> QED BY <1>1, <2>2, <3>1, SMT
    <2>3. CASE i \in 1..L /\ j \in L + 1..L + w
      BY <1>4, <1>5, <2>3
    <2>4. CASE i \in L + 1..L + w /\ j \in 1..L
      BY <1>4, <1>5, <2>4
    <2> QED BY <1>3, <2>1, <2>2, <2>3, <2>4
  <1>7. Entire(new)
    <2>1. ASSUME NEW k \in 1..w PROVE \E j \in DOMAIN new : new[j] = Word(n, k)
      <3>1. L + k \in L + 1..L + w /\ (L + k) - L = k /\ L + k \in DOMAIN new
        BY <1>1, <1>2, SMT
      <3>2. new[L + k] = Word(n, k)
        BY <1>1, <3>1
      <3> QED BY <3>1, <3>2
    <2>2. ASSUME NEW i \in 1..L
          PROVE  /\ new[i].part \in 1..Width[new[i].name]
                 /\ \A k \in 1..Width[new[i].name] :
                      \E j \in DOMAIN new : new[j] = Word(new[i].name, k)
      <3>1. new[i] = block[i] /\ i \in DOMAIN block
        BY <1>1, <1>2
      <3>2. \A j \in DOMAIN block : j \in DOMAIN new /\ new[j] = block[j]
        BY <1>1, <1>2, SMT
      <3> QED BY <3>1, <3>2 DEF Entire
    <2>3. ASSUME NEW i \in L + 1..L + w
          PROVE  /\ new[i].part \in 1..Width[new[i].name]
                 /\ \A k \in 1..Width[new[i].name] :
                      \E j \in DOMAIN new : new[j] = Word(new[i].name, k)
      BY <1>4, <2>1
    <2> QED BY <1>2, <1>3, <2>2, <2>3 DEF Entire
  <1>8. \A i \in DOMAIN new : \/ \E j \in DOMAIN block : new[i] = block[j]
                              \/ \E k \in 1..w : new[i] = Word(n, k)
    <2> TAKE i \in DOMAIN new
    <2>1. CASE i \in 1..L
      BY <1>1, <1>2, <2>1
    <2>2. CASE i \in L + 1..L + w
      BY <1>1, <1>4, <2>2
    <2> QED BY <1>2, <1>3, <2>1, <2>2
  <1> QED BY <1>6, <1>7, <1>8 DEF new

LEMMA AddLabelLength ==
    ASSUME SInv, LInv, Empty \notin Names, AddLabel
    PROVE  LInv'
  <1> DEFINE n == Sought.name
  <1>1. /\ todo # <<>> /\ ~Searching /\ pc' = pc /\ doc' = doc
        /\ IF pc = "parse"
           THEN labels' = labels \o Cells(n) /\ newLabels' = newLabels
           ELSE newLabels' = newLabels \o Cells(n) /\ labels' = labels
    BY DEF AddLabel, Assign
  <1>2. IInv /\ BlockType(labels) /\ BlockType(newLabels) /\ pc \in {"parse", "reorder"}
    BY <1>1 DEF SInv, IInv, Typed, Waiting
  <1>3. n \in Names /\ n = NameOf(Head(todo)) /\ Sought = Word(n, 1)
    BY <1>1, <1>2, SoughtType
  <1>4. \A i \in Starts(Block) : Block[i].name # n
    BY <1>1, AddedIsNew
  <1>5. Head(todo) \in Uses(doc) /\ Head(todo) \notin Visited
    BY <1>1, <1>2, HeadWaits DEF IInv
  <1> HIDE DEF n
  <1>6. CASE pc = "parse"
    <2> DEFINE new == labels \o Cells(n)
    <2>1. /\ labels' = new /\ newLabels' = newLabels /\ newLabels = <<>>
          /\ Block = labels /\ Distinct(labels) /\ Entire(labels) /\ Used
      BY <1>1, <1>6 DEF LInv, Block
    <2>2. /\ Distinct(new) /\ Entire(new)
          /\ \A i \in DOMAIN new : \/ \E j \in DOMAIN labels : new[i] = labels[j]
                                   \/ \E k \in 1..Width[n] : new[i] = Word(n, k)
      <3>1. \A i \in Starts(labels) : labels[i].name # n
        BY <1>4, <2>1
      <3>2. BlockType(labels) /\ n \in Names /\ Distinct(labels) /\ Entire(labels)
        BY <1>2, <1>3, <2>1
      <3> QED BY <3>1, <3>2, NameAdded
    <2> HIDE DEF new
    <2>3. \A use : NameOf(use)' = NameOf(use)
      BY <1>1 DEF NameOf
    <2>4. ASSUME NEW i \in DOMAIN new
          PROVE  \E use \in Uses(doc) : NameOf(use) = new[i].name
      <3>1. CASE \E j \in DOMAIN labels : new[i] = labels[j]
        BY <2>1, <3>1 DEF Used
      <3>2. CASE \E k \in 1..Width[n] : new[i] = Word(n, k)
        BY <1>3, <1>5, <3>2 DEF Word
      <3> QED BY <2>2, <3>1, <3>2
    <2>5. Used'
      BY <1>1, <2>1, <2>3, <2>4 DEF Used
    <2>6. Distinct(newLabels') /\ Entire(newLabels') /\ Within(newLabels', labels')
      BY <2>1 DEF Distinct, Entire, Within
    <2> QED BY <1>1, <1>6, <2>1, <2>2, <2>5, <2>6 DEF LInv, Distinct, Entire, Within
  <1>7. CASE pc = "reorder"
    <2> DEFINE new == newLabels \o Cells(n)
    <2>1. /\ newLabels' = new /\ labels' = labels /\ Block = newLabels
          /\ Distinct(labels) /\ Entire(labels) /\ Used
          /\ Distinct(newLabels) /\ Entire(newLabels) /\ Within(newLabels, labels)
      BY <1>1, <1>7 DEF LInv, Block
    <2>2. /\ Distinct(new) /\ Entire(new)
          /\ \A i \in DOMAIN new : \/ \E j \in DOMAIN newLabels : new[i] = newLabels[j]
                                   \/ \E k \in 1..Width[n] : new[i] = Word(n, k)
      <3>1. \A i \in Starts(newLabels) : newLabels[i].name # n
        BY <1>4, <2>1
      <3>2. BlockType(newLabels) /\ n \in Names /\ Distinct(newLabels) /\ Entire(newLabels)
        BY <1>2, <1>3, <2>1
      <3> QED BY <3>1, <3>2, NameAdded
    <2> HIDE DEF new
    <2>3. PICK at \in DOMAIN labels : labels[at] = Word(n, 1)
      <3> DEFINE at == offset[Head(todo)]
      <3>1. Holds(labels, Head(todo))
        BY <1>2, <1>5, <1>7 DEF IInv, OffsetsHold
      <3>2. at \in Nat /\ Len(labels) \in Nat /\ DOMAIN labels = 1..Len(labels)
        BY <1>2, <1>5, LenProperties DEF IInv, Typed, BlockType
      <3>3. at < Len(labels) /\ labels[at + 1] = Word(n, 1)
        BY <1>3, <3>1 DEF Holds, At
      <3> HIDE DEF at
      <3>4. at + 1 \in DOMAIN labels
        BY <3>2, <3>3
      <3> QED BY <3>3, <3>4
    <2>4. \A k \in 1..Width[n] : \E j \in DOMAIN labels : labels[j] = Word(n, k)
      <3>1. labels[at].name = n
        BY <2>3 DEF Word
      <3> QED BY <2>1, <3>1 DEF Entire
    <2>5. Within(new, labels)
      <3> SUFFICES ASSUME NEW i \in DOMAIN new PROVE \E j \in DOMAIN labels : new[i] = labels[j]
        BY DEF Within
      <3>1. CASE \E j \in DOMAIN newLabels : new[i] = newLabels[j]
        BY <2>1, <3>1 DEF Within
      <3>2. CASE \E k \in 1..Width[n] : new[i] = Word(n, k)
        BY <2>4, <3>2
      <3> QED BY <2>2, <3>1, <3>2
    <2>6. Used'
      BY <1>1, <2>1 DEF Used, NameOf
    <2> QED BY <1>1, <1>7, <2>1, <2>2, <2>5, <2>6 DEF LInv, Distinct, Entire, Within
  <1> QED BY <1>2, <1>6, <1>7

LEMMA FinishLength ==
    ASSUME SInv, LInv, Finish
    PROVE  LInv'
  <1>1. /\ pc = "reorder" /\ todo = <<>> /\ rest = {} /\ newLabels' = newLabels
        /\ doc' = doc
    BY DEF Finish
  <1>2. IInv /\ BlockType(labels) /\ BlockType(newLabels) /\ IsDocument(doc)
    BY DEF SInv, IInv, Typed
  <1>3. \A use \in Uses(doc) : Holds(newLabels, use)
    <2>1. Visited = Uses(doc)
      BY <1>1 DEF Visited
    <2> QED BY <1>1, <1>2, <2>1 DEF IInv, OffsetsHold
  <1>4. Within(labels, newLabels)
    <2> SUFFICES ASSUME NEW i \in DOMAIN labels
                 PROVE  \E j \in DOMAIN newLabels : labels[i] = newLabels[j]
      BY DEF Within
    <2> DEFINE n == labels[i].name
               k == labels[i].part
    <2>1. PICK use \in Uses(doc) : NameOf(use) = n
      BY <1>1 DEF LInv, Used
    <2>2. k \in 1..Width[n] /\ labels[i] = Word(n, k)
      <3>1. labels \in Seq(Cell)
        BY <1>2 DEF BlockType, Cell
      <3>2. labels[i] \in Cell
        BY <3>1, ElementOfSeq, LenProperties
      <3> QED BY <3>2 DEF LInv, Entire, Cell, Word
    <2> DEFINE at == offset[use]
    <2>3. at < Len(newLabels) /\ newLabels[at + 1] = Word(n, 1)
      BY <1>3, <2>1 DEF Holds, At
    <2>4. at \in Nat /\ Len(newLabels) \in Nat /\ DOMAIN newLabels = 1..Len(newLabels)
      BY <1>2, LenProperties DEF IInv, Typed, BlockType
    <2> HIDE DEF at, n, k
    <2>5. at + 1 \in DOMAIN newLabels
      BY <2>3, <2>4
    <2>6. newLabels[at + 1].name = n
      BY <2>3 DEF Word
    <2>7. PICK j \in DOMAIN newLabels : newLabels[j] = Word(n, k)
      BY <2>2, <2>5, <2>6 DEF LInv, Entire
    <2> QED BY <2>2, <2>7
  <1>5. Len(labels) <= Len(newLabels)
    BY <1>2, <1>4, LengthWithin DEF LInv
  <1>6. Len(labels) \in Nat /\ Len(newLabels) \in Nat
    BY <1>2, LenProperties DEF BlockType
  <1>7. ~ (Len(newLabels) < Len(labels))
    BY <1>5, <1>6
  <1>8. pc' = "reordered" /\ labels' = newLabels
    BY <1>7 DEF Finish
  <1>9. Within(newLabels, newLabels)
    BY DEF Within
  <1> QED BY <1>1, <1>8, <1>9 DEF LInv, Distinct, Entire, Within

(* Without empty names the second pass finds the names of the first, no    *)
(* more and no fewer: its block never outgrows the one allocated, which    *)
(* has the length of the first, and the reordering is never dropped.       *)
THEOREM BlocksAgree ==
    ASSUME Empty \notin Names  PROVE Spec => []SameLength
  <1>1. Init => LInv
    BY DEF Init, LInv, Distinct, Entire, Within, Used
  <1>2. SInv /\ LInv /\ [Next]_vars => LInv'
    <2> SUFFICES ASSUME SInv, LInv, [Next]_vars
                 PROVE  LInv'
      OBVIOUS
    <2>1. CASE AddLabel
      BY <2>1, AddLabelLength
    <2>2. CASE Finish
      BY <2>2, FinishLength
    <2>3. CASE Skip \/ Found \/ NextTable \/ UNCHANGED vars
      <3>1. UNCHANGED <<pc, doc, labels, newLabels>>
        BY <2>3 DEF Skip, Found, Assign, NextTable, vars
      <3> QED BY <3>1 DEF LInv, Distinct, Entire, Within, Used, NameOf
    <2>4. CASE Reorder
      <3>1. pc = "parse" /\ pc' = "reorder" /\ UNCHANGED <<doc, labels, newLabels>>
        BY <2>4 DEF Reorder
      <3> QED BY <3>1 DEF LInv, Distinct, Entire, Within, Used, NameOf
    <2> QED BY <2>1, <2>2, <2>3, <2>4 DEF Next
  <1>3. SInv /\ LInv => SameLength
    <2> SUFFICES ASSUME SInv, LInv PROVE SameLength
      OBVIOUS
    <2>1. BlockType(labels) /\ BlockType(newLabels)
      BY DEF SInv, IInv, Typed
    <2>2. Len(newLabels) <= Len(labels)
      BY <2>1, LengthWithin DEF LInv
    <2>3. newLabels = <<>> => Len(newLabels) = 0
      BY EmptySeq
    <2> QED BY <2>2, <2>3 DEF SameLength, LInv
  <1> QED BY <1>1, <1>2, <1>3, SearchInvariance, PTL DEF Spec
=============================================================================
