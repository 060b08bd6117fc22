---------------------------- MODULE HostFs_proofs ----------------------------
(***************************************************************************)
(* What holds of the items and the listing of host0, of the walk along the *)
(* items and of the search by a path: for any modules, any number of       *)
(* vnodes, items and cells, and any sizes.                                 *)
(***************************************************************************)
EXTENDS HostFs, FiniteSetTheorems, SequenceTheorems, TLAPS

\* Only the directory of modules holds cells, and nothing faults before the
\* file system is mounted.
KidsApart ==
    /\ \A d \in (Dir \cup {"/"}) \ {"kernel modules"} : kids[d] \in Seq(Dir \cup StatFile)
    /\ List \in Seq(Cell)
    /\ ~mounted => fault = "none"

IInv == HostTypeOK /\ KidsApart /\ LinksAgree /\ ListingOwned /\ FreshHandlesLive

ItemsTyped ==
    /\ obj \in [Item -> Object \cup {NULL}]
    /\ next \in [Item -> Item \cup {NULL}] /\ prev \in [Item -> Item \cup {NULL}]
    /\ last_obj \in Item \cup {NULL}

ItemsOK == ItemsTyped /\ LinksAgree /\ SeekWithinSize

-----------------------------------------------------------------------------
(* The list of items *)

\* A lookup gives an item there is, or none.
LEMMA LookupIs ==
    ASSUME NEW n
    PROVE  getFileEntryByNode(n) # NULL =>
             /\ getFileEntryByNode(n) \in Live
             /\ obj[getFileEntryByNode(n)].node = n
  <1>1. \A i \in Item : IsFirstOf(i, n) => i \in Live /\ obj[i].node = n
    BY DEF IsFirstOf, Live
  <1> QED
    BY <1>1 DEF getFileEntryByNode

LEMMA NullIsNone == NULL \notin Item /\ NULL \notin Object /\ NULL \notin Cell
                    /\ NULL \notin Entry /\ Cell \cap (Dir \cup StatFile) = {}
                    /\ NULL \notin Segment
  BY HostAssumption DEF Entry

LEMMA ZeroIsNone == ZERO \notin Dir \cup {"/"} \cup StatFile \cup Segment
  BY HostAssumption DEF Entry

\* A new item joins the list whose links agree.
LEMMA CreateKeeps ==
    ASSUME ItemsOK, NEW i \in Item, NEW n \in Node, NEW r \in Entry \cup {NULL},
           NEW e \in Entry \cup {NULL}, NEW s \in Nat,
           create_file_item(i, n, r, e, s)
    PROVE  ItemsOK' /\ Live' = Live \cup {i}
  <1> DEFINE new == [node |-> n, root |-> r, entry |-> e, seek |-> 0, size |-> s]
  <1> USE NullIsNone DEF ItemsOK, ItemsTyped
  <1>1. /\ obj[i] = NULL /\ i \notin Live
        /\ obj' = [obj EXCEPT ![i] = new]
        /\ new \in Object
    BY DEF create_file_item, Object, Live
  <1>2. /\ prev' = [j \in Item |-> IF j = i THEN NULL
                                   ELSE IF j = last_obj THEN i ELSE prev[j]]
        /\ next' = [next EXCEPT ![i] = last_obj]
        /\ last_obj' = i
    BY DEF create_file_item, init_patch
  <1> HIDE DEF new
  <1>3. Live' = Live \cup {i}
    BY <1>1 DEF Live
  <1>4. ItemsTyped'
    BY <1>1, <1>2
  <1>5. LinksAgree'
    <2>1. \A j \in Live : /\ next[j] \in Live \cup {NULL} /\ next'[j] = next[j]
                          /\ prev'[j] = IF j = last_obj THEN i ELSE prev[j]
      BY <1>1, <1>2 DEF Live, LinksAgree
    <2>2. next'[i] = last_obj /\ prev'[i] = NULL
      BY <1>2
    <2>3. last_obj' \in Live' \cup {NULL}
      BY <1>2, <1>3
    <2>4. \A j \in Live' : /\ next'[j] \in Live' \cup {NULL}
                           /\ prev'[j] \in Live' \cup {NULL}
                           /\ prev'[j] = NULL <=> j = last_obj'
      BY <1>1, <1>2, <1>3, <2>1, <2>2 DEF LinksAgree, Live
    <2>5. \A j, k \in Live' : next'[j] = k <=> prev'[k] = j
      BY <1>1, <1>2, <1>3, <2>1, <2>2 DEF LinksAgree, Live
    <2> QED
      BY <2>3, <2>4, <2>5 DEF LinksAgree
  <1>6. SeekWithinSize'
    <2>1. new.seek = 0 /\ new.size = s
      BY DEF new
    <2> QED
      BY <1>1, <1>3, <2>1 DEF SeekWithinSize, Live
  <1> QED
    BY <1>3, <1>4, <1>5, <1>6

\* An item that leaves the list leaves it with links that agree.
LEMMA DeleteKeeps ==
    ASSUME ItemsOK, NEW n, DeleteItem(n)
    PROVE  /\ ItemsOK'
           /\ Live' = Live \ {getFileEntryByNode(n)}
           /\ \A i \in Live' : obj'[i] = obj[i]
           /\ stale \cap Live' \subseteq stale'
  <1> USE NullIsNone DEF ItemsOK, ItemsTyped
  <1> DEFINE i == getFileEntryByNode(n)
  <1>1. CASE i = NULL
    <2>1. UNCHANGED <<items, stale>>
      BY <1>1 DEF DeleteItem
    <2>2. Live' = Live /\ NULL \notin Live
      BY <2>1 DEF items, Live
    <2>3. ItemsOK' /\ \A j \in Live' : obj'[j] = obj[j]
      BY <2>1, <2>2 DEF items, LinksAgree, SeekWithinSize
    <2> QED
      BY <1>1, <2>1, <2>2, <2>3
  <1>2. CASE i # NULL
    <2>1. /\ obj' = [obj EXCEPT ![i] = NULL]
          /\ last_obj' = IF prev[i] = NULL THEN next[i] ELSE last_obj
          /\ next' = [j \in Item |-> IF j = i THEN NULL
                                     ELSE IF j = prev[i] THEN next[i] ELSE next[j]]
          /\ prev' = [j \in Item |-> IF j = i THEN NULL
                                     ELSE IF j = next[i] THEN prev[i] ELSE prev[j]]
          /\ stale' = stale \ {i}
      BY <1>2 DEF DeleteItem, free_patch
    <2>2. i \in Live
      BY <1>2, LookupIs
    <2> HIDE DEF i
    <2>3. Live' = Live \ {i} /\ i \in Item
      BY <2>1, <2>2 DEF Live
    <2>4. ItemsTyped'
      BY <2>1, <2>3
    <2>5. LinksAgree'
      <3>1. last_obj' \in Live' \cup {NULL}
        BY <2>1, <2>2, <2>3 DEF LinksAgree, Live
      <3>2. \A j \in Live' : /\ next'[j] \in Live' \cup {NULL}
                             /\ prev'[j] \in Live' \cup {NULL}
                             /\ prev'[j] = NULL <=> j = last_obj'
        BY <2>1, <2>2, <2>3 DEF LinksAgree, Live
      <3>3. \A j, k \in Live' : next'[j] = k <=> prev'[k] = j
        BY <2>1, <2>2, <2>3 DEF LinksAgree, Live
      <3> QED
        BY <3>1, <3>2, <3>3 DEF LinksAgree
    <2>6. SeekWithinSize' /\ \A j \in Live' : obj'[j] = obj[j]
      BY <2>1, <2>3 DEF SeekWithinSize, Live
    <2>7. Live' = Live \ {getFileEntryByNode(n)}
      BY <2>3 DEF i
    <2> QED
      BY <2>1, <2>3, <2>4, <2>5, <2>6, <2>7
  <1> QED
    BY <1>1, <1>2

-----------------------------------------------------------------------------
(* Entries *)

LEMMA ElementOf ==
    ASSUME NEW S, NEW s \in Seq(S), NEW i \in 1..Len(s)
    PROVE  s[i] \in S
  OBVIOUS

\* The part of the invariant that is about entries.
TreeOK ==
    /\ kids \in [Dir \cup {"/"} -> Seq(Entry)]
    /\ cell \in [Cell -> Segment \cup {NULL}]
    /\ KidsApart /\ ListingOwned

\* What a directory lists is an entry, and no freed cell.
LEMMA KidIs ==
    ASSUME TreeOK, NEW d \in Dir \cup {"/"}, NEW j \in 1..Len(kids[d])
    PROVE  kids[d][j] \in Entry /\ ~Freed(kids[d][j])
  <1>1. kids[d] \in Seq(Entry) /\ kids[d][j] \in Entry
    BY DEF TreeOK
  <1>2. CASE d = "kernel modules"
    <2>1. j \in 1..Len(List) /\ List \in Seq(Cell)
      BY <1>2 DEF TreeOK, KidsApart, List
    <2>3. List[j] \in Cell
      BY <2>1
    <2>2. cell[List[j]] # NULL
      BY <2>1, <2>3 DEF TreeOK, ListingOwned
    <2> QED
      BY <1>1, <1>2, <2>2 DEF Freed, List
  <1>3. CASE d # "kernel modules"
    <2>1. kids[d] \in Seq(Dir \cup StatFile)
      BY <1>3 DEF TreeOK, KidsApart
    <2>2. kids[d][j] \in Dir \cup StatFile
      BY <2>1
    <2> QED
      BY <1>1, <2>2, NullIsNone DEF Freed
  <1> QED
    BY <1>2, <1>3

LEMMA FindIs ==
    ASSUME TreeOK, NEW d \in Dir \cup {"/"}, NEW name
    PROVE  Find(d, name) \in Entry \cup {NULL} /\ ~Freed(Find(d, name))
  <1>1. CASE \E i \in 1..Len(kids[d]) : IsFound(d, name, i)
    <2> DEFINE i == CHOOSE i \in 1..Len(kids[d]) : IsFound(d, name, i)
    <2>1. i \in 1..Len(kids[d])
      BY <1>1
    <2>2. Find(d, name) = kids[d][i]
      BY <1>1 DEF Find
    <2> QED
      BY <2>1, <2>2, KidIs
  <1>2. CASE ~\E i \in 1..Len(kids[d]) : IsFound(d, name, i)
    BY <1>2, NullIsNone DEF Find, Freed
  <1> QED
    BY <1>1, <1>2

LEMMA AfterIs ==
    ASSUME TreeOK, NEW e
    PROVE  After(e) \in Entry \cup {NULL} /\ ~Freed(After(e))
  <1>1. \A x \in Entry : Follows(x, e) => ~Freed(x)
    <2> SUFFICES ASSUME NEW x \in Entry, Follows(x, e)
                 PROVE  ~Freed(x)
      OBVIOUS
    <2>1. PICK d \in DOMAIN kids : \E i \in 1..(Len(kids[d]) - 1) : kids[d][i + 1] = x
      BY DEF Follows
    <2>2. PICK i \in 1..(Len(kids[d]) - 1) : kids[d][i + 1] = x
      BY <2>1
    <2>3. d \in Dir \cup {"/"} /\ Len(kids[d]) \in Nat
      BY DEF TreeOK
    <2>4. i + 1 \in 1..Len(kids[d])
      BY <2>3
    <2> QED
      BY <2>2, <2>3, <2>4, KidIs
  <1>2. CASE \E x \in Entry : Follows(x, e)
    <2> DEFINE x == CHOOSE x \in Entry : Follows(x, e)
    <2>1. x \in Entry /\ Follows(x, e)
      BY <1>2
    <2>2. After(e) = x
      BY <1>2 DEF After
    <2> HIDE DEF x
    <2> QED
      BY <1>1, <2>1, <2>2
  <1>3. CASE ~\E x \in Entry : Follows(x, e)
    BY <1>3, NullIsNone DEF Freed, After
  <1> QED
    BY <1>2, <1>3

LEMMA HeadIs ==
    ASSUME TreeOK, NEW d \in Dir \cup {"/"}
    PROVE  /\ HeadOf(kids[d]) \in Entry \cup {NULL} /\ ~Freed(HeadOf(kids[d]))
           /\ HeadOf(kids[d]) \in Cell => HeadOf(kids[d]) = HeadOf(List)
  <1>1. kids[d] \in Seq(Entry)
    BY DEF TreeOK
  <1>2. CASE kids[d] = <<>>
    BY <1>2, NullIsNone DEF HeadOf, Freed
  <1>3. CASE kids[d] # <<>>
    <2>1. 1 \in 1..Len(kids[d]) /\ HeadOf(kids[d]) = kids[d][1]
      BY <1>1, <1>3 DEF HeadOf
    <2>2. ASSUME d # "kernel modules"
          PROVE  kids[d][1] \notin Cell
      <3>1. kids[d] \in Seq(Dir \cup StatFile)
        BY <2>2 DEF TreeOK, KidsApart
      <3>2. kids[d][1] \in Dir \cup StatFile
        BY <2>1, <3>1, ElementOf
      <3> QED
        BY <3>2, NullIsNone
    <2> QED
      BY <2>1, <2>2, KidIs DEF List
  <1> QED
    BY <1>2, <1>3

\* What the two searches of a path return is there, or nothing.
LEMMA PathEntryIs ==
    ASSUME TreeOK, NEW p \in Path
    PROVE  /\ getFileEntry(p) \in Entry \cup {NULL} /\ ~Freed(getFileEntry(p))
           /\ getDirEntry(p) \in Entry \cup {NULL}
  <1>1. "/" \in Dir \cup {"/"}
    OBVIOUS
  <1>2. HeadOf(kids["/"]) \in Entry \cup {NULL} /\ ~Freed(HeadOf(kids["/"]))
    BY <1>1, HeadIs
  <1>3. Find("/", p[1]) \in Entry \cup {NULL} /\ ~Freed(Find("/", p[1]))
    BY <1>1, FindIs
  <1>4. ~Freed(NULL)
    BY NullIsNone DEF Freed
  <1>5. getDirEntry(p) \in Entry \cup {NULL}
    BY <1>2, <1>3 DEF getDirEntry
  <1>6. CASE p[1] \in Dir
    <2>1. Find(p[1], p[2]) \in Entry \cup {NULL} /\ ~Freed(Find(p[1], p[2]))
      BY <1>6, FindIs
    <2> QED
      BY <2>1, <1>2, <1>3, <1>4, <1>5 DEF getFileEntry
  <1>7. CASE p[1] \notin Dir
    <2>1. p[1] = ZERO
      BY <1>7 DEF Path
    <2> QED
      BY <2>1, <1>2, <1>5 DEF getFileEntry
  <1> QED
    BY <1>6, <1>7

LEMMA TreeStays ==
    ASSUME TreeOK, UNCHANGED tree, mounted' = mounted, mounted
    PROVE  TreeOK'
  BY DEF TreeOK, tree, KidsApart, ListingOwned, List

-----------------------------------------------------------------------------
(* Steps of an item *)

\* An item moves on in its file.
LEMMA SeekMoves ==
    ASSUME ItemsOK, NEW i \in Live, NEW asked \in Nat, Advance(i, asked),
           UNCHANGED <<next, prev, last_obj>>
    PROVE  /\ ItemsOK' /\ Live' = Live
           /\ \A j \in Live : /\ obj'[j].entry = obj[j].entry /\ obj'[j].root = obj[j].root
                              /\ obj'[j].node = obj[j].node /\ obj'[j].size = obj[j].size
  <1> USE NullIsNone DEF ItemsOK, ItemsTyped
  <1> DEFINE k == Moved(i, asked)
  <1>0. i \in Item /\ obj[i] \in Object
    BY DEF Live
  <1>a. k \in Nat /\ obj[i].seek + k <= obj[i].size
    <2>1. obj[i].seek <= obj[i].size
      BY DEF SeekWithinSize
    <2>2. obj[i].seek \in Nat /\ obj[i].size \in Nat
      BY <1>0 DEF Object
    <2> QED
      BY <2>1, <2>2 DEF Moved, Left
  <1>b. obj' = [obj EXCEPT ![i] = [obj[i] EXCEPT !.seek = @ + k]]
    BY DEF Advance
  <1> HIDE DEF k
  <1>1. /\ i \in Item /\ obj[i] \in Object /\ k \in Nat /\ obj[i].seek + k <= obj[i].size
        /\ obj' = [obj EXCEPT ![i] = [obj[i] EXCEPT !.seek = @ + k]]
    BY <1>0, <1>a, <1>b
  <1>2. [obj[i] EXCEPT !.seek = @ + k] \in Object
    BY <1>1 DEF Object
  <1>3. \A j \in Live : /\ obj'[j].entry = obj[j].entry /\ obj'[j].root = obj[j].root
                        /\ obj'[j].node = obj[j].node /\ obj'[j].size = obj[j].size
                        /\ obj'[j].seek = IF j = i THEN obj[i].seek + k ELSE obj[j].seek
    BY <1>1 DEF Live, Object
  <1>4. Live' = Live
    BY <1>1, <1>2 DEF Live
  <1>5. ItemsTyped' /\ LinksAgree'
    BY <1>1, <1>2, <1>4 DEF LinksAgree
  <1>6. SeekWithinSize'
    BY <1>1, <1>3, <1>4 DEF SeekWithinSize
  <1> QED
    BY <1>3, <1>4, <1>5, <1>6

\* A cursor comes to another entry.
LEMMA CursorMoves ==
    ASSUME ItemsOK, NEW i \in Live, NEW e \in Entry \cup {NULL},
           obj' = [obj EXCEPT ![i].entry = e], UNCHANGED <<next, prev, last_obj>>
    PROVE  /\ ItemsOK' /\ Live' = Live
           /\ \A j \in Live : /\ obj'[j].root = obj[j].root
                              /\ obj'[j].entry = IF j = i THEN e ELSE obj[j].entry
                              /\ obj'[j].node = obj[j].node /\ obj'[j].size = obj[j].size
  <1> USE NullIsNone DEF ItemsOK, ItemsTyped
  <1>1. /\ i \in Item /\ obj[i] \in Object
        /\ obj' = [obj EXCEPT ![i] = [obj[i] EXCEPT !.entry = e]]
    BY DEF Live
  <1>2. [obj[i] EXCEPT !.entry = e] \in Object
    BY <1>1 DEF Object
  <1>3. \A j \in Live : /\ obj'[j].root = obj[j].root
                        /\ obj'[j].entry = IF j = i THEN e ELSE obj[j].entry
                        /\ obj'[j].node = obj[j].node
                        /\ obj'[j].size = obj[j].size /\ obj'[j].seek = obj[j].seek
    BY <1>1 DEF Live, Object
  <1>4. Live' = Live
    BY <1>1, <1>2 DEF Live
  <1>5. ItemsTyped' /\ LinksAgree'
    BY <1>1, <1>2, <1>4 DEF LinksAgree
  <1>6. SeekWithinSize'
    BY <1>1, <1>3, <1>4 DEF SeekWithinSize
  <1> QED
    BY <1>3, <1>4, <1>5, <1>6


FreshItems ==
    \A i \in Live \ stale : /\ ~Freed(obj[i].entry)
                            /\ obj[i].root \in Cell => obj[i].root = HeadOf(List)

\* A cursor that leaves a fresh item for an entry that is not freed leaves it
\* fresh.
LEMMA CursorFresh ==
    ASSUME FreshItems, NEW i \in Live, NEW e,
           i \notin stale => ~Freed(e),
           UNCHANGED <<tree, stale>>, Live' = Live,
           \A j \in Live : /\ obj'[j].root = obj[j].root
                           /\ obj'[j].entry = IF j = i THEN e ELSE obj[j].entry
    PROVE  FreshItems'
  <1>1. cell' = cell /\ HeadOf(List)' = HeadOf(List) /\ (Live \ stale)' = Live \ stale
    BY DEF tree, List, HeadOf
  <1>2. ASSUME NEW j \in Live \ stale
        PROVE  /\ ~Freed(obj'[j].entry)
               /\ obj'[j].root \in Cell => obj'[j].root = HeadOf(List)
    BY <1>2 DEF FreshItems
  <1> QED
    BY <1>1, <1>2 DEF FreshItems, Freed

\* The invariant in the parts a step is about.
Rest ==
    /\ conf \in Word
    /\ at \in [Node -> Path \cup {NULL}]
    /\ up \in [Node -> Node]
    /\ opens \in [Node -> Nat] /\ dopens \in [Node -> Nat]
    /\ loaded \subseteq 1..Modules
    /\ stale \subseteq Item
    /\ fault \in {"none", "freed", "end"}
    /\ mounted \in BOOLEAN

LEMMA Parts ==
    IInv <=> TreeOK /\ ItemsOK /\ FreshItems /\ Rest /\ (fault = "freed" => stale # {})
  BY DEF IInv, HostTypeOK, TreeOK, ItemsOK, ItemsTyped, FreshItems, FreshHandlesLive, Rest

LEMMA PartsPrimed ==
    IInv' <=> TreeOK' /\ ItemsOK' /\ FreshItems' /\ Rest' /\ (fault = "freed" => stale # {})'
  BY DEF IInv, HostTypeOK, TreeOK, ItemsOK, ItemsTyped, FreshItems, FreshHandlesLive, Rest

\* With the tree as it was, items that kept their pointers are as fresh as before.
LEMMA FreshStays ==
    ASSUME FreshItems, UNCHANGED tree, Live' \subseteq Live,
           stale \cap Live' \subseteq stale',
           \A j \in Live' : obj'[j].entry = obj[j].entry /\ obj'[j].root = obj[j].root
    PROVE  FreshItems'
  <1> SUFFICES ASSUME NEW i \in Live', i \notin stale'
               PROVE  /\ ~Freed(obj[i].entry)'
                      /\ (obj[i].root \in Cell => obj[i].root = HeadOf(List))'
    BY DEF FreshItems
  <1>1. i \in Live \ stale
    OBVIOUS
  <1> QED
    BY <1>1 DEF FreshItems, Freed, tree, List

-----------------------------------------------------------------------------
(* Steps *)

LEMMA ItemsStay ==
    ASSUME ItemsOK, FreshItems, UNCHANGED <<tree, items, stale>>
    PROVE  ItemsOK' /\ FreshItems'
  <1>1. /\ obj' = obj /\ next' = next /\ prev' = prev /\ last_obj' = last_obj
        /\ stale' = stale /\ kids' = kids /\ cell' = cell
    BY DEF tree, items
  <1>2. Live' = Live
    BY <1>1 DEF Live
  <1>3. ItemsOK'
    BY <1>1, <1>2 DEF ItemsOK, ItemsTyped, LinksAgree, SeekWithinSize
  <1>4. FreshItems'
    BY <1>1, <1>2, FreshStays DEF tree
  <1> QED
    BY <1>3, <1>4

\* A step that touches neither entries nor items.
LEMMA Quiet ==
    ASSUME IInv, Ready, UNCHANGED <<mounted, tree, items, stale, fault>>, Rest'
    PROVE  IInv'
  <1>1. TreeOK'
    BY Parts, TreeStays DEF Ready
  <1>2. ItemsOK' /\ FreshItems'
    BY Parts, ItemsStay
  <1>3. (fault = "freed" => stale # {})'
    BY DEF Ready
  <1> QED
    BY <1>1, <1>2, <1>3, PartsPrimed

\* A fault is met by an item whose pointers were freed, or past the last entry.
LEMMA Faulting ==
    ASSUME IInv, Ready, NEW kind \in {"freed", "end"}, Faults(kind),
           kind = "freed" => stale # {}
    PROVE  IInv'
  <1>1. UNCHANGED <<mounted, tree, items, stale>> /\ fault' = kind
    BY DEF Faults, items, tree
  <1>2. ItemsOK' /\ FreshItems'
    BY <1>1, Parts, ItemsStay
  <1>3. TreeOK'
    BY <1>1, Parts, TreeStays DEF Ready
  <1>4. Rest' /\ (fault = "freed" => stale # {})'
    BY Parts DEF Rest, Faults, nodes
  <1> QED
    BY <1>2, <1>3, <1>4, PartsPrimed

\* What leads to a freed cell is the pointer of a stale item.
LEMMA FreedIsStale ==
    ASSUME IInv, NEW i \in Live, Freed(obj[i].entry) \/ Freed(obj[i].root)
    PROVE  stale # {}
  <1> SUFFICES ASSUME i \notin stale PROVE FALSE
    OBVIOUS
  <1>1. ~Freed(obj[i].entry) /\ obj[i].root \in Cell => obj[i].root = HeadOf(List)
    BY Parts DEF FreshItems
  <1>2. ~Freed(HeadOf(List))
    BY Parts, HeadIs, "kernel modules" \in Dir \cup {"/"} DEF List, Dir
  <1> QED
    BY <1>1, <1>2, Parts DEF FreshItems, Freed

LEMMA CreateFresh ==
    ASSUME IInv, UNCHANGED tree, NEW i \in Item, Live' = Live \cup {i},
           NEW n, NEW r, NEW e, NEW s, create_file_item(i, n, r, e, s),
           ~Freed(e), r \in Cell => r = HeadOf(List), stale' = stale \ {i}
    PROVE  FreshItems'
  <1>1. obj'[i].entry = e /\ obj'[i].root = r /\ \A j \in Live \ {i} : obj'[j] = obj[j]
    BY Parts DEF create_file_item, ItemsOK, ItemsTyped, Live
  <1> SUFFICES ASSUME NEW j \in Live', j \notin stale'
               PROVE  /\ ~Freed(obj[j].entry)'
                      /\ (obj[j].root \in Cell => obj[j].root = HeadOf(List))'
    BY DEF FreshItems
  <1>2. CASE j = i
    BY <1>1, <1>2 DEF Freed, tree, List
  <1>3. CASE j # i
    <2>1. j \in Live \ stale
      BY <1>3
    <2> QED
      BY <1>1, <1>3, <2>1, Parts DEF FreshItems, Freed, tree, List
  <1> QED
    BY <1>2, <1>3

\* A file is opened with a size.
LEMMA OpenedSizeIs ==
    ASSUME TreeOK, Rest, NEW e \in Entry, ~Freed(e), NEW size \in OpenedSize(e)
    PROVE  size \in Nat
  <1>1. conf \in Nat
    BY HostAssumption DEF Rest
  <1>2. e \in Cell => cell[e] \in Segment
    BY DEF TreeOK, Freed
  <1>3. SizeOf(e) \in Nat
    BY <1>2, HostAssumption DEF SizeOf
  <1>4. CASE e = "map_mem1"
    BY <1>1, <1>4 DEF OpenedSize
  <1>5. CASE e # "map_mem1" /\ e \in Cell /\ Answers(e)
    <2>1. PICK m \in Answering(e) : size = MemSize[<<m, cell[e][2]>>]
      BY <1>5 DEF OpenedSize
    <2>2. m \in 1..Modules
      BY DEF Rest, Answering
    <2>3. <<m, cell[e][2]>> \in Segment
      BY <1>2, <1>5, <2>2 DEF Segment
    <2> QED
      BY <2>1, <2>3, HostAssumption
  <1>6. CASE e # "map_mem1" /\ ~(e \in Cell /\ Answers(e))
    BY <1>3, <1>6 DEF OpenedSize
  <1> QED
    BY <1>4, <1>5, <1>6

LEMMA OpenStep ==
    ASSUME IInv, NEW n \in Node, vfs_open(n)
    PROVE  IInv'
  <1> DEFINE e == getFileEntry(at[n])
  <1>0. Ready /\ UNCHANGED tree /\ mounted' = mounted /\ mounted
    BY DEF vfs_open, Ready
  <1>1. PICK i \in Item, size \in OpenedSize(e) :
           /\ create_file_item(i, n, NULL, e, size)
           /\ stale' = stale \ {i}
    BY DEF vfs_open
  <1>2. TreeOK /\ ItemsOK /\ Rest
    BY Parts
  <1>3. e \in Entry /\ ~Freed(e)
    <2>1. e # NULL
      BY DEF vfs_open
    <2>2. at[n] \in Path
      BY <1>2 DEF Rest, vfs_open
    <2> QED
      BY <2>1, <2>2, <1>2, PathEntryIs
  <1>4. size \in Nat
    BY <1>1, <1>2, <1>3, OpenedSizeIs
  <1> HIDE DEF e
  <1>5. ItemsOK' /\ Live' = Live \cup {i}
    BY <1>1, <1>2, <1>3, <1>4, CreateKeeps
  <1>6. FreshItems'
    BY <1>0, <1>1, <1>3, <1>5, CreateFresh, NullIsNone
  <1>7. Rest' /\ (fault = "freed" => stale # {})'
    BY <1>1, <1>2 DEF Rest, vfs_open, Ready
  <1> QED
    BY <1>0, <1>2, <1>5, <1>6, <1>7, TreeStays, PartsPrimed

LEMMA DeleteStep ==
    ASSUME IInv, Ready, NEW n, DeleteItem(n), UNCHANGED <<mounted, tree, fault>>,
           stale' \subseteq stale, Rest'
    PROVE  IInv'
  <1>1. ItemsOK' /\ Live' \subseteq Live /\ \A i \in Live' : obj'[i] = obj[i]
    BY Parts, DeleteKeeps
  <1>2. FreshItems'
    BY <1>1, Parts, DeleteKeeps, FreshStays
  <1>3. TreeOK'
    BY Parts, TreeStays DEF Ready
  <1> QED
    BY <1>1, <1>2, <1>3, PartsPrimed DEF Ready

LEMMA CloseStep ==
    ASSUME IInv, NEW n \in Node, vfs_close(n) \/ (vfs_dclose(n) /\ n # Root)
    PROVE  IInv'
  <1>1. /\ Ready /\ DeleteItem(n) /\ UNCHANGED <<mounted, tree, fault, conf, at, up, loaded>>
        /\ \/ /\ opens[n] > 0 /\ opens' = [opens EXCEPT ![n] = @ - 1]
              /\ dopens' = dopens
           \/ /\ dopens[n] > 0 /\ dopens' = [dopens EXCEPT ![n] = @ - 1]
              /\ opens' = opens
    BY DEF vfs_close, vfs_dclose
  <1>2. stale' \subseteq stale
    BY <1>1 DEF DeleteItem, items
  <1>3. Rest'
    <2>1. Rest
      BY Parts
    <2>2. opens' \in [Node -> Nat] /\ dopens' \in [Node -> Nat]
      BY <1>1, <2>1 DEF Rest
    <2> QED
      BY <1>1, <1>2, <2>1, <2>2 DEF Rest
  <1> QED
    BY <1>1, <1>2, <1>3, DeleteStep

LEMMA SizeIs ==
    ASSUME IInv, NEW i \in Live
    PROVE  obj[i] \in Object /\ obj[i].size \in Nat
  BY Parts DEF ItemsOK, ItemsTyped, Live, Object

\* The file moves on, whatever is done with the data.
LEMMA MoveStep ==
    ASSUME IInv, Ready, NEW i \in Live, NEW k \in Asked(i), Advance(i, k), Rest',
           UNCHANGED <<mounted, tree, next, prev, last_obj, stale, fault>>
    PROVE  IInv'
  <1>0. k \in Nat
    BY SizeIs DEF Asked
  <1>1. /\ ItemsOK' /\ Live' = Live
        /\ \A j \in Live : obj'[j].entry = obj[j].entry /\ obj'[j].root = obj[j].root
    BY <1>0, Parts, SeekMoves
  <1>2. FreshItems'
    BY <1>1, Parts, FreshStays
  <1>3. TreeOK'
    BY Parts, TreeStays DEF Ready
  <1> QED
    BY <1>1, <1>2, <1>3, PartsPrimed DEF Ready

\* A pointer that leads nowhere is followed.
LEMMA LostStep ==
    ASSUME IInv, Ready, NEW i \in Live, Lost(obj[i].entry)
    PROVE  IInv'
  <1>1. CASE Faults("end")
    BY <1>1, Faulting
  <1>2. CASE Freed(obj[i].entry) /\ Faults("freed")
    BY <1>2, FreedIsStale, Faulting
  <1> QED
    BY <1>1, <1>2 DEF Lost

LEMMA ReadStep ==
    ASSUME IInv, NEW n \in Node, vfs_read(n)
    PROVE  IInv'
  <1> DEFINE i == getFileEntryByNode(n)
  <1>1. Ready /\ i \in Live
    BY LookupIs DEF vfs_read
  <1>2. CASE Lost(obj[i].entry)
    BY <1>1, <1>2, LostStep
  <1>3. CASE /\ \E k \in Asked(i) : Advance(i, k)
             /\ UNCHANGED <<mounted, tree, conf, next, prev, last_obj, nodes, loaded, stale, fault>>
    <2> HIDE DEF i
    <2>2. PICK k \in Asked(i) : Advance(i, k)
      BY <1>3
    <2>4. Rest'
      BY <1>3, Parts DEF Rest, nodes
    <2> QED
      BY <1>1, <1>3, <2>2, <2>4, MoveStep
  <1> QED
    BY <1>2, <1>3 DEF vfs_read

LEMMA WriteStep ==
    ASSUME IInv, NEW n \in Node, vfs_write(n)
    PROVE  IInv'
  <1> DEFINE i == getFileEntryByNode(n)
             stores(k) == IF obj[i].entry = "map_conf1" THEN conf' \in Configured(Moved(i, k))
                          ELSE UNCHANGED conf
  <1>1. Ready /\ i \in Live
    BY LookupIs DEF vfs_write
  <1>2. CASE Lost(obj[i].entry)
    BY <1>1, <1>2, LostStep
  <1>3. CASE /\ \E k \in Asked(i) : Advance(i, k) /\ stores(k)
             /\ UNCHANGED <<mounted, tree, next, prev, last_obj, nodes, loaded, stale, fault>>
    <2> HIDE DEF i
    <2>2. PICK k \in Asked(i) : Advance(i, k) /\ stores(k)
      BY <1>3
    <2>4. conf' \in Word
      BY <2>2, Parts DEF Configured, Rest
    <2>5. Rest'
      BY <1>3, <2>4, Parts DEF Rest, nodes
    <2> QED
      BY <1>1, <1>3, <2>2, <2>5, MoveStep
  <1> QED
    BY <1>2, <1>3 DEF vfs_write

LEMMA DreadStep ==
    ASSUME IInv, NEW n \in Node, vfs_dread(n)
    PROVE  IInv'
  <1> DEFINE i == getFileEntryByNode(n)
             e == After(obj[i].entry)
  <1>1. Ready /\ i \in Live /\ TreeOK /\ ItemsOK /\ FreshItems /\ Rest
    BY LookupIs, Parts DEF vfs_dread
  <1>2. CASE Freed(obj[i].entry) /\ Faults("freed")
    BY <1>1, <1>2, FreedIsStale, Faulting
  <1>3. CASE /\ obj' = [obj EXCEPT ![i].entry = After(@)]
             /\ UNCHANGED <<mounted, tree, conf, next, prev, last_obj, nodes, loaded, stale, fault>>
    <2>1. obj' = [obj EXCEPT ![i].entry = e]
      BY <1>3
    <2>2. e \in Entry \cup {NULL} /\ ~Freed(e)
      BY <1>1, AfterIs
    <2> HIDE DEF i, e
    <2>3. /\ ItemsOK' /\ Live' = Live
          /\ \A j \in Live : /\ obj'[j].root = obj[j].root
                             /\ obj'[j].entry = IF j = i THEN e ELSE obj[j].entry
      BY <1>1, <1>3, <2>1, <2>2, CursorMoves
    <2>4. FreshItems'
      BY <1>1, <1>3, <2>2, <2>3, CursorFresh
    <2>5. Rest' /\ TreeOK' /\ fault' # "freed"
      BY <1>1, <1>3, TreeStays DEF Rest, nodes, Ready
    <2> QED
      BY <2>3, <2>4, <2>5, PartsPrimed
  <1> QED
    BY <1>2, <1>3 DEF vfs_dread

LEMMA StatStep ==
    ASSUME IInv, NEW n \in Node, vfs_get_stat(n) \/ vfs_get_stat_by_fd(n)
    PROVE  IInv'
  <1>1. CASE vfs_get_stat(n)
    <2> DEFINE i == getFileEntryByNode(up[n])
    <2>1. Ready /\ i \in Live /\ Freed(obj[i].root) /\ Faults("freed")
      BY <1>1, LookupIs DEF vfs_get_stat
    <2> QED
      BY <2>1, FreedIsStale, Faulting
  <1>2. CASE vfs_get_stat_by_fd(n)
    <2> DEFINE i == getFileEntryByNode(n)
    <2>1. Ready /\ i \in Live
      BY <1>2, LookupIs DEF vfs_get_stat_by_fd
    <2>2. Lost(obj[i].entry)
      BY <1>2 DEF vfs_get_stat_by_fd
    <2> QED
      BY <2>1, <2>2, LostStep
  <1> QED
    BY <1>1, <1>2

-----------------------------------------------------------------------------
(* Steps of a directory *)

LEMMA ShownCount == Cardinality(Shown) \in Nat /\ Shown \subseteq Segment
  <1>1. IsFiniteSet(1..Modules)
    BY FS_Interval, HostAssumption
  <1>2. IsFiniteSet({0, 1})
    <2>1. IsFiniteSet({}) /\ {0, 1} = ({} \cup {0}) \cup {1}
      BY FS_EmptySet
    <2>2. IsFiniteSet({} \cup {0})
      BY <2>1, FS_AddElement
    <2> QED
      BY <2>1, <2>2, FS_AddElement
  <1>3. IsFiniteSet(Segment)
    BY <1>1, <1>2, FS_Product DEF Segment
  <1>4. Shown \subseteq Segment
    BY DEF Shown
  <1> QED
    BY <1>3, <1>4, FS_Subset, FS_CardinalityType

LEMMA OpenModulesKeeps ==
    ASSUME IInv, Ready, NEW n \in Node, NEW i \in Item, OpenModules(n, i),
           mounted' = mounted, fault' = fault
    PROVE  TreeOK' /\ ItemsOK' /\ FreshItems' /\ stale' \subseteq Item
  <1> DEFINE m == Cardinality(Shown)
  <1>1. PICK l \in Listing, k \in [1..m -> Cell] :
           /\ Relist(l, k)
           /\ create_file_item(i, n, HeadOf(k), HeadOf(k), 0)
           /\ kids' = [kids EXCEPT !["kernel modules"] = k]
           /\ stale' = (stale \cup IntoListing) \ {i}
    BY DEF OpenModules
  <1>2. m \in Nat /\ Shown \subseteq Segment
    BY ShownCount
  <1>3. TreeOK /\ ItemsOK /\ FreshItems /\ Rest
    BY Parts
  <1>4. l \in [1..m -> Segment] /\ DOMAIN l = 1..m /\ DOMAIN k = 1..m
    BY <1>2 DEF Listing
  <1> HIDE DEF m
  <1>5. k \in Seq(Cell) /\ Len(k) = m
    BY <1>2, <1>4
  <1>6. \A c \in Cell : /\ cell'[c] \in Segment \cup {NULL}
                        /\ cell'[c] # NULL <=> \E j \in 1..m : k[j] = c
    <2> SUFFICES ASSUME NEW c \in Cell
                 PROVE  /\ cell'[c] \in Segment \cup {NULL}
                        /\ cell'[c] # NULL <=> \E j \in 1..m : k[j] = c
      OBVIOUS
    <2>1. cell'[c] = IF \E j \in 1..m : k[j] = c
                     THEN l[CHOOSE j \in 1..m : k[j] = c] ELSE NULL
      BY <1>1, <1>4 DEF Relist
    <2>2. CASE \E j \in 1..m : k[j] = c
      <3>1. (CHOOSE j \in 1..m : k[j] = c) \in 1..m
        BY <2>2
      <3>2. l[CHOOSE j \in 1..m : k[j] = c] \in Segment
        BY <1>4, <3>1
      <3> QED
        BY <2>1, <2>2, <3>2, NullIsNone
    <2> QED
      BY <2>1, <2>2
  <1>7. TreeOK'
    <2>1. kids' \in [Dir \cup {"/"} -> Seq(Entry)]
      <3>1. k \in Seq(Entry)
        BY <1>5 DEF Entry
      <3> QED
        BY <1>1, <1>3, <3>1 DEF TreeOK
    <2>2. List' = k /\ \A d \in (Dir \cup {"/"}) \ {"kernel modules"} : kids'[d] = kids[d]
      BY <1>1, <1>3 DEF List, TreeOK, Dir
    <2>3. cell' \in [Cell -> Segment \cup {NULL}]
      <3>1. cell' = [c \in Cell |-> IF \E j \in DOMAIN k : k[j] = c
                                   THEN l[CHOOSE j \in DOMAIN k : k[j] = c] ELSE NULL]
        BY <1>1 DEF Relist
      <3> HIDE DEF Relist
      <3>2. cell' = [c \in Cell |-> cell'[c]]
        BY <3>1
      <3> QED
        BY <1>6, <3>2
    <2>4. KidsApart'
      BY <1>3, <1>5, <2>2 DEF TreeOK, KidsApart, Ready
    <2>5. ListingOwned'
      <3>1. \A j, h \in 1..m : k[j] = k[h] => j = h
        BY <1>1, <1>4 DEF Relist
      <3> QED
        BY <1>5, <1>6, <2>2, <3>1 DEF ListingOwned
    <2> QED
      BY <2>1, <2>3, <2>4, <2>5 DEF TreeOK
  <1>8. /\ HeadOf(k) \in Entry \cup {NULL}
        /\ HeadOf(k) \in Cell => cell'[HeadOf(k)] # NULL
    <2>1. CASE k = <<>>
      BY <2>1, NullIsNone DEF HeadOf
    <2>2. CASE k # <<>>
      <3>1. 1 \in 1..m /\ HeadOf(k) = k[1] /\ k[1] \in Cell
        BY <1>2, <1>5, <2>2 DEF HeadOf
      <3> QED
        BY <1>6, <3>1 DEF Entry
    <2> QED
      BY <2>1, <2>2
  <1>9. ItemsOK' /\ Live' = Live \cup {i}
    BY <1>1, <1>3, <1>8, CreateKeeps
  <1>10. FreshItems'
    <2> SUFFICES ASSUME NEW j \in Live', j \notin stale'
                 PROVE  /\ ~Freed(obj[j].entry)'
                        /\ (obj[j].root \in Cell => obj[j].root = HeadOf(List))'
      BY DEF FreshItems
    <2>1. List' = k
      BY <1>1, <1>3 DEF List, TreeOK, Dir
    <2>2. CASE j = i
      <3>1. obj'[i].entry = HeadOf(k) /\ obj'[i].root = HeadOf(k)
        BY <1>1, <1>3 DEF create_file_item, ItemsOK, ItemsTyped
      <3> QED
        BY <1>8, <2>1, <2>2, <3>1 DEF Freed
    <2>3. CASE j # i
      <3>1. j \in Live /\ obj'[j] = obj[j] /\ j \notin IntoListing
        BY <1>1, <1>3, <1>9, <2>3 DEF create_file_item, ItemsOK, ItemsTyped, Live
      <3>2. obj[j].entry \notin Cell /\ obj[j].root \notin Cell
        BY <3>1 DEF IntoListing
      <3> QED
        BY <3>1, <3>2 DEF Freed
    <2> QED
      BY <2>2, <2>3
  <1>11. stale' \subseteq Item
    BY <1>1, <1>3 DEF Rest, IntoListing, Live
  <1> QED
    BY <1>7, <1>9, <1>10, <1>11

LEMMA DopenStep ==
    ASSUME IInv, NEW n \in Node, vfs_dopen(n)
    PROVE  IInv'
  <1>1. Ready /\ TreeOK /\ ItemsOK /\ FreshItems /\ Rest /\ fault' # "freed"
    BY Parts DEF vfs_dopen, Ready
  <1>2. /\ UNCHANGED <<mounted, conf, at, up, opens, loaded, fault>>
        /\ dopens' \in [Node -> Nat]
    <2>1. /\ UNCHANGED <<mounted, conf, at, up, opens, loaded, fault>>
          /\ dopens' = [dopens EXCEPT ![n] = dopens[n] + 1]
      BY DEF vfs_dopen
    <2>2. dopens \in [Node -> Nat]
      BY <1>1 DEF Rest
    <2> QED
      BY <2>1, <2>2
  <1>3. ASSUME TreeOK', ItemsOK', FreshItems', stale' \subseteq Item
        PROVE  IInv'
    <2>1. Rest'
      BY <1>1, <1>2, <1>3 DEF Rest
    <2> QED
      BY <1>1, <1>3, <2>1, PartsPrimed
  <1>4. CASE OpenRoot
    <2> DEFINE i == getFileEntryByNode(Root)
    <2>1. /\ i \in Live /\ obj' = [obj EXCEPT ![i].entry = obj[i].root]
          /\ UNCHANGED <<tree, next, prev, last_obj, stale>>
      BY <1>4, LookupIs DEF OpenRoot
    <2> HIDE DEF i
    <2>2. obj[i].root \in Entry \cup {NULL}
      BY <1>1, <2>1 DEF ItemsOK, ItemsTyped, Object, Live
    <2>3. i \notin stale => ~Freed(obj[i].root)
      <3>1. ~Freed(HeadOf(List))
        BY <1>1, HeadIs, "kernel modules" \in Dir \cup {"/"} DEF List, Dir
      <3> QED
        BY <1>1, <2>1, <3>1 DEF FreshItems, Freed
    <2>4. /\ ItemsOK' /\ Live' = Live
          /\ \A j \in Live : /\ obj'[j].root = obj[j].root
                             /\ obj'[j].entry = IF j = i THEN obj[i].root ELSE obj[j].entry
      BY <1>1, <2>1, <2>2, CursorMoves
    <2>5. FreshItems'
      BY <1>1, <2>1, <2>3, <2>4, CursorFresh
    <2> QED
      BY <1>1, <1>2, <1>3, <2>1, <2>4, <2>5, TreeStays DEF Ready, Rest
  <1>5. CASE \E d \in Dir, i \in Item : IF d = "kernel modules" THEN OpenModules(n, i)
                                        ELSE OpenStatDir(n, d, i)
    <2>1. PICK d \in Dir, i \in Item : IF d = "kernel modules" THEN OpenModules(n, i)
                                      ELSE OpenStatDir(n, d, i)
      BY <1>5
    <2>2. CASE OpenModules(n, i)
      BY <1>1, <1>2, <1>3, <2>2, OpenModulesKeeps
    <2>3. CASE OpenStatDir(n, d, i)
      <3> DEFINE h == HeadOf(kids[d])
      <3>2. h \in Entry \cup {NULL} /\ ~Freed(h) /\ (h \in Cell => h = HeadOf(List))
        BY <1>1, HeadIs
      <3>3. create_file_item(i, n, h, h, 0) /\ stale' = stale \ {i} /\ UNCHANGED tree
        BY <2>3 DEF OpenStatDir
      <3> HIDE DEF h
      <3>4. ItemsOK' /\ Live' = Live \cup {i}
        BY <1>1, <3>2, <3>3, CreateKeeps
      <3>5. FreshItems'
        BY <3>2, <3>3, <3>4, CreateFresh
      <3> QED
        BY <1>1, <1>2, <1>3, <3>3, <3>4, <3>5, TreeStays DEF Ready, Rest
    <2> QED
      BY <2>1, <2>2, <2>3
  <1> QED
    BY <1>4, <1>5 DEF vfs_dopen

\* Closing the root only counts.
LEMMA CloseRootStep ==
    ASSUME IInv, vfs_dclose(Root)
    PROVE  IInv'
  <1>1. /\ Ready /\ UNCHANGED <<mounted, tree, items, stale, fault>>
        /\ UNCHANGED <<conf, at, up, opens, loaded>>
        /\ dopens[Root] > 0 /\ dopens' = [dopens EXCEPT ![Root] = @ - 1]
    BY DEF vfs_dclose
  <1>2. Rest'
    <2>1. Rest /\ Root \in Node
      BY Parts, HostAssumption
    <2>2. dopens' \in [Node -> Nat]
      BY <1>1, <2>1 DEF Rest
    <2> QED
      BY <1>1, <2>1, <2>2 DEF Rest
  <1> QED
    BY <1>1, <1>2, Quiet

\* Vnodes and modules come and go.
LEMMA ExternalStep ==
    ASSUME IInv, \/ \E n \in Node : Retire(n) \/ \E p \in Named : vfs_part_init(n, p)
                 \/ \E m \in ComeAndGo : LoadOrUnload(m)
    PROVE  IInv'
  <1>1. Rest /\ Named \subseteq Path /\ Root \in Node
    BY Parts, HostAssumption
  <1>2. ASSUME NEW n \in Node, Retire(n) PROVE IInv'
    <2>1. Ready /\ UNCHANGED <<mounted, tree, items, stale, fault>> /\ Rest'
      BY <1>1, <1>2 DEF Retire, Rest
    <2> QED
      BY <2>1, Quiet
  <1>3. ASSUME NEW n \in Node, NEW p \in Named, vfs_part_init(n, p) PROVE IInv'
    <2>1. Ready /\ UNCHANGED <<mounted, tree, items, stale, fault>> /\ Rest'
      BY <1>1, <1>3 DEF vfs_part_init, Rest
    <2> QED
      BY <2>1, Quiet
  <1>4. ASSUME NEW m \in ComeAndGo, LoadOrUnload(m) PROVE IInv'
    <2>1. Ready /\ UNCHANGED <<mounted, tree, items, stale, fault>> /\ Rest'
      BY <1>1, <1>4, HostAssumption DEF LoadOrUnload, Rest, nodes
    <2> QED
      BY <2>1, Quiet
  <1> QED
    BY <1>2, <1>3, <1>4

\* A new entry outside the directory of modules.
LEMMA CreateEntryKeeps ==
    ASSUME NEW k \in [Dir \cup {"/"} -> Seq(Entry)],
           \A x \in (Dir \cup {"/"}) \ {"kernel modules"} : k[x] \in Seq(Dir \cup StatFile),
           NEW d \in (Dir \cup {"/"}) \ {"kernel modules"}, NEW e \in Dir \cup StatFile
    PROVE  LET c == createFileEntry(k, d, e) IN
           /\ c \in [Dir \cup {"/"} -> Seq(Entry)]
           /\ \A x \in (Dir \cup {"/"}) \ {"kernel modules"} : c[x] \in Seq(Dir \cup StatFile)
           /\ c["kernel modules"] = k["kernel modules"]
  <1> DEFINE c == createFileEntry(k, d, e)
  <1>1. c = [k EXCEPT ![d] = Append(k[d], e)]
    BY ZeroIsNone DEF createFileEntry
  <1>2. Append(k[d], e) \in Seq(Entry) /\ Append(k[d], e) \in Seq(Dir \cup StatFile)
    <2>1. e \in Entry /\ k[d] \in Seq(Entry) /\ k[d] \in Seq(Dir \cup StatFile)
      BY DEF Entry
    <2>3. Append(k[d], e) \in Seq(Entry)
      BY <2>1, AppendProperties
    <2>4. Append(k[d], e) \in Seq(Dir \cup StatFile)
      BY <2>1, AppendProperties
    <2> QED
      BY <2>3, <2>4
  <1> HIDE DEF c
  <1>3. "kernel modules" \in Dir \cup {"/"}
    BY DEF Dir
  <1> QED
    BY <1>1, <1>2, <1>3 DEF c

LEMMA MountStep ==
    ASSUME IInv, module_start
    PROVE  IInv'
  <1> DEFINE Good(k) == /\ k \in [Dir \cup {"/"} -> Seq(Entry)]
                        /\ \A x \in (Dir \cup {"/"}) \ {"kernel modules"} :
                              k[x] \in Seq(Dir \cup StatFile)
                        /\ k["kernel modules"] = List
  <1>0. TreeOK /\ ItemsOK /\ FreshItems /\ Rest /\ fault' = "none" /\ Good(kids)
    BY Parts DEF TreeOK, KidsApart, module_start, List
  <1>1. Good(kids')
    <2>1. \A k, d, e : Good(k) /\ d \in (Dir \cup {"/"}) \ {"kernel modules"}
                      /\ e \in Dir \cup StatFile => Good(createFileEntry(k, d, e))
      BY CreateEntryKeeps
    <2> HIDE DEF Good
    <2>2. {"/", "sysroot", "etc", "map_conf"} \subseteq (Dir \cup {"/"}) \ {"kernel modules"}
      BY DEF Dir
    <2>3. {"kernel modules", "sysroot", "etc", "map_conf", "sysroot(kblparam)", "random",
           "map_conf1", "map_mem1"} \subseteq Dir \cup StatFile
      BY DEF Dir, StatFile
    <2>4. kids' = init_map_conf1(init_etc(init_sysroot(init_module_kernel(kids))))
      BY DEF module_start
    <2>5. Good(init_module_kernel(kids))
      BY <1>0, <2>1, <2>2, <2>3 DEF init_module_kernel
    <2>6. Good(init_sysroot(init_module_kernel(kids)))
      BY <2>1, <2>2, <2>3, <2>5 DEF init_sysroot
    <2>7. Good(init_etc(init_sysroot(init_module_kernel(kids))))
      BY <2>1, <2>2, <2>3, <2>6 DEF init_etc
    <2> QED
      BY <2>1, <2>2, <2>3, <2>4, <2>7 DEF init_map_conf1
  <1>2. TreeOK' /\ List' = List
    <2>1. cell' = cell /\ List' = List
      BY <1>1 DEF module_start, List
    <2> QED
      BY <1>0, <1>1, <2>1 DEF TreeOK, KidsApart, ListingOwned
  <1>3. HeadOf(kids'["/"]) \in Dir \cup StatFile \cup {NULL}
    <2>1. kids'["/"] \in Seq(Dir \cup StatFile)
      BY <1>1 DEF Dir
    <2> DEFINE s == kids'["/"]
    <2>2. s # <<>> => 1 \in 1..Len(s)
      BY <2>1
    <2> HIDE DEF s
    <2>3. HeadOf(s) \in Dir \cup StatFile \cup {NULL}
      BY <2>1, <2>2, ElementOf DEF HeadOf, s
    <2> QED
      BY <2>3 DEF s
  <1>4. PICK i \in Item : create_file_item(i, Root, HeadOf(kids'["/"]), NULL, 0)
    BY DEF module_start
  <1> DEFINE h == HeadOf(kids'["/"])
  <1>5. h \in Entry \cup {NULL} /\ h \notin Cell /\ NULL \notin Cell /\ Root \in Node
    BY <1>3, NullIsNone, HostAssumption DEF Entry
  <1> HIDE DEF h
  <1>6. create_file_item(i, Root, h, NULL, 0)
    BY <1>4 DEF h
  <1>7. ItemsOK' /\ Live' = Live \cup {i}
    BY <1>0, <1>5, <1>6, CreateKeeps
  <1>8. FreshItems'
    <2>1. UNCHANGED <<cell, stale>>
      BY DEF module_start
    <2>2. /\ obj'[i].entry = NULL /\ obj'[i].root = h
          /\ \A j \in Live : j # i /\ obj'[j] = obj[j]
      BY <1>0, <1>6 DEF create_file_item, ItemsOK, ItemsTyped, Live
    <2> QED
      BY <1>0, <1>2, <1>5, <1>7, <2>1, <2>2 DEF FreshItems, Freed
  <1>9. Rest'
    BY <1>0 DEF Rest, module_start, nodes
  <1> QED
    BY <1>0, <1>2, <1>7, <1>8, <1>9, PartsPrimed

LEMMA InitHolds ==
    ASSUME Init
    PROVE  IInv
  <1>1. TreeOK
    <2>1. List = <<>> /\ Len(List) = 0
      BY DEF Init, List, Dir
    <2>2. kids = [d \in Dir \cup {"/"} |-> <<>>] /\ cell = [c \in Cell |-> NULL]
      BY DEF Init
    <2>3. \A S : <<>> \in Seq(S)
      OBVIOUS
    <2>4. kids \in [Dir \cup {"/"} -> Seq(Entry)]
      BY <2>2, <2>3
    <2>5. KidsApart
      BY <2>1, <2>2, <2>3 DEF KidsApart, Init
    <2>6. ListingOwned
      BY <2>1, <2>2 DEF ListingOwned
    <2> QED
      BY <2>2, <2>4, <2>5, <2>6 DEF TreeOK
  <1>2. Live = {} /\ last_obj = NULL
    BY DEF Init, Live
  <1>3. LinksAgree /\ SeekWithinSize /\ FreshItems
    <2>1. LinksAgree
      BY <1>2 DEF LinksAgree
    <2>2. SeekWithinSize
      BY <1>2 DEF SeekWithinSize
    <2>3. FreshItems
      BY <1>2 DEF FreshItems
    <2> QED
      BY <2>1, <2>2, <2>3
  <1>4. ItemsOK
    <2>1. /\ obj = [i \in Item |-> NULL] /\ next = [i \in Item |-> NULL]
          /\ prev = [i \in Item |-> NULL] /\ last_obj = NULL
      BY DEF Init
    <2>2. ItemsTyped
      BY <2>1 DEF ItemsTyped
    <2> QED
      BY <1>3, <2>2 DEF ItemsOK
  <1>5. Rest
    BY HostAssumption DEF Init, Rest
  <1> QED
    BY <1>1, <1>3, <1>4, <1>5, Parts DEF Init

LEMMA NextKeeps ==
    ASSUME IInv, [Next]_vars
    PROVE  IInv'
  <1>1. CASE module_start
    BY <1>1, MountStep
  <1>2. ASSUME NEW n \in Node,
               \/ vfs_open(n) \/ vfs_close(n) \/ vfs_read(n) \/ vfs_write(n)
               \/ vfs_dopen(n) \/ vfs_dclose(n) \/ vfs_dread(n)
               \/ vfs_get_stat(n) \/ vfs_get_stat_by_fd(n)
        PROVE  IInv'
    BY <1>2, OpenStep, CloseStep, CloseRootStep, ReadStep, WriteStep, DopenStep, DreadStep, StatStep
  <1>3. CASE \/ \E n \in Node : Retire(n) \/ \E p \in Named : vfs_part_init(n, p)
             \/ \E m \in ComeAndGo : LoadOrUnload(m)
    BY <1>3, ExternalStep
  <1>4. CASE UNCHANGED vars
    <2>1. /\ UNCHANGED <<kids, cell, mounted, fault, stale>>
          /\ UNCHANGED <<obj, next, prev, last_obj>>
          /\ UNCHANGED <<conf, at, up, opens, dopens, loaded>>
      BY <1>4 DEF vars
    <2>2. HostTypeOK' /\ KidsApart'
      BY <2>1 DEF IInv, HostTypeOK, KidsApart, List, SeekWithinSize, Live
    <2>3. LinksAgree'
      BY <2>1 DEF IInv, LinksAgree, Live
    <2>4. ListingOwned' /\ FreshHandlesLive'
      BY <2>1 DEF IInv, ListingOwned, FreshHandlesLive, Live, List, Freed
    <2> QED
      BY <2>2, <2>3, <2>4 DEF IInv
  <1> QED
    BY <1>1, <1>2, <1>3, <1>4 DEF Next, Halted

-----------------------------------------------------------------------------
(* Theorems *)

LEMMA Inductive == Spec => []IInv
  <1>1. Init => IInv
    BY InitHolds
  <1>2. IInv /\ [Next]_vars => IInv'
    BY NextKeeps
  <1> QED
    BY <1>1, <1>2, PTL DEF Spec

\* Every value the file system keeps is of its kind.
THEOREM TypeCorrect == Spec => []HostTypeOK
  <1>1. IInv => HostTypeOK
    BY DEF IInv
  <1> QED
    BY <1>1, Inductive, PTL

\* The list of items of init_patch and free_patch keeps links that agree.
THEOREM LinksAlwaysAgree == Spec => []LinksAgree
  <1>1. IInv => LinksAgree
    BY DEF IInv
  <1> QED
    BY <1>1, Inductive, PTL

\* dopen_cb_module leaks no cell and frees none twice.
THEOREM ListingAlwaysOwned == Spec => []ListingOwned
  <1>1. IInv => ListingOwned
    BY DEF IInv
  <1> QED
    BY <1>1, Inductive, PTL

\* No call follows a freed pointer before the modules were listed anew under
\* an item that points into the listing.
THEOREM FreshAlwaysLive == Spec => []FreshHandlesLive
  <1>1. IInv => FreshHandlesLive
    BY DEF IInv
  <1> QED
    BY <1>1, Inductive, PTL

-----------------------------------------------------------------------------
(* The walk along the list *)

\* A set of numbers has a least one: strict inclusion of the intervals that lead
\* up to its numbers is well founded.
LEMMA LeastOf ==
    ASSUME NEW S \in SUBSET Nat, S # {}
    PROVE  \E k \in S : \A j \in S : k <= j
  <1> DEFINE F == {0..k : k \in S}
  <1>1. F \subseteq FiniteSubsetsOf(Nat) /\ F # {}
    <2>1. ASSUME NEW k \in S PROVE IsFiniteSet(0..k) /\ 0..k \subseteq Nat
      BY FS_Interval
    <2> QED
      BY <2>1 DEF FiniteSubsetsOf
  <1>2. PICK X \in F : \A Y \in F : ~(<<Y, X>> \in StrictSubsetOrdering(Nat))
    <2> HIDE DEF F
    <2> QED
      BY <1>1, FS_StrictSubsetOrderingWellFounded, WFMin
  <1>3. PICK k \in S : X = 0..k
    BY <1>2
  <1>4. ASSUME NEW j \in S, j < k
        PROVE  FALSE
    <2>1. 0..j \subseteq X /\ k \in X /\ k \notin 0..j
      BY <1>3, <1>4
    <2>2. <<0..j, X>> \in StrictSubsetOrdering(Nat)
      BY <1>3, <2>1 DEF StrictSubsetOrdering
    <2> QED
      BY <1>2, <2>2
  <1> QED
    BY <1>4

\* Induction over the naturals, for a set.
LEMMA NatSetInduction ==
    ASSUME NEW S, 0 \in S, \A n \in Nat : n \in S => n + 1 \in S
    PROVE  \A n \in Nat : n \in S
  <1> SUFFICES ASSUME Nat \ S # {} PROVE FALSE
    OBVIOUS
  <1>1. PICK k \in Nat \ S : \A j \in Nat \ S : k <= j
    <2>1. Nat \ S \in SUBSET Nat
      OBVIOUS
    <2> QED
      BY <2>1, LeastOf
  <1>2. k # 0 /\ k - 1 \in Nat
    OBVIOUS
  <1> QED
    BY <1>1, <1>2

\* s is the items there are, in the order of the list: the first is last_obj, each
\* leads to the next one and the last one to none.
InOrder(m, s) ==
    /\ s \in [1..m -> Item]
    /\ \A j, k \in 1..m : s[j] = s[k] => j = k
    /\ Live = {s[k] : k \in 1..m}
    /\ last_obj = IF m = 0 THEN NULL ELSE s[1]
    /\ \A k \in 1..m : next[s[k]] = IF k = m THEN NULL ELSE s[k + 1]

Chained == \E m \in Nat : \E s \in [1..m -> Item] : InOrder(m, s)

\* The walk of getFileEntryByNode meets the items in that order, and then none.
LEMMA WalkIs ==
    ASSUME NEW m \in Nat, NEW s, InOrder(m, s)
    PROVE  \A k \in Nat : Behind[k] = IF k < m THEN s[k + 1] ELSE NULL
  <1> DEFINE Body(f, k) == IF k = 0 THEN last_obj
                           ELSE IF f[k - 1] = NULL THEN NULL ELSE next[f[k - 1]]
             walk == [k \in Nat |-> IF k < m THEN s[k + 1] ELSE NULL]
  <1>1. ASSUME NEW k \in Nat PROVE walk[k] = Body(walk, k)
    <2>1. CASE k = 0
      BY <2>1 DEF InOrder
    <2>2. CASE k # 0 /\ k - 1 < m
      <3>1. k \in 1..m /\ walk[k - 1] = s[k] /\ s[k] \in Item
        BY <2>2 DEF InOrder
      <3>2. walk[k - 1] # NULL
        BY <3>1, NullIsNone
      <3> QED
        BY <2>2, <3>1, <3>2 DEF InOrder
    <2>3. CASE k # 0 /\ ~(k - 1 < m)
      BY <2>3
    <2> QED
      BY <2>1, <2>2, <2>3
  <1>2. walk = [k \in Nat |-> Body(walk, k)]
    BY <1>1
  <1> HIDE DEF walk
  <1>3. \E f : f = [k \in Nat |-> Body(f, k)]
    BY <1>2
  <1>4. Behind = [k \in Nat |-> Body(Behind, k)]
    BY <1>3 DEF Behind
  <1> DEFINE S == {k \in Nat : Behind[k] = walk[k]}
  <1>5. 0 \in S
    BY <1>2, <1>4
  <1>6. ASSUME NEW k \in Nat, k \in S PROVE k + 1 \in S
    <2>1. Behind[k + 1] = IF Behind[k] = NULL THEN NULL ELSE next[Behind[k]]
      BY <1>4
    <2>2. walk[k + 1] = IF walk[k] = NULL THEN NULL ELSE next[walk[k]]
      BY <1>1
    <2> QED
      BY <1>6, <2>1, <2>2
  <1>7. \A k \in Nat : k \in S
    <2> HIDE DEF S
    <2> QED
      BY <1>5, <1>6, NatSetInduction
  <1> QED
    BY <1>7 DEF walk

\* There is no more to walk than there are items.
LEMMA WalkEnds ==
    ASSUME NEW m \in Nat, NEW s, InOrder(m, s)
    PROVE  Cardinality(Item) \in Nat /\ m <= Cardinality(Item)
  <1>1. s \in Injection(1..m, Item) /\ IsFiniteSet(Item)
    BY HostAssumption DEF InOrder, Injection, IsInjective
  <1>2. Cardinality(1..m) = m
    BY FS_Interval
  <1> QED
    BY <1>1, <1>2, FS_Injection, FS_CardinalityType

ItemsOn(n) == {i \in Live : obj[i].node = n}

\* No item is overlooked: what is on a vnode is found.
LEMMA LookupFinds ==
    ASSUME Chained, NEW n, ItemsOn(n) # {}
    PROVE  getFileEntryByNode(n) \in ItemsOn(n)
  <1>1. PICK m \in Nat : \E s \in [1..m -> Item] : InOrder(m, s)
    BY DEF Chained
  <1>2. PICK s \in [1..m -> Item] : InOrder(m, s)
    BY <1>1
  <1> DEFINE On == {k \in 0..(m - 1) : obj[s[k + 1]].node = n}
  <1>3. On # {} /\ On \in SUBSET Nat
    <2>1. PICK k \in 1..m : s[k] \in ItemsOn(n)
      BY <1>2 DEF InOrder, ItemsOn
    <2>2. k - 1 \in 0..(m - 1) /\ (k - 1) + 1 = k
      OBVIOUS
    <2>3. k - 1 \in On
      BY <2>1, <2>2 DEF ItemsOn
    <2>4. On \in SUBSET Nat
      OBVIOUS
    <2> HIDE DEF On
    <2> QED
      BY <2>3, <2>4
  <1>4. PICK k \in On : \A j \in On : k <= j
    <2> HIDE DEF On
    <2> QED
      BY <1>3, LeastOf
  <1>5. IsFirstOf(s[k + 1], n)
    <2>1. k \in 0..Cardinality(Item) /\ k < m /\ k \in Nat
      BY <1>2, <1>4, WalkEnds
    <2>2. \A j \in Nat : j < m => Behind[j] = s[j + 1]
      BY <1>2, WalkIs
    <2>3. s[k + 1] \in Live
      BY <1>2, <2>1 DEF InOrder
    <2>4. \A h \in 0..(k - 1) : Behind[h] = s[h + 1] /\ h \notin On /\ h \in 0..(m - 1)
      BY <1>4, <2>1, <2>2
    <2> QED
      BY <1>4, <2>1, <2>2, <2>3, <2>4 DEF IsFirstOf, Live
  <1>6. s[k + 1] \in Item
    BY <1>2, <1>4
  <1>7. getFileEntryByNode(n) # NULL
    <2>1. \E i \in Item : IsFirstOf(i, n)
      BY <1>5, <1>6
    <2>2. (CHOOSE i \in Item : IsFirstOf(i, n)) \in Item
      BY <2>1
    <2> QED
      BY <2>1, <2>2, NullIsNone DEF getFileEntryByNode
  <1> QED
    BY <1>7, LookupIs DEF ItemsOn


\* An item that is created goes to the front.
LEMMA CreateChains ==
    ASSUME ItemsOK, Chained, NEW i \in Item, NEW n, NEW r, NEW e, NEW z,
           create_file_item(i, n, r, e, z), Live' = Live \cup {i}
    PROVE  Chained'
  <1>1. PICK m \in Nat : \E s \in [1..m -> Item] : InOrder(m, s)
    BY DEF Chained
  <1>2. PICK s \in [1..m -> Item] : InOrder(m, s)
    BY <1>1
  <1>3. /\ i \notin Live /\ next' = [next EXCEPT ![i] = last_obj] /\ last_obj' = i
        /\ next \in [Item -> Item \cup {NULL}]
    BY NullIsNone DEF create_file_item, init_patch, Live, ItemsOK, ItemsTyped
  <1>4. \A k \in 1..m : s[k] \in Live /\ s[k] \in Item /\ s[k] # i
    BY <1>2, <1>3 DEF InOrder
  <1> DEFINE t == [k \in 1..(m + 1) |-> IF k = 1 THEN i ELSE s[k - 1]]
  <1>5. /\ t[1] = i /\ \A k \in 1..m : k + 1 \in 1..(m + 1) /\ t[k + 1] = s[k]
        /\ \A k \in 1..(m + 1) : k # 1 => k - 1 \in 1..m /\ t[k] = s[k - 1]
        /\ t \in [1..(m + 1) -> Item]
    <2>1. \A k \in 1..(m + 1) : k # 1 => k - 1 \in 1..m
      OBVIOUS
    <2> QED
      BY <2>1
  <1> HIDE DEF t
  <1>6. \A j, k \in 1..(m + 1) : t[j] = t[k] => j = k
    BY <1>2, <1>4, <1>5 DEF InOrder
  <1>7. Live' = {t[k] : k \in 1..(m + 1)}
    <2>1. 1 \in 1..(m + 1)
      OBVIOUS
    <2> QED
      BY <1>2, <1>5, <2>1 DEF InOrder
  <1>8. ASSUME NEW k \in 1..(m + 1)
        PROVE  next'[t[k]] = IF k = m + 1 THEN NULL ELSE t[k + 1]
    <2>1. CASE k = 1
      <3>1. next'[i] = last_obj
        BY <1>3
      <3>2. m # 0 => t[2] = s[1]
        BY <1>5
      <3> QED
        BY <1>2, <1>5, <2>1, <3>1, <3>2 DEF InOrder
    <2>2. CASE k # 1
      <3>1. k - 1 \in 1..m /\ t[k] = s[k - 1] /\ next'[t[k]] = next[s[k - 1]]
        BY <1>3, <1>4, <1>5, <2>2
      <3>2. k - 1 # m => t[k + 1] = s[(k - 1) + 1]
        BY <1>5, <3>1
      <3> QED
        BY <1>2, <2>2, <3>1, <3>2 DEF InOrder
    <2> QED
      BY <2>1, <2>2
  <1>9. InOrder(m + 1, t)'
    BY <1>3, <1>5, <1>6, <1>7, <1>8 DEF InOrder
  <1> QED
    BY <1>5, <1>9 DEF Chained

\* One that is deleted leaves the others as they were.
LEMMA DeleteChains ==
    ASSUME ItemsOK, Chained, NEW n, DeleteItem(n),
           Live' = Live \ {getFileEntryByNode(n)}
    PROVE  Chained'
  <1> DEFINE i == getFileEntryByNode(n)
  <1>1. PICK m \in Nat : \E s \in [1..m -> Item] : InOrder(m, s)
    BY DEF Chained
  <1>2. PICK s \in [1..m -> Item] : InOrder(m, s)
    BY <1>1
  <1>3. CASE i = NULL
    <2>1. UNCHANGED <<obj, next, last_obj>>
      BY <1>3 DEF DeleteItem, items
    <2>2. InOrder(m, s)'
      BY <1>2, <2>1 DEF InOrder, Live
    <2> QED
      BY <1>2, <2>2 DEF Chained
  <1>4. CASE i # NULL
    <2>1. i \in Live /\ i \in Item
      BY <1>4, LookupIs DEF Live
    <2>2. /\ last_obj' = IF prev[i] = NULL THEN next[i] ELSE last_obj
          /\ next' = [j \in Item |-> IF j = i THEN NULL
                                     ELSE IF j = prev[i] THEN next[i] ELSE next[j]]
      BY <1>4 DEF DeleteItem, free_patch
    <2> HIDE DEF i
    <2>3. PICK p \in 1..m : i = s[p]
      BY <1>2, <2>1 DEF InOrder
    <2>4. \A k \in 1..m : s[k] \in Live /\ s[k] \in Item
      BY <1>2 DEF InOrder
    <2>5. next[i] = IF p = m THEN NULL ELSE s[p + 1]
      BY <1>2, <2>3 DEF InOrder
    <2>6. prev[i] = IF p = 1 THEN NULL ELSE s[p - 1]
      <3>1. CASE p = 1
        <4>1. i = last_obj
          BY <1>2, <2>3, <3>1 DEF InOrder
        <4> QED
          BY <2>1, <3>1, <4>1 DEF ItemsOK, LinksAgree
      <3>2. CASE p # 1
        <4>1. p - 1 \in 1..m /\ next[s[p - 1]] = s[p]
          BY <1>2, <3>2 DEF InOrder
        <4> QED
          BY <2>1, <2>3, <2>4, <3>2, <4>1 DEF ItemsOK, LinksAgree
      <3> QED
        BY <3>1, <3>2
    <2> DEFINE t == [k \in 1..(m - 1) |-> IF k < p THEN s[k] ELSE s[k + 1]]
    <2>7. /\ \A k \in 1..(m - 1) : /\ k \in 1..m /\ k + 1 \in 1..m
                                   /\ t[k] = IF k < p THEN s[k] ELSE s[k + 1]
          /\ m - 1 \in Nat /\ t \in [1..(m - 1) -> Item]
      <3>1. \A k \in 1..(m - 1) : k \in 1..m /\ k + 1 \in 1..m
        OBVIOUS
      <3> QED
        BY <2>4, <3>1
    <2> HIDE DEF t
    <2>8. \A j, k \in 1..(m - 1) : t[j] = t[k] => j = k
      BY <1>2, <2>7 DEF InOrder
    <2>9. Live' = {t[k] : k \in 1..(m - 1)}
      <3>1. ASSUME NEW k \in 1..(m - 1) PROVE t[k] \in Live /\ t[k] # i
        BY <1>2, <2>3, <2>4, <2>7 DEF InOrder
      <3>2. ASSUME NEW x \in Live, x # i PROVE \E k \in 1..(m - 1) : x = t[k]
        <4>1. PICK k \in 1..m : x = s[k]
          BY <1>2 DEF InOrder
        <4>2. k # p
          BY <2>3, <3>2, <4>1
        <4>3. CASE k < p
          <5>1. k \in 1..(m - 1)
            BY <4>3
          <5> QED
            BY <2>7, <4>1, <4>3, <5>1
        <4>4. CASE k > p
          <5>1. k - 1 \in 1..(m - 1) /\ ~(k - 1 < p) /\ (k - 1) + 1 = k
            BY <4>4
          <5> QED
            BY <2>7, <4>1, <5>1
        <4> QED
          BY <4>2, <4>3, <4>4
      <3> QED
        BY <3>1, <3>2 DEF i
    <2>10. last_obj' = IF m - 1 = 0 THEN NULL ELSE t[1]
      <3>1. CASE p = 1
        BY <2>2, <2>5, <2>6, <2>7, <3>1
      <3>2. CASE p # 1
        <4>1. p - 1 \in 1..m /\ 1 \in 1..(m - 1) /\ s[p - 1] # NULL
          BY <2>4, <3>2, NullIsNone
        <4> QED
          BY <1>2, <2>2, <2>6, <2>7, <3>2, <4>1 DEF InOrder
      <3> QED
        BY <3>1, <3>2
    <2>11. ASSUME NEW k \in 1..(m - 1)
           PROVE  next'[t[k]] = IF k = m - 1 THEN NULL ELSE t[k + 1]
      <3>1. t[k] # i /\ t[k] \in Item
        BY <2>7, <2>9 DEF i
      <3>2. next'[t[k]] = IF t[k] = prev[i] THEN next[i] ELSE next[t[k]]
        BY <2>2, <3>1
      <3>3. k # m - 1 => k + 1 \in 1..(m - 1)
        OBVIOUS
      <3>4. CASE k < p
        <4>1. t[k] = s[k] /\ (k = p - 1 <=> s[k] = prev[i])
          <5>1. p - 1 \in 1..m
            BY <3>4
          <5> QED
            BY <1>2, <2>6, <2>7, <3>4, <5>1 DEF InOrder
        <4>2. CASE k = p - 1
          BY <2>5, <2>7, <3>2, <3>3, <4>1, <4>2
        <4>3. CASE k # p - 1
          <5>1. next'[t[k]] = s[k + 1] /\ k + 1 < p /\ k # m - 1
            BY <1>2, <2>7, <3>2, <3>4, <4>1, <4>3 DEF InOrder
          <5> QED
            BY <2>7, <3>3, <5>1
        <4> QED
          BY <4>2, <4>3
      <3>5. CASE ~(k < p)
        <4>1. t[k] = s[k + 1] /\ s[k + 1] # prev[i]
          <5>1. p # 1 => p - 1 \in 1..m /\ p - 1 # k + 1
            BY <3>5
          <5>2. s[k + 1] # NULL
            BY <2>4, <2>7, NullIsNone
          <5> QED
            BY <1>2, <2>6, <2>7, <3>5, <5>1, <5>2 DEF InOrder
        <4>2. next'[t[k]] = IF k + 1 = m THEN NULL ELSE s[(k + 1) + 1]
          BY <1>2, <2>7, <3>2, <4>1 DEF InOrder
        <4> QED
          BY <2>7, <3>3, <3>5, <4>2
      <3> QED
        BY <3>4, <3>5
    <2>12. InOrder(m - 1, t)'
      BY <2>7, <2>8, <2>9, <2>10, <2>11 DEF InOrder
    <2> QED
      BY <2>7, <2>12 DEF Chained
  <1> QED
    BY <1>3, <1>4

\* As many items are on a vnode as it was opened, and one on the root; an open
\* vnode stands for a path, and the root for none.
CountsAgree ==
    /\ \A n \in Node \ {Root} : Cardinality(ItemsOn(n)) = opens[n] + dopens[n]
    /\ Cardinality(ItemsOn(Root)) = IF mounted THEN 1 ELSE 0

\* What can be opened as a directory.
DirPath(path) == Len(path) = 1 \/ HasZero(path)

VnodesKept ==
    /\ at[Root] = NULL /\ opens[Root] = 0
    /\ \A n \in Node \ {Root} : /\ opens[n] > 0 => at[n] # NULL
                                /\ dopens[n] > 0 => at[n] # NULL /\ DirPath(at[n])

WInv == IInv /\ Chained /\ CountsAgree /\ VnodesKept

LEMMA ItemsOnFinite ==
    ASSUME NEW n
    PROVE  /\ IsFiniteSet(ItemsOn(n)) /\ Cardinality(ItemsOn(n)) \in Nat
           /\ Cardinality(ItemsOn(n)) = 0 <=> ItemsOn(n) = {}
  <1>1. ItemsOn(n) \in SUBSET Item /\ IsFiniteSet(Item)
    BY HostAssumption DEF ItemsOn, Live
  <1>2. IsFiniteSet(ItemsOn(n))
    BY <1>1, FS_Subset
  <1> QED
    BY <1>2, FS_CardinalityType, FS_EmptySet

\* What is open, and only that, has items.
LEMMA OpenHasItem ==
    ASSUME WInv, NEW n \in Node \ {Root}
    PROVE  /\ opens[n] > 0 \/ dopens[n] > 0 <=> ItemsOn(n) # {}
           /\ ItemsOn(n) # {} => at[n] # NULL
  <1>1. /\ Cardinality(ItemsOn(n)) = opens[n] + dopens[n]
        /\ opens[n] > 0 \/ dopens[n] > 0 => at[n] # NULL
    BY DEF WInv, CountsAgree, VnodesKept
  <1>2. opens[n] \in Nat /\ dopens[n] \in Nat
    BY DEF WInv, IInv, HostTypeOK
  <1> QED
    BY <1>1, <1>2, ItemsOnFinite

\* A step that neither makes nor deletes an item.
ItemsKept ==
    /\ UNCHANGED <<next, last_obj>> /\ Live' = Live
    /\ \A i \in Live : obj'[i].node = obj[i].node

LEMMA KeptChains ==
    ASSUME Chained, ItemsKept
    PROVE  Chained' /\ \A n : ItemsOn(n)' = ItemsOn(n)
  <1>1. PICK m \in Nat : \E s \in [1..m -> Item] : InOrder(m, s)
    BY DEF Chained
  <1>2. PICK s \in [1..m -> Item] : InOrder(m, s)
    BY <1>1
  <1>3. InOrder(m, s)'
    BY <1>2 DEF InOrder, ItemsKept
  <1>4. Chained'
    BY <1>2, <1>3 DEF Chained
  <1>5. \A n : ItemsOn(n)' = ItemsOn(n)
    BY DEF ItemsKept, ItemsOn
  <1> QED
    BY <1>4, <1>5

LEMMA KeptCounts ==
    ASSUME WInv, ItemsKept, UNCHANGED mounted,
           \A n \in Node \ {Root} : opens'[n] = opens[n] /\ dopens'[n] = dopens[n]
    PROVE  Chained' /\ CountsAgree'
  <1>1. Chained' /\ \A n : ItemsOn(n)' = ItemsOn(n)
    BY KeptChains DEF WInv
  <1> QED
    BY <1>1 DEF WInv, CountsAgree

\* One that makes an item on the vnode n.
LEMMA CreateCounts ==
    ASSUME IInv, Chained, NEW i \in Item, NEW n, NEW r, NEW e, NEW z,
           create_file_item(i, n, r, e, z), Live' = Live \cup {i}
    PROVE  /\ Chained'
           /\ Cardinality(ItemsOn(n))' = Cardinality(ItemsOn(n)) + 1
           /\ \A x : x # n => ItemsOn(x)' = ItemsOn(x)
  <1>1. ItemsOK
    BY Parts
  <1>2. i \notin Live /\ obj'[i].node = n /\ \A j \in Live : obj'[j] = obj[j]
    BY <1>1 DEF create_file_item, ItemsOK, ItemsTyped, Live
  <1>3. ItemsOn(n)' = ItemsOn(n) \cup {i} /\ i \notin ItemsOn(n)
    BY <1>2 DEF ItemsOn
  <1>4. \A x : x # n => ItemsOn(x)' = ItemsOn(x)
    BY <1>2 DEF ItemsOn
  <1>5. Cardinality(ItemsOn(n) \cup {i}) = Cardinality(ItemsOn(n)) + 1
    BY <1>3, ItemsOnFinite, FS_AddElement
  <1> QED
    BY <1>1, <1>3, <1>4, <1>5, CreateChains

\* One that deletes an item of a vnode that has one.
LEMMA DeleteCounts ==
    ASSUME IInv, Chained, NEW n, ItemsOn(n) # {}, DeleteItem(n)
    PROVE  /\ Chained'
           /\ Cardinality(ItemsOn(n))' = Cardinality(ItemsOn(n)) - 1
           /\ \A x : x # n => ItemsOn(x)' = ItemsOn(x)
  <1> DEFINE i == getFileEntryByNode(n)
  <1>1. ItemsOK /\ i \in ItemsOn(n)
    BY Parts, LookupFinds
  <1>2. Live' = Live \ {i} /\ \A j \in Live' : obj'[j] = obj[j]
    BY <1>1, DeleteKeeps
  <1>3. Chained'
    BY <1>1, <1>2, DeleteChains
  <1> HIDE DEF i
  <1>4. ItemsOn(n)' = ItemsOn(n) \ {i}
    BY <1>1, <1>2 DEF ItemsOn
  <1>5. \A x : x # n => ItemsOn(x)' = ItemsOn(x)
    BY <1>1, <1>2 DEF ItemsOn
  <1>6. Cardinality(ItemsOn(n) \ {i}) = Cardinality(ItemsOn(n)) - 1
    BY <1>1, ItemsOnFinite, FS_RemoveElement
  <1> QED
    BY <1>3, <1>4, <1>5, <1>6

-----------------------------------------------------------------------------
\* What a step does to the items.

Opens(n) ==
    /\ \E i \in Item : \E r, e, z :
          create_file_item(i, n, r, e, z) /\ Live' = Live \cup {i}
    /\ n \in Node \ {Root} /\ at[n] # NULL
    /\ \/ opens' = [opens EXCEPT ![n] = @ + 1] /\ UNCHANGED dopens
       \/ dopens' = [dopens EXCEPT ![n] = @ + 1] /\ UNCHANGED opens /\ DirPath(at[n])
    /\ UNCHANGED <<at, mounted>>

Closes(n) ==
    /\ DeleteItem(n)
    /\ n \in Node \ {Root}
    /\ \/ opens[n] > 0 /\ opens' = [opens EXCEPT ![n] = @ - 1] /\ UNCHANGED dopens
       \/ dopens[n] > 0 /\ dopens' = [dopens EXCEPT ![n] = @ - 1] /\ UNCHANGED opens
    /\ UNCHANGED <<at, mounted>>

\* None is made or deleted, and a vnode whose path changes had none or was free.
Stays ==
    /\ ItemsKept /\ UNCHANGED mounted
    /\ UNCHANGED opens /\ \A n \in Node \ {Root} : dopens'[n] = dopens[n]
    /\ at' # at => UNCHANGED obj
    /\ \A n \in Node : at'[n] # at[n] =>
          n # Root /\ (at[n] = NULL \/ (opens[n] = 0 /\ dopens[n] = 0))

Mounts ==
    /\ \E i \in Item : \E r, e, z :
          create_file_item(i, Root, r, e, z) /\ Live' = Live \cup {i}
    /\ ~mounted /\ mounted' = TRUE /\ UNCHANGED <<at, opens, dopens>>

LEMMA OpensReached == ASSUME WInv, NEW n, Opens(n) PROVE Chained' /\ CountsAgree' /\ VnodesKept'
  <1>1. PICK i \in Item : \E r, e, z : create_file_item(i, n, r, e, z) /\ Live' = Live \cup {i}
    BY DEF Opens
  <1>2. /\ Chained' /\ Cardinality(ItemsOn(n))' = Cardinality(ItemsOn(n)) + 1
        /\ \A x : x # n => ItemsOn(x)' = ItemsOn(x)
    BY <1>1, CreateCounts DEF WInv
  <1>3. opens \in [Node -> Nat] /\ dopens \in [Node -> Nat] /\ Root \in Node
    BY HostAssumption DEF WInv, IInv, HostTypeOK
  <1>4. CountsAgree'
    <2>1. n \in Node \ {Root} /\ opens'[n] + dopens'[n] = opens[n] + dopens[n] + 1
      BY <1>3 DEF Opens
    <2>2. \A x \in Node \ {n} : opens'[x] = opens[x] /\ dopens'[x] = dopens[x]
      BY <1>3 DEF Opens
    <2>3. Cardinality(ItemsOn(n))' = opens'[n] + dopens'[n]
      <3>1. Cardinality(ItemsOn(n)) = opens[n] + dopens[n]
        BY <2>1 DEF WInv, CountsAgree
      <3>2. opens[n] \in Nat /\ dopens[n] \in Nat
        BY <1>3, <2>1
      <3> QED
        BY <1>2, <2>1, <3>1, <3>2
    <2>4. \A x \in Node \ {Root} : x # n =>
             Cardinality(ItemsOn(x))' = opens'[x] + dopens'[x]
      BY <1>2, <2>2 DEF WInv, CountsAgree
    <2>5. Cardinality(ItemsOn(Root))' = IF mounted' THEN 1 ELSE 0
      BY <1>2, <1>3, <2>1 DEF WInv, CountsAgree, Opens
    <2> QED
      BY <2>3, <2>4, <2>5 DEF CountsAgree
  <1>5. VnodesKept'
    BY <1>3 DEF WInv, VnodesKept, Opens
  <1> QED
    BY <1>2, <1>4, <1>5

LEMMA ClosesReached == ASSUME WInv, NEW n, Closes(n) PROVE Chained' /\ CountsAgree' /\ VnodesKept'
  <1>1. ItemsOn(n) # {}
    BY OpenHasItem DEF Closes
  <1>2. /\ Chained' /\ Cardinality(ItemsOn(n))' = Cardinality(ItemsOn(n)) - 1
        /\ \A x : x # n => ItemsOn(x)' = ItemsOn(x)
    BY <1>1, DeleteCounts DEF WInv, Closes
  <1>3. opens \in [Node -> Nat] /\ dopens \in [Node -> Nat] /\ Root \in Node
    BY HostAssumption DEF WInv, IInv, HostTypeOK
  <1>4. CountsAgree'
    <2>1. n \in Node \ {Root} /\ opens'[n] + dopens'[n] = opens[n] + dopens[n] - 1
      BY <1>3 DEF Closes
    <2>2. \A x \in Node \ {n} : opens'[x] = opens[x] /\ dopens'[x] = dopens[x]
      BY <1>3 DEF Closes
    <2>3. Cardinality(ItemsOn(n))' = opens'[n] + dopens'[n]
      <3>1. Cardinality(ItemsOn(n)) = opens[n] + dopens[n]
        BY <2>1 DEF WInv, CountsAgree
      <3>2. opens[n] \in Nat /\ dopens[n] \in Nat
        BY <1>3, <2>1
      <3> QED
        BY <1>2, <2>1, <3>1, <3>2
    <2>4. \A x \in Node \ {Root} : x # n =>
             Cardinality(ItemsOn(x))' = opens'[x] + dopens'[x]
      BY <1>2, <2>2 DEF WInv, CountsAgree
    <2>5. Cardinality(ItemsOn(Root))' = IF mounted' THEN 1 ELSE 0
      BY <1>2, <1>3, <2>1 DEF WInv, CountsAgree, Closes
    <2> QED
      BY <2>3, <2>4, <2>5 DEF CountsAgree
  <1>5. VnodesKept'
    BY <1>3 DEF WInv, VnodesKept, Closes
  <1> QED
    BY <1>2, <1>4, <1>5

LEMMA StaysReached == ASSUME WInv, Stays PROVE Chained' /\ CountsAgree' /\ VnodesKept'
  <1>1. Chained' /\ CountsAgree'
    BY KeptCounts DEF Stays
  <1>2. VnodesKept'
    <2>1. Root \in Node
      BY HostAssumption
    <2>2. at'[Root] = at[Root]
      BY <2>1 DEF Stays
    <2>3. ASSUME NEW n \in Node \ {Root}
          PROVE  /\ opens'[n] > 0 => at'[n] # NULL
                 /\ dopens'[n] > 0 => at'[n] # NULL /\ DirPath(at'[n])
      <3>1. opens'[n] = opens[n] /\ dopens'[n] = dopens[n]
        BY DEF Stays
      <3>2. CASE at'[n] = at[n]
        BY <3>1, <3>2 DEF WInv, VnodesKept
      <3>3. CASE at'[n] # at[n]
        <4>1. at[n] = NULL \/ (opens[n] = 0 /\ dopens[n] = 0)
          BY <3>3 DEF Stays
        <4> QED
          BY <3>1, <4>1 DEF WInv, VnodesKept
      <3> QED
        BY <3>2, <3>3
    <2>4. opens'[Root] = 0
      BY DEF Stays, WInv, VnodesKept
    <2> QED
      BY <2>2, <2>3, <2>4 DEF WInv, VnodesKept, DirPath, HasZero
  <1> QED
    BY <1>1, <1>2

LEMMA MountsReached == ASSUME WInv, Mounts PROVE Chained' /\ CountsAgree' /\ VnodesKept'
  <1>1. PICK i \in Item : \E r, e, z : create_file_item(i, Root, r, e, z) /\ Live' = Live \cup {i}
    BY DEF Mounts
  <1>2. /\ Chained' /\ Cardinality(ItemsOn(Root))' = Cardinality(ItemsOn(Root)) + 1
        /\ \A x : x # Root => ItemsOn(x)' = ItemsOn(x)
    BY <1>1, CreateCounts DEF WInv
  <1>3. CountsAgree' /\ VnodesKept'
    BY <1>2 DEF WInv, CountsAgree, VnodesKept, Mounts
  <1> QED
    BY <1>2, <1>3

\* A fault changes no item.
LEMMA FaultsStay == ASSUME IInv, NEW kind, Ready, Faults(kind) PROVE Stays
  BY DEF Faults, Stays, ItemsKept, items, nodes, Live

LEMMA ReadStays == ASSUME IInv, NEW n \in Node, vfs_read(n) \/ vfs_write(n) PROVE Stays
  <1> DEFINE i == getFileEntryByNode(n)
  <1>1. Ready /\ i \in Live
    BY LookupIs DEF vfs_read, vfs_write
  <1>3. CASE Lost(obj[i].entry)
    BY <1>1, <1>3, FaultsStay DEF Lost
  <1>4. CASE /\ \E k \in Asked(i) : Advance(i, k)
             /\ UNCHANGED <<mounted, next, prev, last_obj, nodes>>
    <2> HIDE DEF i
    <2>1. PICK k \in Asked(i) : Advance(i, k)
      BY <1>4
    <2>2. k \in Nat
      BY <1>1, SizeIs DEF Asked
    <2>3. Live' = Live /\ \A j \in Live : obj'[j].node = obj[j].node
      BY <1>1, <1>4, <2>1, <2>2, Parts, SeekMoves
    <2>4. UNCHANGED <<mounted, next, last_obj, at, opens, dopens>>
      BY <1>4 DEF nodes
    <2> QED
      BY <2>3, <2>4 DEF Stays, ItemsKept
  <1> QED
    BY <1>3, <1>4 DEF vfs_read, vfs_write

LEMMA DreadStays == ASSUME IInv, NEW n \in Node, vfs_dread(n) PROVE Stays
  <1> DEFINE i == getFileEntryByNode(n)
             e == After(obj[i].entry)
  <1>1. Ready /\ i \in Live /\ TreeOK /\ ItemsOK
    BY LookupIs, Parts DEF vfs_dread
  <1>2. CASE Faults("freed")
    BY <1>1, <1>2, FaultsStay
  <1>3. CASE /\ obj' = [obj EXCEPT ![i].entry = After(@)]
             /\ UNCHANGED <<mounted, next, prev, last_obj, nodes>>
    <2>1. e \in Entry \cup {NULL}
      BY <1>1, AfterIs
    <2>2. obj' = [obj EXCEPT ![i].entry = e]
      BY <1>3
    <2> HIDE DEF i, e
    <2>3. Live' = Live /\ \A j \in Live : obj'[j].node = obj[j].node
      BY <1>1, <1>3, <2>1, <2>2, CursorMoves
    <2>4. UNCHANGED <<mounted, next, last_obj, at, opens, dopens>>
      BY <1>3 DEF nodes
    <2> QED
      BY <2>3, <2>4 DEF Stays, ItemsKept
  <1> QED
    BY <1>2, <1>3 DEF vfs_dread

\* The cursor of the root goes back to the first entry.
LEMMA OpenRootMoves ==
    ASSUME IInv, OpenRoot
    PROVE  LET i == getFileEntryByNode(Root) IN
           /\ i \in Live /\ obj[i].node = Root /\ Live' = Live
           /\ \A j \in Live : /\ obj'[j].node = obj[j].node /\ obj'[j].size = obj[j].size
                              /\ obj'[j].root = obj[j].root
                              /\ j # i => obj'[j].entry = obj[j].entry
  <1> DEFINE i == getFileEntryByNode(Root)
  <1>1. /\ i \in Live /\ obj[i].node = Root /\ ItemsOK
        /\ obj' = [obj EXCEPT ![i].entry = obj[i].root]
        /\ UNCHANGED <<next, prev, last_obj>>
    BY LookupIs, Parts DEF OpenRoot
  <1> HIDE DEF i
  <1>2. obj[i].root \in Entry \cup {NULL}
    BY <1>1 DEF ItemsOK, ItemsTyped, Object, Live
  <1>3. /\ Live' = Live
        /\ \A j \in Live : /\ obj'[j].node = obj[j].node /\ obj'[j].size = obj[j].size
                           /\ obj'[j].root = obj[j].root
                           /\ obj'[j].entry = IF j = i THEN obj[i].root ELSE obj[j].entry
    BY <1>1, <1>2, CursorMoves
  <1> QED
    BY <1>1, <1>3 DEF i

\* What dopen creates, whichever directory it is.
LEMMA DopenCreates ==
    ASSUME IInv, NEW n \in Node, vfs_dopen(n), ~OpenRoot
    PROVE  /\ at[n] # NULL /\ DirPath(at[n])
           /\ \E i \in Item, h \in Entry \cup {NULL} :
                 create_file_item(i, n, h, h, 0) /\ Live' = Live \cup {i}
  <1>1. Ready /\ TreeOK /\ ItemsOK /\ Rest
    BY Parts DEF vfs_dopen
  <1>2. PICK d \in Dir, i \in Item :
           /\ at[n] # NULL /\ d = getDirEntry(at[n])
           /\ IF d = "kernel modules" THEN OpenModules(n, i) ELSE OpenStatDir(n, d, i)
    BY DEF vfs_dopen
  <1>3. DirPath(at[n])
    <2>1. at[n] \in Path /\ at[n] # NULL /\ NULL \notin Dir
      BY <1>1, <1>2, NullIsNone DEF Rest, Entry
    <2>2. at[n][1] = ZERO \/ Len(at[n]) = 1 \/ at[n][2] = ZERO
      BY <1>2, <2>1 DEF getDirEntry
    <2>3. CASE Len(at[n]) = 1
      BY <2>3 DEF DirPath
    <2>4. CASE Len(at[n]) # 1
      <3>1. at[n] \in (Dir \cup {ZERO}) \X (StatFile \cup Segment \cup {ZERO})
        BY <2>1, <2>4 DEF Path
      <3>2. DOMAIN at[n] = 1..2
        BY <3>1
      <3> QED
        BY <2>2, <2>4, <3>2 DEF DirPath, HasZero
    <2> QED
      BY <2>3, <2>4
  <1>4. OpenModules(n, i) \/ OpenStatDir(n, d, i)
    BY <1>2
  <1>5. CASE OpenModules(n, i)
    <2>1. PICK k \in [1..Cardinality(Shown) -> Cell] : create_file_item(i, n, HeadOf(k), HeadOf(k), 0)
      BY <1>5 DEF OpenModules
    <2>2. HeadOf(k) \in Entry \cup {NULL}
      <3>1. k \in Seq(Cell)
        BY ShownCount
      <3>2. k # <<>> => 1 \in 1..Len(k)
        BY <3>1
      <3> HIDE DEF OpenModules
      <3> QED
        BY <3>1, <3>2, ElementOf DEF HeadOf, Entry
    <2> QED
      BY <1>1, <1>2, <1>3, <2>1, <2>2, CreateKeeps
  <1>6. CASE OpenStatDir(n, d, i)
    <2>2. HeadOf(kids[d]) \in Entry \cup {NULL}
      BY <1>1, HeadIs
    <2>3. create_file_item(i, n, HeadOf(kids[d]), HeadOf(kids[d]), 0)
      BY <1>6 DEF OpenStatDir
    <2> QED
      BY <1>1, <1>2, <1>3, <2>2, <2>3, CreateKeeps
  <1> QED
    BY <1>4, <1>5, <1>6

\* What open creates: the entry that the path leads to.
LEMMA OpenCreates ==
    ASSUME IInv, NEW n \in Node, vfs_open(n)
    PROVE  LET e == getFileEntry(at[n]) IN
           /\ e \in Entry /\ ~Freed(e) /\ at[n] \in Path
           /\ \E i \in Item, size \in OpenedSize(e) :
                 /\ create_file_item(i, n, NULL, e, size)
                 /\ stale' = stale \ {i}
                 /\ ItemsOK' /\ Live' = Live \cup {i}
  <1> DEFINE e == getFileEntry(at[n])
  <1>1. PICK i \in Item, size \in OpenedSize(e) :
           /\ create_file_item(i, n, NULL, e, size)
           /\ stale' = stale \ {i}
    BY DEF vfs_open
  <1>2. TreeOK /\ ItemsOK /\ Rest
    BY Parts
  <1>3. e \in Entry /\ ~Freed(e) /\ at[n] \in Path
    <2>1. e # NULL
      BY DEF vfs_open
    <2>2. at[n] \in Path
      BY <1>2 DEF Rest, vfs_open
    <2> QED
      BY <2>1, <2>2, <1>2, PathEntryIs
  <1>4. size \in Nat
    BY <1>1, <1>2, <1>3, OpenedSizeIs
  <1> HIDE DEF e
  <1>5. ItemsOK' /\ Live' = Live \cup {i}
    BY <1>1, <1>2, <1>3, <1>4, CreateKeeps
  <1> QED
    BY <1>1, <1>3, <1>4, <1>5 DEF e

\* Every step is one of these.
LEMMA WhatStepsDo ==
    ASSUME WInv, [Next]_vars
    PROVE  Stays \/ Mounts \/ \E n : Opens(n) \/ Closes(n)
  <1>0. /\ IInv /\ at[Root] = NULL /\ Root \in Node /\ opens[Root] = 0
        /\ opens \in [Node -> Nat] /\ dopens \in [Node -> Nat]
    BY HostAssumption DEF WInv, VnodesKept, IInv, HostTypeOK
  <1>1. CASE module_start
    <2>1. PICK i \in Item : create_file_item(i, Root, HeadOf(kids'["/"]), NULL, 0)
      BY <1>1 DEF module_start
    <2>2. Live' = Live \cup {i}
      <3>1. i \in Live'
        <4>1. last_obj' = i /\ last_obj' \in Live' \cup {NULL}
          BY <1>0, <2>1, NextKeeps DEF create_file_item, init_patch, IInv, LinksAgree
        <4> QED
          BY <4>1, NullIsNone
      <3>2. \A j \in Item \ {i} : obj'[j] = obj[j]
        BY <1>0, <2>1, Parts DEF create_file_item, ItemsOK, ItemsTyped
      <3> QED
        BY <3>1, <3>2 DEF Live
    <2> QED
      BY <1>1, <2>1, <2>2 DEF module_start, Mounts, nodes
  <1>2. ASSUME NEW n \in Node, vfs_open(n) PROVE Opens(n)
    <2>1. n # Root /\ at[n] # NULL
      BY <1>0, <1>2 DEF vfs_open
    <2> QED
      BY <1>0, <1>2, <2>1, OpenCreates DEF vfs_open, Opens
  <1>3. ASSUME NEW n \in Node, vfs_close(n) \/ (vfs_dclose(n) /\ n # Root) PROVE Closes(n)
    BY <1>0, <1>3 DEF vfs_close, vfs_dclose, Closes
  <1>4. ASSUME NEW n \in Node, vfs_read(n) \/ vfs_write(n) \/ vfs_dread(n) PROVE Stays
    BY <1>0, <1>4, ReadStays, DreadStays
  <1>5. ASSUME NEW n \in Node, vfs_get_stat(n) \/ vfs_get_stat_by_fd(n) PROVE Stays
    BY <1>0, <1>5, FaultsStay DEF vfs_get_stat, vfs_get_stat_by_fd, Lost
  <1>6. ASSUME NEW n \in Node, vfs_dopen(n) PROVE Stays \/ Opens(n)
    <2>1. /\ UNCHANGED <<at, mounted, opens>> /\ dopens' = [dopens EXCEPT ![n] = @ + 1]
          /\ OpenRoot => n = Root \/ at[n] # NULL
      BY <1>6 DEF vfs_dopen
    <2>2. CASE ~OpenRoot
      <3>1. at[n] # NULL /\ DirPath(at[n])
        BY <1>0, <1>6, <2>2, DopenCreates
      <3>2. \E i \in Item : \E r, e, z : create_file_item(i, n, r, e, z) /\ Live' = Live \cup {i}
        BY <1>0, <1>6, <2>2, DopenCreates
      <3> QED
        BY <1>0, <2>1, <3>1, <3>2 DEF Opens
    <2>3. CASE OpenRoot
      <3>1. next' = next /\ last_obj' = last_obj
        BY <2>3 DEF OpenRoot
      <3>2. CASE n = Root
        <4>1. ItemsKept
          BY <1>0, <2>3, <3>1, OpenRootMoves DEF ItemsKept
        <4> QED
          BY <1>0, <2>1, <3>2, <4>1 DEF Stays
      <3>3. CASE n # Root
        <4>1. FALSE
          <5>1. \E d \in Dir, i \in Item : OpenModules(n, i) \/ OpenStatDir(n, d, i)
            BY <1>6, <3>3 DEF vfs_dopen
          <5>2. \E i \in Item : obj[i] = NULL /\ last_obj' = i
            BY <5>1 DEF OpenModules, OpenStatDir, create_file_item, init_patch
          <5>3. last_obj \in Live \cup {NULL}
            BY <1>0 DEF IInv, LinksAgree
          <5> QED
            BY <3>1, <5>2, <5>3, NullIsNone DEF Live
        <4> QED
          BY <4>1
      <3> QED
        BY <3>2, <3>3
    <2> QED
      BY <2>2, <2>3
  <1>7. CASE vfs_dclose(Root)
    BY <1>0, <1>7 DEF vfs_dclose, Stays, ItemsKept, items, Live
  <1>8. ASSUME NEW n \in Node, Retire(n) \/ \E p \in Named : vfs_part_init(n, p) PROVE Stays
    BY <1>0, <1>8 DEF Retire, vfs_part_init, Stays, ItemsKept, items, Live, IInv, HostTypeOK
  <1>9. ASSUME NEW m \in ComeAndGo, LoadOrUnload(m) PROVE Stays
    BY <1>9 DEF LoadOrUnload, Stays, ItemsKept, items, nodes, Live
  <1>10. CASE UNCHANGED vars
    BY <1>10 DEF vars, Stays, ItemsKept, Live
  <1> QED
    BY <1>1, <1>2, <1>3, <1>4, <1>5, <1>6, <1>7, <1>8, <1>9, <1>10 DEF Next, Halted

LEMMA WKeeps == ASSUME WInv, [Next]_vars PROVE WInv'
  <1>1. IInv'
    BY NextKeeps DEF WInv
  <1>2. Chained' /\ CountsAgree' /\ VnodesKept'
    BY WhatStepsDo, StaysReached, MountsReached, OpensReached, ClosesReached
  <1> QED
    BY <1>1, <1>2 DEF WInv

LEMMA WInit == ASSUME Init PROVE WInv
  <1>1. IInv /\ Live = {} /\ last_obj = NULL
    BY InitHolds DEF Init, Live
  <1>2. Chained
    <2> DEFINE s == [k \in 1..0 |-> NULL]
    <2>1. s \in [1..0 -> Item] /\ InOrder(0, s)
      BY <1>1 DEF InOrder
    <2> QED
      BY <2>1 DEF Chained
  <1>3. CountsAgree
    <2>1. \A n : ItemsOn(n) = {}
      BY <1>1 DEF ItemsOn
    <2>2. \A n : Cardinality(ItemsOn(n)) = 0
      BY <2>1, FS_EmptySet
    <2> QED
      BY <2>2 DEF CountsAgree, Init
  <1>4. VnodesKept
    BY HostAssumption DEF Init, VnodesKept
  <1> QED
    BY <1>1, <1>2, <1>3, <1>4 DEF WInv

\* The walk meets the items of a vnode, each once.
LEMMA WalkCounts ==
    ASSUME Chained, NEW n
    PROVE  Cardinality({k \in 0..Cardinality(Item) :
                          Behind[k] \in Live /\ obj[Behind[k]].node = n})
             = Cardinality(ItemsOn(n))
  <1>1. PICK m \in Nat : \E s \in [1..m -> Item] : InOrder(m, s)
    BY DEF Chained
  <1>2. PICK s \in [1..m -> Item] : InOrder(m, s)
    BY <1>1
  <1> DEFINE K == {k \in 0..Cardinality(Item) : Behind[k] \in Live /\ obj[Behind[k]].node = n}
             f == [k \in K |-> Behind[k]]
  <1>3. /\ Cardinality(Item) \in Nat /\ m <= Cardinality(Item)
        /\ \A k \in Nat : Behind[k] = IF k < m THEN s[k + 1] ELSE NULL
    BY <1>2, WalkEnds, WalkIs
  <1>4. \A k \in K : k \in Nat /\ k < m /\ f[k] = s[k + 1] /\ f[k] \in ItemsOn(n)
    BY <1>3, NullIsNone DEF ItemsOn, Live
  <1>5. \A i \in ItemsOn(n) : \E k \in K : f[k] = i
    <2> SUFFICES ASSUME NEW i \in ItemsOn(n) PROVE \E k \in K : f[k] = i
      OBVIOUS
    <2>1. PICK p \in 1..m : i = s[p]
      BY <1>2 DEF InOrder, ItemsOn
    <2>2. p - 1 \in 0..Cardinality(Item) /\ p - 1 \in Nat /\ p - 1 < m /\ (p - 1) + 1 = p
      BY <1>3
    <2>3. Behind[p - 1] = i
      BY <1>3, <2>1, <2>2
    <2> QED
      BY <2>2, <2>3 DEF ItemsOn
  <1>6. IsFiniteSet(K)
    <2>1. IsFiniteSet(0..Cardinality(Item)) /\ K \in SUBSET (0..Cardinality(Item))
      BY <1>3, FS_Interval
    <2> HIDE DEF K
    <2> QED
      BY <2>1, FS_Subset
  <1>7. f \in Bijection(K, ItemsOn(n))
    <2>1. \A j, k \in K : f[j] = f[k] => j = k
      <3> SUFFICES ASSUME NEW j \in K, NEW k \in K, f[j] = f[k] PROVE j = k
        OBVIOUS
      <3>1. j \in Nat /\ k \in Nat /\ j < m /\ k < m /\ s[j + 1] = s[k + 1]
        <4> HIDE DEF K, f
        <4> QED
          BY <1>4
      <3>2. j + 1 \in 1..m /\ k + 1 \in 1..m
        BY <3>1
      <3>3. j + 1 = k + 1
        BY <1>2, <3>1, <3>2 DEF InOrder
      <3> QED
        BY <3>1, <3>3
    <2>2. f \in [K -> ItemsOn(n)]
      BY <1>4
    <2> HIDE DEF f, K
    <2> QED
      BY <1>5, <2>1, <2>2 DEF Bijection, Injection, Surjection, IsInjective
  <1> HIDE DEF K, f
  <1>8. Cardinality(ItemsOn(n)) = Cardinality(K)
    BY <1>6, <1>7, FS_Bijection DEF ExistsBijection
  <1> QED
    BY <1>8 DEF K

LEMMA WalkAlways == Spec => []WInv
  <1>1. Init => WInv
    BY WInit
  <1>2. WInv /\ [Next]_vars => WInv'
    BY WKeeps
  <1> QED
    BY <1>1, <1>2, PTL DEF Spec

\* Whatever is opened and closed, and in whatever order, the walk of
\* getFileEntryByNode meets every open file of a vnode exactly once.
THEOREM HandlesAlwaysReached == Spec => []HandlesReached
  <1>1. WInv => HandlesReached
    BY WalkCounts DEF WInv, CountsAgree, HandlesReached
  <1> QED
    BY <1>1, WalkAlways, PTL

-----------------------------------------------------------------------------
(* What is found by a path *)

\* The static entries are made by the mount and never change.
NoTree == ~mounted => \A d \in Dir \cup {"/"} : Len(kids[d]) = 0
TreeCounts ==
    mounted => /\ Len(kids["/"]) = 4
               /\ Len(kids["sysroot"]) = 1 /\ Len(kids["etc"]) = 1
               /\ Len(kids["map_conf"]) = 2
TreeNames ==
    mounted => /\ kids["/"][1] = "kernel modules" /\ kids["/"][2] = "sysroot"
               /\ kids["/"][3] = "etc" /\ kids["/"][4] = "map_conf"
               /\ kids["sysroot"][1] = "sysroot(kblparam)"
               /\ kids["etc"][1] = "random"
               /\ kids["map_conf"][1] = "map_conf1" /\ kids["map_conf"][2] = "map_mem1"
TreeMade == NoTree /\ TreeCounts /\ TreeNames

FInv == IInv /\ TreeMade

\* The first entry that agrees is the one found.
LEMMA FirstFound ==
    ASSUME NEW d, NEW name, Len(kids[d]) \in Nat, NEW i \in 1..Len(kids[d]), IsFound(d, name, i)
    PROVE  Find(d, name) = kids[d][i]
  <1> DEFINE N == Len(kids[d])
             j == CHOOSE h \in 1..N : IsFound(d, name, h)
  <1>1. j \in 1..N /\ IsFound(d, name, j)
    OBVIOUS
  <1>2. Find(d, name) = kids[d][j]
    BY DEF Find
  <1> HIDE DEF j
  <1>3. \A g, h \in 1..N : g < h => g \in 1..(h - 1)
    OBVIOUS
  <1> HIDE DEF N
  <1>4. i \in 1..N
    BY DEF N
  <1>5. \A g, h \in 1..N : IsFound(d, name, g) /\ IsFound(d, name, h) => ~(g < h)
    BY <1>3, Zenon DEF IsFound, Agrees
  <1>6. ~(i < j) /\ ~(j < i) /\ i \in Nat /\ j \in Nat
    BY <1>1, <1>4, <1>5 DEF N
  <1>7. i = j
    BY <1>6
  <1> QED
    BY <1>2, <1>7

LEMMA StaticIs ==
    /\ {"kernel modules", "sysroot", "etc", "map_conf"} = Dir
    /\ \A e \in Dir \cup StatFile : e \notin Cell /\ Name(e) = e
  BY NullIsNone DEF Dir, Name

LEMMA RootFinds ==
    ASSUME TreeMade, NEW i \in 1..Len(kids["/"])
    PROVE  /\ Find("/", kids["/"][i]) = kids["/"][i] /\ kids["/"][i] \in Dir
           /\ mounted
  <1> DEFINE r == kids["/"]
  <1>1. mounted
    BY DEF TreeMade, NoTree
  <1>2. Len(r) = 4
    BY <1>1 DEF TreeMade, TreeCounts
  <1>3. i \in 1..4 /\ i \in 1..Len(r) /\ Len(r) \in Nat /\ \A j \in 1..(i - 1) : j \in 1..4 /\ i # j
    BY <1>2
  <1>a. r[1] = "kernel modules" /\ r[2] = "sysroot" /\ r[3] = "etc" /\ r[4] = "map_conf"
    BY <1>1 DEF TreeMade, TreeNames
  <1> HIDE DEF r
  <1>0. \A j \in 1..4 : j = 1 \/ j = 2 \/ j = 3 \/ j = 4
    OBVIOUS
  <1>4. \A j \in 1..4 : r[j] \in Dir
    BY <1>a, <1>0 DEF Dir
  <1>5. \A j, h \in 1..4 : r[j] = r[h] => j = h
    BY <1>a, <1>0
  <1>6. \A x, y \in Dir : <<x, y>> \notin Begins
    BY DEF Begins, Dir
  <1>8. \A j \in 1..4 : Name(r[j]) = r[j]
    BY <1>4, StaticIs
  <1>9. \A j \in 1..(i - 1) : ~Agrees(r[i], r[j])
    BY <1>3, <1>4, <1>5, <1>6, <1>8, Zenon DEF Agrees
  <1>10. IsFound("/", r[i], i)
    BY <1>3, <1>8, <1>9, Zenon DEF IsFound, r
  <1>11. Find("/", r[i]) = r[i]
    BY <1>3, <1>10, FirstFound, Zenon DEF r
  <1> QED
    BY <1>1, <1>3, <1>4, <1>11, Zenon DEF r

\* Of an entry of a directory that is listed, the first of its name is found.
LEMMA DirFinds ==
    ASSUME FInv, NEW d \in Dir, NEW i \in 1..Len(kids[d])
    PROVE  /\ mounted
           /\ \E j \in 1..i : /\ Find(d, Name(kids[d][i])) = kids[d][j]
                              /\ Name(kids[d][j]) = Name(kids[d][i])
  <1>1. CASE d = "kernel modules"
    <2> DEFINE name == Name(kids[d][i])
    <2>0. kids[d] \in Seq(Cell)
      BY <1>1 DEF FInv, IInv, KidsApart, List
    <2>1. kids[d] \in Seq(Cell) /\ Len(kids[d]) \in Nat
      BY <2>0
    <2> DEFINE S == {j \in 1..Len(kids[d]) : Name(kids[d][j]) = name}
    <2>2. S \in SUBSET Nat /\ i \in S
      BY <2>1
    <2>3. PICK j \in S : \A h \in S : j <= h
      <3> HIDE DEF S
      <3> QED
        BY <2>2, LeastOf
    <2>4. j \in 1..i /\ j \in 1..Len(kids[d]) /\ Name(kids[d][j]) = name
      BY <2>1, <2>2, <2>3
    <2>5. ASSUME NEW h \in 1..(j - 1) PROVE ~Agrees(name, kids[d][h])
      <3>1. h \in 1..Len(kids[d]) /\ ~(j <= h)
        BY <2>1, <2>4
      <3>2. kids[d][h] \in Cell
        BY <2>1, <3>1, ElementOf
      <3>3. Name(kids[d][h]) # name
        BY <2>3, <3>1
      <3> HIDE DEF name
      <3> QED
        BY <3>2, <3>3 DEF Agrees
    <2>6. IsFound(d, name, j)
      BY <2>4, <2>5 DEF IsFound
    <2>7. mounted
      BY DEF FInv, TreeMade, NoTree
    <2> HIDE DEF S, name
    <2>8. Find(d, name) = kids[d][j]
      BY <2>1, <2>4, <2>6, FirstFound
    <2> QED
      BY <2>4, <2>7, <2>8 DEF name
  <1>2. CASE d # "kernel modules"
    <2> DEFINE r == kids[d]
    <2>1. mounted
      BY DEF FInv, TreeMade, NoTree
    <2>2. d \in {"sysroot", "etc", "map_conf"}
      BY <1>2 DEF Dir
    <2>3. /\ Len(r) \in {1, 2}
          /\ d \in {"sysroot", "etc"} => Len(r) = 1
      BY <2>1, <2>2 DEF FInv, TreeMade, TreeCounts
    <2>a. i \in 1..Len(r) /\ Len(r) \in Nat /\ \A j \in 1..(i - 1) : j \in 1..Len(r) /\ i # j
      BY <2>3
    <2>b. \/ d = "sysroot" /\ r[1] = "sysroot(kblparam)"
          \/ d = "etc" /\ r[1] = "random"
          \/ d = "map_conf" /\ r[1] = "map_conf1" /\ r[2] = "map_mem1"
      BY <2>1, <2>2 DEF FInv, TreeMade, TreeNames
    <2> DEFINE N == Len(r)
    <2>c. N \in {1, 2} /\ (d \in {"sysroot", "etc"} => N = 1)
      BY <2>3
    <2>d. i \in 1..N /\ N \in Nat /\ \A j \in 1..(i - 1) : j \in 1..N /\ i # j
      BY <2>a
    <2> HIDE DEF N, r
    <2>e. \A j \in 1..N : j = 1 \/ (j = 2 /\ N = 2)
      BY <2>c
    <2>4. \A j \in 1..N : r[j] \in StatFile
      BY <2>b, <2>c, <2>e DEF StatFile
    <2>5. \A j, h \in 1..N : r[j] = r[h] => j = h
      BY <2>b, <2>c, <2>e
    <2>7. \A x, y \in StatFile : <<x, y>> \notin Begins
      BY DEF Begins, StatFile
    <2>8. \A j \in 1..N : Name(r[j]) = r[j]
      BY <2>4, StaticIs
    <2>9. \A j \in 1..(i - 1) : ~Agrees(r[i], r[j])
      BY <2>4, <2>5, <2>7, <2>8, <2>d, Zenon DEF Agrees
    <2>10. IsFound(d, r[i], i)
      BY <2>8, <2>9, <2>d, Zenon DEF IsFound, r
    <2>11. Find(d, r[i]) = r[i]
      BY <2>a, <2>10, FirstFound, Zenon DEF r
    <2>12. i \in 1..i
      BY <2>d
    <2> QED
      BY <2>1, <2>8, <2>11, <2>12, <2>d, Zenon DEF r
  <1> QED
    BY <1>1, <1>2

LEMMA AllFound == ASSUME FInv PROVE FilesFound
  <1>1. \A i \in 1..Len(kids["/"]) : getDirEntry(<<kids["/"][i]>>) = kids["/"][i]
    <2> SUFFICES ASSUME NEW i \in 1..Len(kids["/"])
                 PROVE  getDirEntry(<<kids["/"][i]>>) = kids["/"][i]
      OBVIOUS
    <2> DEFINE x == kids["/"][i]
    <2>1. Find("/", x) = x /\ x \in Dir
      BY RootFinds DEF FInv
    <2>2. x # ZERO
      BY <2>1, ZeroIsNone
    <2> HIDE DEF x
    <2> QED
      BY <2>1, <2>2 DEF getDirEntry, x
  <1>2. ASSUME mounted, NEW d \in Dir PROVE Find("/", d) = d
    <2>1. \/ kids["/"][1] = d \/ kids["/"][2] = d \/ kids["/"][3] = d \/ kids["/"][4] = d
      BY <1>2, Zenon DEF FInv, TreeMade, TreeNames, Dir
    <2>3. 1 \in 1..4 /\ 2 \in 1..4 /\ 3 \in 1..4 /\ 4 \in 1..4
      OBVIOUS
    <2>2. 1..Len(kids["/"]) = 1..4
      BY <1>2 DEF FInv, TreeMade, TreeCounts
    <2> QED
      BY <2>1, <2>2, <2>3, RootFinds, Zenon DEF FInv
  <1>3. ASSUME NEW d \in Dir, NEW i \in 1..Len(kids[d])
        PROVE  LET name == Name(kids[d][i])
                   found == getFileEntry(<<d, name>>) IN
               IF name = ZERO THEN found = d
               ELSE \E j \in 1..i : found = kids[d][j] /\ Name(found) = name
    <2> DEFINE name == Name(kids[d][i])
    <2>1. /\ Find("/", d) = d /\ d # ZERO
          /\ \E j \in 1..i : Find(d, name) = kids[d][j] /\ Name(kids[d][j]) = name
      BY <1>2, <1>3, DirFinds, ZeroIsNone
    <2> HIDE DEF name
    <2>2. CASE name = ZERO
      <3>1. getFileEntry(<<d, name>>) = d
        BY <2>1, <2>2, <1>3 DEF getFileEntry
      <3> QED
        BY <2>2, <3>1 DEF name
    <2>3. CASE name # ZERO
      <3>1. getFileEntry(<<d, name>>) = Find(d, name)
        BY <2>1, <2>3, <1>3 DEF getFileEntry
      <3> QED
        BY <2>1, <2>3, <3>1 DEF name
    <2> QED
      BY <2>2, <2>3
  <1> QED
    BY <1>1, <1>3 DEF FilesFound

\* A new entry is the last of its directory, the others stay.
Lists(k, d, n) == k \in [Dir \cup {"/"} -> Seq(Entry)] /\ Len(k[d]) = n
Grown(k, m, d, n, n1, e) ==
    /\ Lists(m, d, n1)
    /\ \A x \in Dir \cup {"/"} :
          x # d => m[x] = k[x] /\ \A h \in 0..4 : Lists(k, x, h) => Lists(m, x, h)
    /\ m[d][n1] = e
    /\ \A i \in 1..n : m[d][i] = k[d][i]

LEMMA EntryAppended ==
    ASSUME NEW k, NEW d \in Dir \cup {"/"}, NEW e \in Entry,
           NEW n \in Nat, NEW n1, n1 = n + 1, Lists(k, d, n), ZERO \notin {d, e}
    PROVE  Grown(k, createFileEntry(k, d, e), d, n, n1, e)
  <1> DEFINE m == createFileEntry(k, d, e)
             s == k[d]
  <1>1. k \in [Dir \cup {"/"} -> Seq(Entry)] /\ s \in Seq(Entry) /\ Len(s) = n
    BY DEF Lists
  <1>2. /\ Append(s, e) \in Seq(Entry) /\ Len(Append(s, e)) = n1
        /\ Append(s, e)[n1] = e
        /\ \A i \in 1..n : Append(s, e)[i] = s[i]
    BY <1>1, AppendProperties
  <1>3. m = [k EXCEPT ![d] = Append(s, e)]
    BY DEF createFileEntry
  <1> HIDE DEF m
  <1>4. m \in [Dir \cup {"/"} -> Seq(Entry)] /\ m[d] = Append(s, e)
    BY <1>1, <1>2, <1>3
  <1>5. \A x \in Dir \cup {"/"} : x # d => m[x] = k[x]
    BY <1>1, <1>3
  <1>6. \A x \in Dir \cup {"/"} : x # d => \A h : Lists(k, x, h) => Lists(m, x, h)
    BY <1>4, <1>5, Zenon DEF Lists
  <1>7. Lists(m, d, n1)
    BY <1>2, <1>4 DEF Lists
  <1>8. m[d][n1] = e /\ \A i \in 1..n : m[d][i] = k[d][i]
    BY <1>2, <1>4
  <1>9. \A x \in Dir \cup {"/"} :
           x # d => m[x] = k[x] /\ \A h \in 0..4 : Lists(k, x, h) => Lists(m, x, h)
    BY <1>5, <1>6, Zenon
  <1>10. Grown(k, m, d, n, n1, e)
    BY <1>7, <1>8, <1>9, Zenon DEF Grown
  <1> QED
    BY <1>10 DEF m

LEMMA TreeMadeByMount == ASSUME FInv, module_start PROVE TreeMade'
  <1> DEFINE k1 == createFileEntry(kids, "/", "kernel modules")
             k2 == createFileEntry(k1, "/", "sysroot")
             k3 == createFileEntry(k2, "sysroot", "sysroot(kblparam)")
             k4 == createFileEntry(k3, "/", "etc")
             k5 == createFileEntry(k4, "etc", "random")
             k6 == createFileEntry(k5, "/", "map_conf")
             k7 == createFileEntry(k6, "map_conf", "map_conf1")
             k8 == createFileEntry(k7, "map_conf", "map_mem1")
  <1>1. kids' = k8 /\ mounted' = TRUE
    BY DEF module_start, init_module_kernel, init_sysroot, init_etc, init_map_conf1
  <1>2. \A d \in Dir \cup {"/"} : Lists(kids, d, 0)
    BY DEF FInv, TreeMade, NoTree, module_start, IInv, HostTypeOK, Lists
  <1>3. /\ "/" \in Dir \cup {"/"} /\ "kernel modules" \in Dir \cup {"/"}
        /\ "sysroot" \in Dir \cup {"/"} /\ "etc" \in Dir \cup {"/"}
        /\ "map_conf" \in Dir \cup {"/"}
    BY DEF Dir
  <1>4. /\ "kernel modules" \in Entry /\ "sysroot" \in Entry /\ "etc" \in Entry
        /\ "map_conf" \in Entry /\ "sysroot(kblparam)" \in Entry /\ "random" \in Entry
        /\ "map_conf1" \in Entry /\ "map_mem1" \in Entry
    BY DEF Entry, Dir, StatFile
  <1>y. /\ ZERO # "/" /\ ZERO # "sysroot" /\ ZERO # "etc" /\ ZERO # "map_conf"
        /\ ZERO # "kernel modules" /\ ZERO # "sysroot(kblparam)" /\ ZERO # "random"
        /\ ZERO # "map_conf1" /\ ZERO # "map_mem1"
    BY ZeroIsNone DEF Dir, StatFile
  <1>n. /\ 0 \in Nat /\ 1 = 0 + 1 /\ 1 \in Nat /\ 2 = 1 + 1 /\ 2 \in Nat /\ 3 = 2 + 1
        /\ 3 \in Nat /\ 4 = 3 + 1
        /\ 0 \in 0..4 /\ 1 \in 0..4 /\ 2 \in 0..4 /\ 3 \in 0..4 /\ 4 \in 0..4
        /\ 1 \in 1..1 /\ 1 \in 1..2 /\ 2 \in 1..2 /\ 1 \in 1..3 /\ 2 \in 1..3 /\ 3 \in 1..3
    OBVIOUS
  <1>5. Grown(kids, k1, "/", 0, 1, "kernel modules")
    BY <1>2, <1>3, <1>4, <1>n, <1>y, EntryAppended, Zenon
  <1> HIDE DEF k1
  <1>6. /\ Lists(k1, "/", 1)
        /\ Lists(k1, "kernel modules", 0)
        /\ Lists(k1, "sysroot", 0)
        /\ Lists(k1, "etc", 0)
        /\ Lists(k1, "map_conf", 0)
        /\ k1["/"][1] = "kernel modules"
    BY <1>2, <1>3, <1>5, <1>n DEF Grown
  <1>7. Grown(k1, k2, "/", 1, 2, "sysroot")
    BY <1>6, <1>3, <1>4, <1>n, <1>y, EntryAppended, Zenon
  <1> HIDE DEF k2
  <1>8. /\ Lists(k2, "/", 2)
        /\ Lists(k2, "kernel modules", 0)
        /\ Lists(k2, "sysroot", 0)
        /\ Lists(k2, "etc", 0)
        /\ Lists(k2, "map_conf", 0)
        /\ k2["/"][1] = "kernel modules"
        /\ k2["/"][2] = "sysroot"
    BY <1>6, <1>3, <1>7, <1>n DEF Grown
  <1>9. Grown(k2, k3, "sysroot", 0, 1, "sysroot(kblparam)")
    BY <1>8, <1>3, <1>4, <1>n, <1>y, EntryAppended, Zenon
  <1> HIDE DEF k3
  <1>10. /\ Lists(k3, "/", 2)
        /\ Lists(k3, "kernel modules", 0)
        /\ Lists(k3, "sysroot", 1)
        /\ Lists(k3, "etc", 0)
        /\ Lists(k3, "map_conf", 0)
        /\ k3["/"][1] = "kernel modules"
        /\ k3["/"][2] = "sysroot"
        /\ k3["sysroot"][1] = "sysroot(kblparam)"
    BY <1>8, <1>3, <1>9, <1>n DEF Grown
  <1>11. Grown(k3, k4, "/", 2, 3, "etc")
    BY <1>10, <1>3, <1>4, <1>n, <1>y, EntryAppended, Zenon
  <1> HIDE DEF k4
  <1>12. /\ Lists(k4, "/", 3)
        /\ Lists(k4, "kernel modules", 0)
        /\ Lists(k4, "sysroot", 1)
        /\ Lists(k4, "etc", 0)
        /\ Lists(k4, "map_conf", 0)
        /\ k4["/"][1] = "kernel modules"
        /\ k4["/"][2] = "sysroot"
        /\ k4["/"][3] = "etc"
        /\ k4["sysroot"][1] = "sysroot(kblparam)"
    BY <1>10, <1>3, <1>11, <1>n DEF Grown
  <1>13. Grown(k4, k5, "etc", 0, 1, "random")
    BY <1>12, <1>3, <1>4, <1>n, <1>y, EntryAppended, Zenon
  <1> HIDE DEF k5
  <1>14. /\ Lists(k5, "/", 3)
        /\ Lists(k5, "kernel modules", 0)
        /\ Lists(k5, "sysroot", 1)
        /\ Lists(k5, "etc", 1)
        /\ Lists(k5, "map_conf", 0)
        /\ k5["/"][1] = "kernel modules"
        /\ k5["/"][2] = "sysroot"
        /\ k5["/"][3] = "etc"
        /\ k5["sysroot"][1] = "sysroot(kblparam)"
        /\ k5["etc"][1] = "random"
    BY <1>12, <1>3, <1>13, <1>n DEF Grown
  <1>15. Grown(k5, k6, "/", 3, 4, "map_conf")
    BY <1>14, <1>3, <1>4, <1>n, <1>y, EntryAppended, Zenon
  <1> HIDE DEF k6
  <1>16. /\ Lists(k6, "/", 4)
        /\ Lists(k6, "kernel modules", 0)
        /\ Lists(k6, "sysroot", 1)
        /\ Lists(k6, "etc", 1)
        /\ Lists(k6, "map_conf", 0)
        /\ k6["/"][1] = "kernel modules"
        /\ k6["/"][2] = "sysroot"
        /\ k6["/"][3] = "etc"
        /\ k6["/"][4] = "map_conf"
        /\ k6["sysroot"][1] = "sysroot(kblparam)"
        /\ k6["etc"][1] = "random"
    BY <1>14, <1>3, <1>15, <1>n DEF Grown
  <1>17. Grown(k6, k7, "map_conf", 0, 1, "map_conf1")
    BY <1>16, <1>3, <1>4, <1>n, <1>y, EntryAppended, Zenon
  <1> HIDE DEF k7
  <1>18. /\ Lists(k7, "/", 4)
        /\ Lists(k7, "kernel modules", 0)
        /\ Lists(k7, "sysroot", 1)
        /\ Lists(k7, "etc", 1)
        /\ Lists(k7, "map_conf", 1)
        /\ k7["/"][1] = "kernel modules"
        /\ k7["/"][2] = "sysroot"
        /\ k7["/"][3] = "etc"
        /\ k7["/"][4] = "map_conf"
        /\ k7["sysroot"][1] = "sysroot(kblparam)"
        /\ k7["etc"][1] = "random"
        /\ k7["map_conf"][1] = "map_conf1"
    BY <1>16, <1>3, <1>17, <1>n DEF Grown
  <1>19. Grown(k7, k8, "map_conf", 1, 2, "map_mem1")
    BY <1>18, <1>3, <1>4, <1>n, <1>y, EntryAppended, Zenon
  <1> HIDE DEF k8
  <1>20. /\ Lists(k8, "/", 4)
        /\ Lists(k8, "kernel modules", 0)
        /\ Lists(k8, "sysroot", 1)
        /\ Lists(k8, "etc", 1)
        /\ Lists(k8, "map_conf", 2)
        /\ k8["/"][1] = "kernel modules"
        /\ k8["/"][2] = "sysroot"
        /\ k8["/"][3] = "etc"
        /\ k8["/"][4] = "map_conf"
        /\ k8["sysroot"][1] = "sysroot(kblparam)"
        /\ k8["etc"][1] = "random"
        /\ k8["map_conf"][1] = "map_conf1"
        /\ k8["map_conf"][2] = "map_mem1"
    BY <1>18, <1>3, <1>19, <1>n DEF Grown
  <1>21. TreeNames'
    BY <1>1, <1>20 DEF TreeNames
  <1>22. /\ Len(k8["/"]) = 4 /\ Len(k8["sysroot"]) = 1 /\ Len(k8["etc"]) = 1
         /\ Len(k8["map_conf"]) = 2 /\ Len(k8["kernel modules"]) = 0
    BY <1>20, Zenon DEF Lists
  <1>23. TreeCounts'
    BY <1>1, <1>22, Zenon DEF TreeCounts
  <1>24. NoTree'
    BY <1>1, Zenon DEF NoTree
  <1> QED
    BY <1>21, <1>23, <1>24 DEF TreeMade

\* Opening the directory of modules leaves the others as they are.
LEMMA OpenModulesApart ==
    ASSUME FInv, mounted, mounted', NEW n, NEW i, OpenModules(n, i)
    PROVE  TreeMade'
  <1>1. PICK k : kids' = [kids EXCEPT !["kernel modules"] = k]
    BY DEF OpenModules
  <1>2. "kernel modules" \in DOMAIN kids /\ DOMAIN kids = Dir \cup {"/"}
    BY DEF FInv, IInv, HostTypeOK, Dir
  <1>3. \A d \in {"/", "sysroot", "etc", "map_conf"} : kids'[d] = kids[d]
    BY <1>1, <1>2 DEF Dir
  <1> QED
    BY <1>3 DEF FInv, TreeMade, NoTree, TreeCounts, TreeNames

LEMMA FKeeps == ASSUME FInv, [Next]_vars PROVE FInv'
  <1>1. IInv'
    BY NextKeeps DEF FInv
  <1>2. CASE UNCHANGED <<kids, cell, mounted>>
    BY <1>1, <1>2 DEF FInv, TreeMade, NoTree, TreeCounts, TreeNames
  <1>3. CASE module_start
    BY <1>1, <1>3, TreeMadeByMount DEF FInv
  <1>4. ASSUME NEW n \in Node, vfs_dopen(n) PROVE FInv'
    <2>1. mounted /\ mounted' /\ mounted' = mounted
      BY <1>4 DEF vfs_dopen, Ready
    <2>2. ASSUME NEW i, OpenModules(n, i) PROVE FInv'
      BY <1>1, <2>1, <2>2, OpenModulesApart DEF FInv
    <2>3. CASE UNCHANGED tree
      BY <1>2, <2>1, <2>3 DEF tree
    <2> QED
      BY <1>4, <2>2, <2>3 DEF vfs_dopen, OpenRoot, OpenStatDir
  <1>5. ASSUME NEW n \in Node, vfs_open(n) \/ vfs_close(n) \/ vfs_read(n) \/ vfs_write(n)
        PROVE  UNCHANGED <<kids, cell, mounted>>
    BY <1>5 DEF vfs_open, vfs_close, vfs_read, vfs_write, Lost, Faults, tree
  <1>6. ASSUME NEW n \in Node, vfs_dclose(n) \/ vfs_dread(n) \/ vfs_get_stat(n)
                               \/ vfs_get_stat_by_fd(n)
        PROVE  UNCHANGED <<kids, cell, mounted>>
    BY <1>6 DEF vfs_dclose, vfs_dread, vfs_get_stat, vfs_get_stat_by_fd, Lost, Faults, tree
  <1>7. CASE \/ \E n \in Node : Retire(n) \/ \E p \in Named : vfs_part_init(n, p)
             \/ \E m \in ComeAndGo : LoadOrUnload(m)
    BY <1>2, <1>7 DEF Retire, vfs_part_init, LoadOrUnload, tree
  <1>8. CASE UNCHANGED vars
    BY <1>2, <1>8 DEF vars
  <1> QED
    BY <1>2, <1>3, <1>4, <1>5, <1>6, <1>7, <1>8 DEF Next, Halted

LEMMA FInit == ASSUME Init PROVE FInv
  <1>1. IInv
    BY InitHolds
  <1>2. ~mounted /\ \A d \in Dir \cup {"/"} : Len(kids[d]) = 0
    BY DEF Init
  <1>3. TreeMade
    BY <1>2 DEF TreeMade, NoTree, TreeCounts, TreeNames
  <1> QED
    BY <1>1, <1>3 DEF FInv

\* Of the entries that a directory lists, the first of every name is found by
\* its path: no name of the tree begins with that of an entry before it.  Where
\* the name begins with '0' the path leads to the directory.
THEOREM FilesAlwaysFound == Spec => []FilesFound
  <1>1. Init => FInv
    BY FInit
  <1>2. FInv /\ [Next]_vars => FInv'
    BY FKeeps
  <1> QED
    BY <1>1, <1>2, AllFound, PTL DEF Spec

-----------------------------------------------------------------------------
(* What a handle stands for *)

\* What HandleIsPath says of an item, and a new item must meet.
NamedBy(path, root, entry, size) ==
    /\ Len(path) = 2 /\ ~HasZero(path) => entry # NULL /\ Name(entry) = path[2]
    /\ root = NULL /\ HasZero(path) => entry \in Dir \cup {NULL} /\ size = 0

PathOf(i) ==
    LET p == at[obj[i].node] IN
    p # NULL => NamedBy(p, obj[i].root, obj[i].entry, obj[i].size)

Stands(i) == i \notin stale => PathOf(i)

HandlesStand == \A i \in Live : Stands(i)

HInv == WInv /\ FInv /\ HandlesStand

LEMMA FindNames ==
    ASSUME NEW d, NEW name, Find(d, name) # NULL
    PROVE  Name(Find(d, name)) = name
  <1>1. PICK i \in 1..Len(kids[d]) : IsFound(d, name, i)
    BY DEF Find
  <1> DEFINE j == CHOOSE k \in 1..Len(kids[d]) : IsFound(d, name, k)
  <1>2. IsFound(d, name, j) /\ Find(d, name) = kids[d][j]
    BY <1>1 DEF Find
  <1> QED
    BY <1>2 DEF IsFound

\* A file that is found is named by the last part of its path, or it is a
\* directory that a part beginning with '0' led to.
LEMMA FileNamed ==
    ASSUME FInv, mounted, NEW p \in Path, getFileEntry(p) # NULL
    PROVE  /\ HasZero(p) => getFileEntry(p) \in Dir
           /\ ~HasZero(p) => Len(p) = 2 /\ Name(getFileEntry(p)) = p[2]
  <1>1. DOMAIN p = 1..Len(p) /\ (Len(p) = 1 \/ Len(p) = 2)
    BY DEF Path
  <1>2. HasZero(p) <=> p[1] = ZERO \/ (Len(p) = 2 /\ p[2] = ZERO)
    BY <1>1 DEF HasZero
  <1>3. CASE p[1] = ZERO
    <2>1. getFileEntry(p) = HeadOf(kids["/"])
      BY <1>3 DEF getFileEntry
    <2>2. HeadOf(kids["/"]) = "kernel modules"
      <3>1. Len(kids["/"]) = 4 /\ kids["/"][1] = "kernel modules"
        BY DEF FInv, TreeMade, TreeCounts, TreeNames
      <3>2. Len(<<>>) = 0 /\ 0 # 4
        OBVIOUS
      <3>3. kids["/"] # <<>>
        BY <3>1, <3>2, Zenon
      <3> QED
        BY <3>1, <3>3 DEF HeadOf
    <2> QED
      BY <1>2, <1>3, <2>1, <2>2 DEF Dir
  <1>4. CASE p[1] # ZERO
    <2>1. Len(p) = 2 /\ Find("/", p[1]) \in Dir
      BY <1>1, <1>4 DEF getFileEntry
    <2>2. CASE p[2] = ZERO
      BY <1>2, <1>4, <2>1, <2>2 DEF getFileEntry
    <2>3. CASE p[2] # ZERO
      <3>1. getFileEntry(p) = Find(p[1], p[2])
        BY <1>4, <2>1, <2>3 DEF getFileEntry
      <3> QED
        BY <1>2, <1>4, <2>1, <2>3, <3>1, FindNames
    <2> QED
      BY <2>2, <2>3
  <1> QED
    BY <1>3, <1>4

\* After a directory comes a directory.
LEMMA AfterDir ==
    ASSUME FInv, mounted, NEW e \in Dir
    PROVE  After(e) \in Dir \cup {NULL}
  <1>1. ASSUME NEW x \in Entry, Follows(x, e) PROVE x \in Dir
    <2>1. PICK d \in Dir \cup {"/"} : \E i \in 1..(Len(kids[d]) - 1) :
                                       kids[d][i] = e /\ kids[d][i + 1] = x
      BY <1>1, Parts DEF FInv, TreeOK, Follows
    <2>2. PICK i \in 1..(Len(kids[d]) - 1) : kids[d][i] = e /\ kids[d][i + 1] = x
      BY <2>1
    <2>3. Len(kids[d]) \in Nat
      BY <2>1, Parts DEF FInv, TreeOK
    <2>4. i \in 1..Len(kids[d]) /\ i + 1 \in 1..Len(kids[d])
      BY <2>3
    <2>5. CASE d = "/"
      BY <2>2, <2>4, <2>5, RootFinds DEF FInv
    <2>6. CASE d = "kernel modules"
      <3>1. List \in Seq(Cell) /\ i \in 1..Len(List)
        BY <2>4, <2>6, Parts DEF FInv, TreeOK, KidsApart, List
      <3>2. e \in Cell
        BY <2>2, <2>6, <3>1, ElementOf DEF List
      <3> QED
        BY <3>2, NullIsNone
    <2>7. CASE d = "map_conf"
      <3>1. Len(kids[d]) = 2 /\ kids[d][1] = "map_conf1"
        BY <2>7 DEF FInv, TreeMade, TreeCounts, TreeNames
      <3>2. i = 1
        BY <3>1
      <3> QED
        BY <2>2, <3>1, <3>2 DEF Dir
    <2>8. CASE d = "sysroot" \/ d = "etc"
      <3>1. Len(kids[d]) = 1
        BY <2>8 DEF FInv, TreeMade, TreeCounts
      <3> QED
        BY <3>1
    <2> QED
      BY <2>1, <2>5, <2>6, <2>7, <2>8 DEF Dir
  <1>2. CASE \E x \in Entry : Follows(x, e)
    <2> DEFINE x == CHOOSE x \in Entry : Follows(x, e)
    <2>1. x \in Entry /\ Follows(x, e)
      BY <1>2
    <2>2. After(e) = x
      BY <1>2 DEF After
    <2> HIDE DEF x
    <2> QED
      BY <1>1, <2>1, <2>2
  <1>3. CASE ~\E x \in Entry : Follows(x, e)
    BY <1>3 DEF After
  <1> QED
    BY <1>2, <1>3

\* An item goes on standing for its path when neither it nor the path changes, or
\* only the cursor of what is opened as a directory.
Onward(path, e, e2) ==
    \/ e2 = e
    \/ path = NULL
    \/ DirPath(path) /\ e # NULL /\ (e \in Dir => e2 \in Dir \cup {NULL})

LEMMA ItemStands ==
    ASSUME NEW i, Stands(i),
           obj'[i].node = obj[i].node, obj'[i].size = obj[i].size,
           obj'[i].root = obj[i].root,
           at'[obj[i].node] = at[obj[i].node],
           Onward(at[obj[i].node], obj[i].entry, obj'[i].entry),
           i \notin stale' => /\ i \notin stale
                              /\ obj[i].entry \in Cell => cell'[obj[i].entry] = cell[obj[i].entry]
    PROVE  Stands(i)'
  <1> SUFFICES ASSUME i \notin stale', at[obj[i].node] # NULL
               PROVE  NamedBy(at[obj[i].node], obj[i].root, obj[i].entry, obj[i].size)'
    BY DEF Stands, PathOf
  <1> DEFINE p == at[obj[i].node]
  <1>1. NamedBy(p, obj[i].root, obj[i].entry, obj[i].size)
    BY DEF Stands, PathOf
  <1>2. at'[obj'[i].node] = p
    OBVIOUS
  <1>3. CASE obj'[i].entry = obj[i].entry
    <2>1. Len(p) = 2 /\ ~HasZero(p) => obj'[i].entry # NULL /\ Name(obj[i].entry)' = p[2]
      BY <1>1, <1>3 DEF NamedBy, Name, NameOfCell
    <2>2. obj'[i].root = NULL /\ HasZero(p) => obj'[i].entry \in Dir \cup {NULL} /\ obj'[i].size = 0
      BY <1>1, <1>3 DEF NamedBy
    <2> HIDE DEF p
    <2> QED
      BY <1>2, <2>1, <2>2 DEF NamedBy, HasZero, Dir
  <1>4. CASE /\ DirPath(p) /\ obj[i].entry # NULL
             /\ obj[i].entry \in Dir => obj'[i].entry \in Dir \cup {NULL}
    <2>1. Len(p) = 2 => HasZero(p)
      BY <1>4 DEF DirPath
    <2>2. obj'[i].root = NULL /\ HasZero(p) => obj'[i].entry \in Dir \cup {NULL} /\ obj'[i].size = 0
      BY <1>1, <1>4 DEF NamedBy
    <2> HIDE DEF p
    <2> QED
      BY <1>2, <2>1, <2>2 DEF NamedBy, HasZero, Dir
  <1> QED
    BY <1>3, <1>4 DEF Onward

\* Where the tree and the paths stay as they are, so does what items stand for.
LEMMA StandAlike ==
    ASSUME HandlesStand, UNCHANGED <<at, cell, stale>>, Live' = Live,
           \A i \in Live : /\ obj'[i].node = obj[i].node /\ obj'[i].size = obj[i].size
                           /\ obj'[i].root = obj[i].root
                           /\ Onward(at[obj[i].node], obj[i].entry, obj'[i].entry)
    PROVE  HandlesStand'
  <1>1. ASSUME NEW i \in Live PROVE Stands(i)'
    BY <1>1, ItemStands DEF HandlesStand
  <1> QED
    BY <1>1 DEF HandlesStand

LEMMA CreateStands ==
    ASSUME IInv, HandlesStand, NEW i \in Item, NEW n, NEW r, NEW e, NEW z,
           create_file_item(i, n, r, e, z), Live' = Live \cup {i}, UNCHANGED at,
           \A j \in Live : j \notin stale' =>
              /\ j \notin stale
              /\ obj[j].entry \in Cell => cell'[obj[j].entry] = cell[obj[j].entry],
           at[n] # NULL => /\ NamedBy(at[n], r, e, z)
                           /\ DirPath(at[n]) \/ cell' = cell
    PROVE  HandlesStand'
  <1>1. /\ obj'[i].entry = e /\ obj'[i].node = n /\ obj'[i].size = z /\ obj'[i].root = r
        /\ \A j \in Live : obj'[j] = obj[j]
    BY Parts DEF create_file_item, ItemsOK, ItemsTyped, Live
  <1>2. ASSUME NEW j \in Live PROVE Stands(j)'
    BY <1>1, <1>2, ItemStands DEF HandlesStand, Onward
  <1>3. Stands(i)'
    <2> SUFFICES ASSUME at[n] # NULL
                 PROVE  NamedBy(at[obj[i].node], obj[i].root, obj[i].entry, obj[i].size)'
      BY <1>1 DEF Stands, PathOf
    <2> DEFINE p == at[n]
    <2>1. at'[obj'[i].node] = p
      BY <1>1
    <2>2. Len(p) = 2 /\ ~HasZero(p) => e # NULL /\ Name(e)' = p[2]
      BY DEF NamedBy, DirPath, Name, NameOfCell
    <2>3. r = NULL /\ HasZero(p) => e \in Dir \cup {NULL} /\ z = 0
      BY DEF NamedBy
    <2> HIDE DEF p
    <2>4. (Name(obj[i].entry))' = Name(e)'
      BY <1>1 DEF Name, NameOfCell
    <2> QED
      BY <1>1, <2>1, <2>2, <2>3, <2>4 DEF NamedBy, HasZero, Dir
  <1> QED
    BY <1>2, <1>3 DEF HandlesStand

LEMMA MountStands == ASSUME WInv, HandlesStand, module_start PROVE HandlesStand'
  <1>1. PICK i \in Item : create_file_item(i, Root, HeadOf(kids'["/"]), NULL, 0)
    BY DEF module_start
  <1>2. UNCHANGED <<at, cell, stale>> /\ at[Root] = NULL /\ IInv
    BY DEF module_start, nodes, WInv, VnodesKept
  <1>3. Live' = Live \cup {i}
    <2>1. i \in Live'
      <3>1. last_obj' = i /\ last_obj' \in Live' \cup {NULL}
        BY <1>1, <1>2, MountStep DEF create_file_item, init_patch, IInv, LinksAgree
      <3> QED
        BY <3>1, NullIsNone
    <2>2. \A j \in Item \ {i} : obj'[j] = obj[j]
      BY <1>1, <1>2, Parts DEF create_file_item, ItemsOK, ItemsTyped
    <2> QED
      BY <2>1, <2>2 DEF Live
  <1> QED
    BY <1>1, <1>2, <1>3, CreateStands

LEMMA OpenStands == ASSUME HInv, NEW n \in Node, vfs_open(n) PROVE HandlesStand'
  <1> DEFINE e == getFileEntry(at[n])
  <1>1. UNCHANGED <<at, cell>> /\ IInv /\ HandlesStand /\ FInv /\ e # NULL /\ mounted
    BY DEF vfs_open, tree, HInv, WInv, Ready
  <1>2. PICK i \in Item, z \in OpenedSize(e) :
           /\ create_file_item(i, n, NULL, e, z)
           /\ stale' = stale \ {i} /\ Live' = Live \cup {i}
    BY <1>1, OpenCreates
  <1>3. at[n] \in Path /\ e \in Entry
    BY <1>1, OpenCreates
  <1>4. /\ HasZero(at[n]) => e \in Dir
        /\ ~HasZero(at[n]) => Len(at[n]) = 2 /\ Name(e) = at[n][2]
    BY <1>1, <1>3, FileNamed
  <1> HIDE DEF e
  <1>5. ASSUME e \in Dir PROVE z = 0
    <2>1. e \notin Cell /\ e \notin StatFile /\ e # "map_mem1"
      BY <1>5, NullIsNone DEF Dir, StatFile
    <2> QED
      BY <1>2, <2>1 DEF OpenedSize, SizeOf
  <1>6. NamedBy(at[n], NULL, e, z)
    BY <1>1, <1>4, <1>5 DEF NamedBy
  <1>7. i \notin Live
    BY <1>2, NullIsNone DEF create_file_item, Live
  <1> QED
    BY <1>1, <1>2, <1>6, <1>7, CreateStands

LEMMA CloseStands ==
    ASSUME WInv, HandlesStand, NEW n, DeleteItem(n), UNCHANGED <<at, cell>>
    PROVE  HandlesStand'
  <1>1. /\ Live' \subseteq Live /\ \A i \in Live' : obj'[i] = obj[i]
        /\ stale \cap Live' \subseteq stale'
    BY Parts, DeleteKeeps DEF WInv
  <1>2. ASSUME NEW i \in Live' PROVE Stands(i)'
    BY <1>1, <1>2, ItemStands DEF HandlesStand, Onward
  <1> QED
    BY <1>2 DEF HandlesStand

LEMMA FaultStands ==
    ASSUME HandlesStand, UNCHANGED <<tree, items, stale, at>>
    PROVE  HandlesStand'
  <1>1. UNCHANGED <<at, cell, stale, obj>> /\ Live' = Live
    BY DEF tree, items, Live
  <1> QED
    BY <1>1, StandAlike DEF Onward

LEMMA ReadStands ==
    ASSUME WInv, HandlesStand, NEW n \in Node, vfs_read(n) \/ vfs_write(n)
    PROVE  HandlesStand'
  <1> DEFINE i == getFileEntryByNode(n)
  <1>1. i \in Live /\ IInv
    BY LookupIs DEF vfs_read, vfs_write, WInv
  <1>3. CASE Lost(obj[i].entry)
    BY <1>3, FaultStands DEF Lost, Faults, nodes
  <1>4. CASE /\ \E k \in Asked(i) : Advance(i, k)
             /\ UNCHANGED <<tree, next, prev, last_obj, nodes, stale>>
    <2> HIDE DEF i
    <2>1. PICK k \in Asked(i) : Advance(i, k)
      BY <1>4
    <2>2. k \in Nat
      BY <1>1, SizeIs DEF Asked
    <2>3. /\ Live' = Live
          /\ \A j \in Live : /\ obj'[j].node = obj[j].node /\ obj'[j].entry = obj[j].entry
                             /\ obj'[j].size = obj[j].size /\ obj'[j].root = obj[j].root
      BY <1>1, <1>4, <2>1, <2>2, Parts, SeekMoves
    <2>4. UNCHANGED <<at, cell, stale>>
      BY <1>4 DEF nodes, tree
    <2> QED
      BY <2>3, <2>4, StandAlike DEF Onward
  <1> QED
    BY <1>3, <1>4 DEF vfs_read, vfs_write

LEMMA DreadStands ==
    ASSUME HInv, NEW n \in Node, vfs_dread(n)
    PROVE  HandlesStand'
  <1> DEFINE i == getFileEntryByNode(n)
             e == After(obj[i].entry)
  <1>1. /\ i \in Live /\ obj[i].node = n /\ TreeOK /\ ItemsOK /\ HandlesStand
        /\ obj[i].entry # NULL /\ FInv /\ mounted
    BY LookupIs, Parts DEF vfs_dread, HInv, WInv, Ready
  <1>2. CASE Faults("freed")
    BY <1>1, <1>2, FaultStands DEF Faults, nodes
  <1>3. CASE /\ obj' = [obj EXCEPT ![i].entry = After(@)]
             /\ UNCHANGED <<tree, next, prev, last_obj, nodes, stale>>
    <2>1. e \in Entry \cup {NULL} /\ obj' = [obj EXCEPT ![i].entry = e]
      BY <1>1, <1>3, AfterIs
    <2>2. at[n] = NULL \/ DirPath(at[n])
      BY DEF vfs_dread, HInv, WInv, VnodesKept
    <2>3. obj[i].entry \in Dir => e \in Dir \cup {NULL}
      BY <1>1, AfterDir
    <2> HIDE DEF i, e
    <2>4. /\ Live' = Live
          /\ \A j \in Live : /\ obj'[j].node = obj[j].node /\ obj'[j].size = obj[j].size
                             /\ obj'[j].root = obj[j].root
                             /\ obj'[j].entry = IF j = i THEN e ELSE obj[j].entry
      BY <1>1, <1>3, <2>1, CursorMoves
    <2>5. UNCHANGED <<at, cell, stale>>
      BY <1>3 DEF nodes, tree
    <2> QED
      BY <1>1, <2>2, <2>3, <2>4, <2>5, StandAlike DEF Onward
  <1> QED
    BY <1>2, <1>3 DEF vfs_dread

LEMMA DopenStands ==
    ASSUME WInv, HandlesStand, NEW n \in Node, vfs_dopen(n)
    PROVE  HandlesStand'
  <1>1. IInv /\ at' = at /\ at[Root] = NULL
    BY DEF WInv, VnodesKept, vfs_dopen
  <1>2. CASE OpenRoot
    <2>1. UNCHANGED <<cell, stale>>
      BY <1>2 DEF OpenRoot, tree
    <2> QED
      BY <1>1, <1>2, <2>1, OpenRootMoves, StandAlike DEF Onward
  <1>3. CASE ~OpenRoot
    <2>1. DirPath(at[n])
      BY <1>1, <1>3, DopenCreates
    <2>2. PICK i \in Item, h \in Entry \cup {NULL} :
             create_file_item(i, n, h, h, 0) /\ Live' = Live \cup {i}
      BY <1>1, <1>3, DopenCreates
    <2>3. \A x \in Item : \A a, b, c : create_file_item(x, n, a, b, c) => x = last_obj'
      BY DEF create_file_item, init_patch
    <2>4. OpenModules(n, i) \/ \E d \in Dir : OpenStatDir(n, d, i)
      <3>1. PICK x \in Item : OpenModules(n, x) \/ \E d \in Dir : OpenStatDir(n, d, x)
        BY <1>3 DEF vfs_dopen
      <3>2. x = last_obj' /\ i = last_obj'
        BY <2>2, <2>3, <3>1 DEF OpenModules, OpenStatDir
      <3> QED
        BY <3>1, <3>2
    <2>5. i \notin Live
      BY <2>2, NullIsNone DEF create_file_item, Live
    <2>6. \A j \in Live : j \notin stale' =>
              /\ j \notin stale
              /\ obj[j].entry \in Cell => cell'[obj[j].entry] = cell[obj[j].entry]
      <3>1. CASE OpenModules(n, i)
        <4>1. stale' = (stale \cup IntoListing) \ {i}
          BY <3>1 DEF OpenModules
        <4> QED
          BY <2>5, <4>1 DEF IntoListing
      <3>2. CASE \E d \in Dir : OpenStatDir(n, d, i)
        BY <2>5, <3>2 DEF OpenStatDir, tree
      <3> QED
        BY <2>4, <3>1, <3>2
    <2>7. NamedBy(at[n], h, h, 0)
      BY <2>1 DEF NamedBy, DirPath
    <2> QED
      BY <1>1, <2>1, <2>2, <2>6, <2>7, CreateStands
  <1> QED
    BY <1>2, <1>3

\* A vnode whose path changes has no items.
LEMMA VnodeStands ==
    ASSUME WInv, HandlesStand, NEW n \in Node,
           Retire(n) \/ \E p \in Named : vfs_part_init(n, p)
    PROVE  HandlesStand'
  <1>1. /\ UNCHANGED <<obj, cell, stale>> /\ Live' = Live
        /\ \A m \in Node : m # n => at'[m] = at[m]
    BY DEF Retire, vfs_part_init, tree, items, Live, WInv, IInv, HostTypeOK
  <1>2. n # Root /\ (at[n] = NULL \/ (opens[n] = 0 /\ dopens[n] = 0))
    BY DEF Retire, vfs_part_init, WInv, VnodesKept
  <1>3. ItemsOn(n) = {}
    BY <1>2, OpenHasItem
  <1>4. ASSUME NEW i \in Live PROVE Stands(i)'
    <2>1. obj[i].node \in Node /\ obj[i].node # n
      BY <1>3, Parts DEF ItemsOn, WInv, ItemsOK, ItemsTyped, Live, Object
    <2> QED
      BY <1>1, <2>1, ItemStands DEF HandlesStand, Onward
  <1> QED
    BY <1>1, <1>4 DEF HandlesStand

LEMMA StandsKeeps == ASSUME HInv, [Next]_vars PROVE HandlesStand'
  <1>0. WInv /\ HandlesStand
    BY DEF HInv
  <1>1. CASE module_start
    BY <1>1, <1>0, MountStands
  <1>2. ASSUME NEW n \in Node, vfs_open(n) \/ vfs_read(n) \/ vfs_write(n) \/ vfs_dopen(n)
                               \/ vfs_dread(n)
        PROVE  HandlesStand'
    BY <1>2, <1>0, OpenStands, ReadStands, DopenStands, DreadStands
  <1>3. ASSUME NEW n \in Node, vfs_close(n) \/ (vfs_dclose(n) /\ n # Root)
        PROVE  HandlesStand'
    BY <1>3, <1>0, CloseStands DEF vfs_close, vfs_dclose, tree
  <1>4. CASE vfs_dclose(Root)
    BY <1>4, <1>0, FaultStands DEF vfs_dclose
  <1>5. ASSUME NEW n \in Node, vfs_get_stat(n) \/ vfs_get_stat_by_fd(n)
        PROVE  HandlesStand'
    BY <1>5, <1>0, FaultStands DEF vfs_get_stat, vfs_get_stat_by_fd, Lost, Faults, nodes
  <1>6. ASSUME NEW n \in Node, Retire(n) \/ \E p \in Named : vfs_part_init(n, p)
        PROVE  HandlesStand'
    BY <1>6, <1>0, VnodeStands
  <1>7. ASSUME NEW m \in ComeAndGo, LoadOrUnload(m) PROVE HandlesStand'
    BY <1>7, <1>0, FaultStands DEF LoadOrUnload, nodes
  <1>8. CASE UNCHANGED vars
    BY <1>8, <1>0, FaultStands DEF vars, tree, items
  <1> QED
    BY <1>1, <1>2, <1>3, <1>4, <1>5, <1>6, <1>7, <1>8 DEF Next, Halted

LEMMA StandsAlways == Spec => []HInv
  <1>1. Init => HInv
    BY WInit, FInit DEF Init, HInv, HandlesStand, Live
  <1>2. HInv /\ [Next]_vars => HInv'
    BY WKeeps, FKeeps, StandsKeeps DEF HInv
  <1> QED
    BY <1>1, <1>2, PTL DEF Spec

\* As long as its cell is not freed, an open file is the one its path named when
\* it was opened: no vnode is given another path while it is open.  A path with
\* a part that begins with '0' opens a directory, with nothing to read.
THEOREM HandleAlwaysIsPath == Spec => []HandleIsPath
  <1>1. HInv => HandleIsPath
    BY DEF HInv, HandlesStand, Stands, PathOf, NamedBy, HandleIsPath
  <1> QED
    BY <1>1, StandsAlways, PTL

=============================================================================
