------------------------- MODULE ParquetLoadProofs -------------------------
(***************************************************************************)
(* Theorems about ParquetLoad, for any number of loaders, files, columns   *)
(* and row groups.  Splits of a file partition its row groups, whatever    *)
(* loads, inserts, evictions and clears do meanwhile: all that ever        *)
(* reaches the metadata is the content of some file, whose offsets are     *)
(* uint64_t.  Of a file that one load reads and nobody else touches, what  *)
(* is cached follows from that load's place in it; so its reports are      *)
(* right and its splits appear at once.                                    *)
(***************************************************************************)
EXTENDS ParquetLoad, TLAPS

\* The local variables of a loader.
CallRecord ==
  [todo : Seq(Files), load : Nat, content : Contents \cup {<<>>},
   group : Nat, batch : Nat, column : Nat]

\* What a loader has read of a file is one of the contents files have, and so
\* is what the metadata hold.
ContentsInv ==
  /\ disk \in [Files -> Contents]
  /\ at \in [Loaders -> CallRecord]
  /\ pc \in [Loaders -> {"idle", "file", "group", "batch", "column", "metadata"}]
  /\ \A l \in Loaders : InGroups(l) => at[l].todo # <<>> /\ at[l].content \in Contents
  /\ \A f \in DOMAIN metadata : metadata[f] \in Contents
  /\ loads \in Nat

\* Calls are lists of files.
LEMMA CallsListFiles == ASSUME NEW call \in Calls PROVE call \in Seq(Files)
<1>1. call \in Seq(Range(call)) /\ Range(call) \subseteq Files
  BY CallsAssumption DEF Files
<1> QED
  BY <1>1

\* Offsets are numbers.
LEMMA OffsetsAreNumbers == ASSUME NEW group \in RowGroups PROVE group.offset \in Int
<1>1. group.offset \in 0 .. (Word - 1)
  BY DEF RowGroups
<1> QED
  BY <1>1, SplitsAssumption

\* Adjacent ranges share no row group and miss none, since their sum does not
\* wrap around.
LEMMA AdjacentRanges ==
  ASSUME NEW groups \in Contents, NEW a \in Cuts, NEW b \in Cuts, NEW c \in Cuts,
         a <= b, b <= c
  PROVE  /\ GroupsIn(groups, a, b - a) \cap GroupsIn(groups, b, c - b) = {}
         /\ GroupsIn(groups, a, b - a) \cup GroupsIn(groups, b, c - b)
              = GroupsIn(groups, a, c - a)
<1>1. /\ Word \in Nat
      /\ a \in Int /\ b \in Int /\ c \in Int
      /\ 0 <= a /\ a < Word /\ 0 <= b /\ b < Word /\ 0 <= c /\ c < Word
  BY SplitsAssumption
<1>2. /\ (a + (b - a)) % Word = b
      /\ (b + (c - b)) % Word = c
      /\ (a + (c - a)) % Word = c
  <2>1. a + (b - a) = b /\ b + (c - b) = c /\ a + (c - a) = c
    BY <1>1
  <2>2. b % Word = b /\ c % Word = c
    BY <1>1
  <2> QED
    BY <2>1, <2>2
<1>3. \A i \in DOMAIN groups : groups[i].offset \in Int
  <2>1. groups \in Seq(RowGroups)
    BY ContentsAssumption
  <2>2. ASSUME NEW i \in DOMAIN groups
        PROVE  groups[i].offset \in Int
    <3>1. groups[i] \in RowGroups
      BY <2>1
    <3> QED
      BY <1>1, <3>1, OffsetsAreNumbers
  <2> QED
    BY <2>2
<1> QED
  BY <1>1, <1>2, <1>3 DEF GroupsIn

\* No call, or one of which nothing but the files is known.
LEMMA NewCall ==
  ASSUME NEW files \in Seq(Files), NEW n \in Nat
  PROVE  /\ NoCall \in CallRecord
         /\ [NoCall EXCEPT !.todo = files, !.load = n] \in CallRecord
<1> DEFINE none == <<>>
<1>1. none \in Seq(Files) /\ none \in Contents \cup {<<>>}
  OBVIOUS
<1>2. NoCall = [todo |-> none, load |-> 0, content |-> none, group |-> 0, batch |-> 0, column |-> 0]
  BY DEF NoCall
<1> HIDE DEF none
<1> QED
  BY <1>1, <1>2 DEF CallRecord

\* Initially there are no metadata and no calls.
LEMMA ContentsInit == Init => ContentsInv
<1> SUFFICES ASSUME Init PROVE ContentsInv
  OBVIOUS
<1>1. NoCall \in CallRecord
  <2>1. <<>> \in Seq(Files) /\ 0 \in Nat
    OBVIOUS
  <2> QED
    BY <2>1, NewCall
<1>2. \A f \in DOMAIN metadata : metadata[f] \in Contents
  BY DEF Init
<1>3. disk \in [Files -> Contents] /\ loads \in Nat
  BY DEF Init
<1>4. at \in [Loaders -> CallRecord]
  BY <1>1 DEF Init
<1>5. pc \in [Loaders -> {"idle", "file", "group", "batch", "column", "metadata"}]
  BY DEF Init
<1>6. \A l \in Loaders : ~InGroups(l)
  BY DEF Init, InGroups
<1> QED
  BY <1>2, <1>3, <1>4, <1>5, <1>6 DEF ContentsInv

\* SetAt changes one value and keeps the others.
LEMMA SetAtAccess ==
  ASSUME NEW f, NEW x, NEW y, NEW z \in DOMAIN SetAt(f, x, y)
  PROVE  SetAt(f, x, y)[z] = y \/ (z \in DOMAIN f /\ SetAt(f, x, y)[z] = f[z])
BY DEF SetAt

Places == {"idle", "file", "group", "batch", "column", "metadata"}
InFile == {"group", "batch", "column", "metadata"}

\* A loader that moves on, with a content if it is within a file, preserves
\* the invariant if what it records are contents.
LEMMA LoaderMoves ==
  ASSUME ContentsInv, NEW l \in Loaders, NEW r \in CallRecord, NEW place \in Places,
         at' = [at EXCEPT ![l] = r],
         pc' = [pc EXCEPT ![l] = place],
         place \in InFile => r.todo # <<>> /\ r.content \in Contents,
         \A f \in DOMAIN metadata' : metadata'[f] \in Contents,
         disk' = disk, loads' \in Nat
  PROVE  ContentsInv'
<1>1. at' \in [Loaders -> CallRecord] /\ pc' \in [Loaders -> Places]
  BY DEF ContentsInv, Places
<1>2. ASSUME NEW k \in Loaders, InGroups(k)'
      PROVE  at'[k].todo # <<>> /\ at'[k].content \in Contents
  <2>1. CASE k = l
    BY <1>2, <2>1 DEF ContentsInv, InGroups, InFile
  <2>2. CASE k # l
    BY <1>2, <2>2 DEF ContentsInv, InGroups
  <2> QED
    BY <2>1, <2>2
<1> QED
  BY <1>1, <1>2 DEF ContentsInv, Places

\* A loader within a file works on a content it has read from the disk, and
\* records no other.
LEMMA ContentsStep == ContentsInv /\ [Next]_vars => ContentsInv'
<1> SUFFICES ASSUME ContentsInv, [Next]_vars PROVE ContentsInv'
  OBVIOUS
<1>1. ASSUME NEW l \in Loaders, NEW files \in Calls, Call(l, files)
      PROVE  ContentsInv'
  <2> DEFINE r == [NoCall EXCEPT !.todo = files, !.load = loads + 1]
  <2>1. files \in Seq(Files) /\ loads \in Nat
    BY CallsListFiles DEF ContentsInv
  <2>2. loads + 1 \in Nat
    BY <2>1
  <2> HIDE DEF r
  <2>3. r \in CallRecord
    BY <2>1, <2>2, NewCall DEF r
  <2>4. at' = [at EXCEPT ![l] = r] /\ pc' = [pc EXCEPT ![l] = "file"]
    BY <1>1 DEF Call, Goto, r
  <2> QED
    BY <1>1, <2>1, <2>2, <2>3, <2>4, LoaderMoves DEF Call, Places, InFile, ContentsInv
<1>2. ASSUME NEW l \in Loaders, LoaderStep(l)
      PROVE  ContentsInv'
  <2> DEFINE c == at[l]
  <2>0. /\ c \in CallRecord /\ pc[l] \in Places
        /\ c.todo # <<>> => File(l) \in Files
        /\ pc[l] \in InFile => c.todo # <<>> /\ c.content \in Contents
        /\ loads \in Nat
        /\ \A f \in DOMAIN metadata : metadata[f] \in Contents
    BY DEF ContentsInv, CallRecord, File, InGroups, InFile, Places
  <2>1. CASE OpenFile(l)
    <3> DEFINE r == [c EXCEPT !.content = disk[File(l)], !.group = 1]
    <3>1. disk[File(l)] \in Contents /\ c.todo # <<>>
      BY <2>0, <2>1 DEF OpenFile, ContentsInv
    <3>2. r \in CallRecord /\ r.todo = c.todo /\ r.content = disk[File(l)]
      BY <2>0, <3>1 DEF CallRecord
    <3>3. at' = [at EXCEPT ![l] = r] /\ pc' = [pc EXCEPT ![l] = "group"]
      BY <2>1 DEF OpenFile, Goto, ContentsInv
    <3> HIDE DEF r
    <3> QED
      BY <2>0, <2>1, <3>1, <3>2, <3>3, LoaderMoves DEF OpenFile, Places, InFile
  <2>2. CASE SkipFile(l)
    <3> DEFINE r == [c EXCEPT !.todo = Tail(c.todo)]
    <3>1. r \in CallRecord
      <4>1. c.todo \in Seq(Files) /\ c.todo # <<>>
        BY <2>0, <2>2 DEF CallRecord, SkipFile
      <4>2. Tail(c.todo) \in Seq(Files)
        BY <4>1
      <4> QED
        BY <2>0, <4>2 DEF CallRecord
    <3>2. at' = [at EXCEPT ![l] = r] /\ pc' = [pc EXCEPT ![l] = "file"]
      BY <2>2 DEF SkipFile, ContentsInv
    <3> HIDE DEF r
    <3> QED
      BY <2>0, <2>2, <3>1, <3>2, LoaderMoves DEF SkipFile, Places, InFile
  <2>3. CASE OpenGroup(l)
    <3> DEFINE r == [c EXCEPT !.batch = 0]
    <3>1. r \in CallRecord /\ r.todo = c.todo /\ r.content = c.content
      BY <2>0 DEF CallRecord
    <3>2. at' = [at EXCEPT ![l] = r] /\ pc' = [pc EXCEPT ![l] = "batch"] /\ pc[l] \in InFile
      BY <2>3 DEF OpenGroup, Goto, InFile
    <3> HIDE DEF r
    <3> QED
      BY <2>0, <2>3, <3>1, <3>2, LoaderMoves DEF OpenGroup, Places, InFile
  <2>4. CASE SkipGroup(l)
    <3> DEFINE r == [c EXCEPT !.group = c.group + 1]
    <3>1. r \in CallRecord /\ r.todo = c.todo /\ r.content = c.content
      BY <2>0 DEF CallRecord
    <3>2. at' = [at EXCEPT ![l] = r] /\ pc' = [pc EXCEPT ![l] = "group"] /\ pc[l] \in InFile
      BY <2>4 DEF SkipGroup, InFile, ContentsInv
    <3> HIDE DEF r
    <3> QED
      BY <2>0, <2>4, <3>1, <3>2, LoaderMoves DEF SkipGroup, Places, InFile
  <2>5. CASE LastGroup(l)
    <3>1. at' = [at EXCEPT ![l] = c] /\ pc' = [pc EXCEPT ![l] = "metadata"] /\ pc[l] \in InFile
      BY <2>5 DEF LastGroup, Goto, InFile, ContentsInv
    <3> QED
      BY <2>0, <2>5, <3>1, LoaderMoves DEF LastGroup, Places, InFile
  <2>6. CASE ReadNext(l)
    <3> DEFINE r == [c EXCEPT !.column = 1]
    <3>1. r \in CallRecord /\ r.todo = c.todo /\ r.content = c.content
      BY <2>0 DEF CallRecord
    <3>2. at' = [at EXCEPT ![l] = r] /\ pc' = [pc EXCEPT ![l] = "column"] /\ pc[l] \in InFile
      BY <2>6 DEF ReadNext, Goto, InFile
    <3> HIDE DEF r
    <3> QED
      BY <2>0, <2>6, <3>1, <3>2, LoaderMoves DEF ReadNext, Places, InFile
  <2>7. CASE EndGroup(l)
    <3> DEFINE r == [c EXCEPT !.group = c.group + 1]
    <3>1. r \in CallRecord /\ r.todo = c.todo /\ r.content = c.content
      BY <2>0 DEF CallRecord
    <3>2. at' = [at EXCEPT ![l] = r] /\ pc' = [pc EXCEPT ![l] = "group"] /\ pc[l] \in InFile
      BY <2>7 DEF EndGroup, Goto, InFile
    <3> HIDE DEF r
    <3> QED
      BY <2>0, <2>7, <3>1, <3>2, LoaderMoves DEF EndGroup, Places, InFile
  <2>8. CASE StoreColumn(l)
    <3> DEFINE r == IF c.column = Columns THEN [c EXCEPT !.batch = c.batch + 1]
                                          ELSE [c EXCEPT !.column = c.column + 1]
               place == IF c.column = Columns THEN "batch" ELSE "column"
    <3>1. r \in CallRecord /\ r.todo = c.todo /\ r.content = c.content
      <4>1. CASE c.column = Columns
        BY <2>0, <4>1 DEF CallRecord
      <4>2. CASE c.column # Columns
        BY <2>0, <4>2 DEF CallRecord
      <4> QED
        BY <4>1, <4>2
    <3>2. at' = [at EXCEPT ![l] = r] /\ pc' = [pc EXCEPT ![l] = place] /\ pc[l] \in InFile
      BY <2>8 DEF StoreColumn, Goto, InFile
    <3>3. place \in Places
      BY DEF Places
    <3>4. metadata' = metadata /\ disk' = disk /\ loads' = loads
      BY <2>8 DEF StoreColumn
    <3> HIDE DEF r, place
    <3> QED
      BY <2>0, <3>1, <3>2, <3>3, <3>4, LoaderMoves
  <2>9. CASE RecordMetadata(l)
    <3> DEFINE r == [c EXCEPT !.todo = Tail(c.todo)]
    <3>1. pc[l] \in InFile /\ c.todo # <<>>
      BY <2>0, <2>9 DEF RecordMetadata, InFile
    <3>2. r \in CallRecord
      <4>1. c.todo \in Seq(Files)
        BY <2>0 DEF CallRecord
      <4>2. Tail(c.todo) \in Seq(Files)
        BY <3>1, <4>1
      <4> QED
        BY <2>0, <4>2 DEF CallRecord
    <3>3. at' = [at EXCEPT ![l] = r] /\ pc' = [pc EXCEPT ![l] = "file"]
      BY <2>9 DEF RecordMetadata, Goto
    <3>4. \A f \in DOMAIN metadata' : metadata'[f] \in Contents
      BY <2>0, <2>9, <3>1, SetAtAccess DEF RecordMetadata
    <3> HIDE DEF r
    <3> QED
      BY <2>0, <2>9, <3>2, <3>3, <3>4, LoaderMoves DEF RecordMetadata, Places, InFile
  <2>10. CASE Return(l)
    <3>1. NoCall \in CallRecord
      BY <2>0, NewCall DEF CallRecord
    <3> QED
      BY <2>0, <2>10, <3>1, LoaderMoves DEF Return, Goto, Places, InFile
  <2> QED
    BY <1>2, <2>1, <2>2, <2>3, <2>4, <2>5, <2>6, <2>7, <2>8, <2>9, <2>10 DEF LoaderStep
<1>3. CASE \/ \E key \in Inserted, liquid \in BOOLEAN : Insert(key, liquid)
           \/ \E key \in tracked : Evict(key)
           \/ \E f \in Files, content \in Contents : Rewrite(f, content)
           \/ UNCHANGED vars
  BY <1>3 DEF Insert, Evict, Rewrite, vars, InGroups, ContentsInv
<1>4. CASE Clear
  BY <1>4 DEF Clear, InGroups, ContentsInv
<1> QED
  BY <1>1, <1>2, <1>3, <1>4 DEF Next

\* The metadata only ever hold what some file contained.
THEOREM MetadataAreContents == Spec => []ContentsInv
BY ContentsInit, ContentsStep, PTL DEF Spec

\* Splits that share a cut never share a row group and lose none, for any
\* files, loaders and cuts, and whatever fails or interferes.
THEOREM SplitsPartitionAlways == Spec => []SplitsPartitionRowGroups
<1>1. ContentsInv => SplitsPartitionRowGroups
  <2> SUFFICES ASSUME ContentsInv, NEW f \in DOMAIN metadata,
                      NEW a \in Cuts, NEW b \in Cuts, NEW c \in Cuts, a <= b /\ b <= c
               PROVE  /\ RowGroupsForRange(f, a, b - a)
                            \cap RowGroupsForRange(f, b, c - b) = {}
                      /\ RowGroupsForRange(f, a, b - a) \cup RowGroupsForRange(f, b, c - b)
                            = RowGroupsForRange(f, a, c - a)
    BY DEF SplitsPartitionRowGroups
  <2>1. metadata[f] \in Contents
    BY DEF ContentsInv
  <2> QED
    BY <2>1, AdjacentRanges DEF RowGroupsForRange
<1> QED
  BY <1>1, MetadataAreContents, PTL

-----------------------------------------------------------------------------
(* What is cached of a file that one load has read and nobody else touched. *)

\* Whether a batch of a column is cached.
Slot(f, g, c, b) == <<f, g, c, b>> \in DOMAIN entries

\* The keys of the store.
KeysInv ==
  /\ DOMAIN entries \subseteq Files \X Nat \X Nat \X Nat
  /\ tracked \subseteq Files \X Nat \X Nat \X Nat

\* l is reading f.
Reads(l, f) == InGroups(l) /\ File(l) = f

\* Where in its content a loader may be.
Within(l) ==
  /\ at[l].group >= 1
  /\ pc[l] \in {"batch", "column"} =>
       at[l].group <= Len(at[l].content) /\ at[l].batch <= Group(l).batches
  /\ pc[l] = "column" => at[l].column \in 1 .. Columns /\ at[l].batch < Group(l).batches
  /\ pc[l] = "metadata" => at[l].group > Len(at[l].content)

\* Whether l has stored column c of batch b of its row group.
Stored(l, c, b) ==
  /\ pc[l] \in {"batch", "column"}
  /\ b < at[l].batch \/ (pc[l] = "column" /\ b = at[l].batch /\ c < at[l].column)

\* Who has changed what is cached of a file: nobody, one load, or others too.
LoadAuthors ==
  [kind : {"load"}, load : Nat, content : Contents, whole : BOOLEAN,
   infos : SUBSET [group : Nat, batches : Nat]]
Authors == {Nobody, Mixed} \cup LoadAuthors

\* Nothing is cached of a file nobody has read.
Untouched(f) ==
  /\ \A l \in Loaders : ~Reads(l, f)
  /\ \A g, c, b \in Nat : ~Slot(f, g, c, b)
  /\ f \notin DOMAIN metadata

\* The load that has read f may still be at it, and then is the only one; it
\* has stored what is before its position, and nothing else is cached.
OneReader(f) ==
  /\ \A l, m \in Loaders : Reads(l, f) /\ Reads(m, f) => l = m
  /\ f \in DOMAIN metadata =>
       metadata[f] = author[f].content /\ \A l \in Loaders : ~Reads(l, f)
  /\ \A l \in Loaders : Reads(l, f) =>
       /\ at[l].load = author[f].load /\ at[l].content = author[f].content
       /\ \A g, c, b \in Nat : g > at[l].group => ~Slot(f, g, c, b)
       /\ \A c \in 1 .. Columns, b \in Nat :
            Slot(f, at[l].group, c, b) <=> Stored(l, c, b)
       /\ \A info \in author[f].infos : info.group < at[l].group

\* What the load has reported of a row group is what is cached of it.
InfosExact(f) ==
  \A info \in author[f].infos : \A c \in 1 .. Columns, b \in Nat :
    Slot(f, info.group, c, b) <=> b < info.batches

\* Unless a read has failed, the row groups that are behind it are complete.
GroupsComplete(f) ==
  author[f].whole =>
    \A g \in 1 .. Len(author[f].content), c \in 1 .. Columns, b \in Nat :
      (\A l \in Loaders : Reads(l, f) => g < at[l].group) =>
        (Slot(f, g, c, b) <=> b < author[f].content[g].batches)

\* Columns that are transcoded are cached as liquid arrays, the others plain.
KindsRight(f) ==
  \A g, b \in Nat, c \in 1 .. Columns :
    Slot(f, g, c, b) => entries[<<f, g, c, b>>].liquid = (c \notin Plain)

\* What is known of a file depends on who has changed what is cached of it.
FileInv(f) ==
  /\ author[f] \in Authors
  /\ author[f] = Nobody => Untouched(f)
  /\ author[f].kind = "load" =>
       OneReader(f) /\ InfosExact(f) /\ GroupsComplete(f) /\ KindsRight(f)

\* The inductive invariant of the loads.
LoadInv ==
  /\ ContentsInv /\ KeysInv
  /\ author \in [Files -> Authors]
  /\ \A l \in Loaders : InGroups(l) => Within(l)
  /\ \A f \in Files : FileInv(f)

\* A file nothing of which has changed.
LEMMA OtherFile ==
  ASSUME ContentsInv, NEW f \in Files, FileInv(f), author'[f] = author[f],
         f \in DOMAIN metadata' <=> f \in DOMAIN metadata,
         f \in DOMAIN metadata => metadata'[f] = metadata[f],
         \A g, c, b \in Nat : Slot(f, g, c, b)' <=> Slot(f, g, c, b),
         \A g, c, b \in Nat :
           Slot(f, g, c, b) => entries'[<<f, g, c, b>>] = entries[<<f, g, c, b>>],
         \A l \in Loaders : Reads(l, f)' <=> Reads(l, f),
         \A l \in Loaders : Reads(l, f) => at'[l] = at[l] /\ pc'[l] = pc[l]
  PROVE  FileInv(f)'
<1>1. Untouched(f) => Untouched(f)'
  BY DEF Untouched
<1>0. \A c \in 1 .. Columns : c \in Nat
  BY ColumnsAssumption
<1>2. author[f].kind = "load" /\ OneReader(f) => OneReader(f)'
  <2> SUFFICES ASSUME OneReader(f), author[f].kind = "load", author[f] \in Authors PROVE OneReader(f)'
    BY DEF FileInv
  <2>1. ASSUME NEW l \in Loaders, NEW c, NEW b, Reads(l, f)
        PROVE  Stored(l, c, b)' <=> Stored(l, c, b)
    BY <2>1 DEF Stored
  <2>2. \A l, m \in Loaders : Reads(l, f)' /\ Reads(m, f)' => l = m
    BY DEF OneReader
  <2>3. f \in DOMAIN metadata' =>
          metadata'[f] = author'[f].content /\ \A l \in Loaders : ~Reads(l, f)'
    BY DEF OneReader
  <2>4. ASSUME NEW l \in Loaders, Reads(l, f)
        PROVE  /\ at'[l].load = author'[f].load /\ at'[l].content = author'[f].content
               /\ \A g, c, b \in Nat : g > at'[l].group => ~Slot(f, g, c, b)'
               /\ \A info \in author'[f].infos : info.group < at'[l].group
    BY <2>4 DEF OneReader
  <2>5. ASSUME NEW l \in Loaders, Reads(l, f), NEW c \in 1 .. Columns, NEW b \in Nat
        PROVE  (Slot(f, at[l].group, c, b) <=> Stored(l, c, b))'
    <3>1. PICK g : g = at[l].group
      OBVIOUS
    <3>2. g \in Nat /\ c \in Nat /\ at'[l] = at[l]
      BY <1>0, <2>5, <3>1 DEF ContentsInv, CallRecord
    <3>3. Slot(f, g, c, b) <=> Stored(l, c, b)
      BY <2>5, <3>1 DEF OneReader
    <3>4. Slot(f, g, c, b)' <=> Stored(l, c, b)'
      BY <2>1, <2>5, <3>2, <3>3
    <3> QED
      BY <3>1, <3>2, <3>4 DEF Slot
  <2> QED
    BY <2>2, <2>3, <2>4, <2>5 DEF OneReader
<1>3. author[f].kind = "load" /\ InfosExact(f) => InfosExact(f)'
  <2> SUFFICES ASSUME InfosExact(f), author[f].kind = "load", author[f] \in Authors PROVE InfosExact(f)'
    BY DEF FileInv
  <2> QED
    BY <1>0 DEF InfosExact, Authors, LoadAuthors, Nobody, Mixed
<1>4. GroupsComplete(f) => GroupsComplete(f)'
  BY <1>0 DEF GroupsComplete
<1>5. KindsRight(f) => KindsRight(f)'
  BY <1>0 DEF KindsRight
<1> QED
  BY <1>1, <1>2, <1>3, <1>4, <1>5 DEF FileInv

\* Of a file that several have touched nothing is said.
LEMMA MixedFile ==
  ASSUME NEW f \in Files, author'[f] = Mixed
  PROVE  FileInv(f)'
<1>1. Mixed \in Authors /\ Mixed.kind # "load" /\ Mixed # Nobody
  <2>1. Mixed.kind = "mixed" /\ Nobody.kind = "nobody"
    BY DEF Mixed, Nobody
  <2> QED
    BY <2>1 DEF Authors
<1> QED
  BY <1>1 DEF FileInv

\* Who reads a file is in its author.
LEMMA AuthorOfReader ==
  ASSUME NEW f \in Files, FileInv(f), NEW l \in Loaders, Reads(l, f)
  PROVE  \/ author[f] = Mixed
         \/ author[f].kind = "load" /\ author[f] \in LoadAuthors
BY DEF FileInv, Untouched, Authors, LoadAuthors

\* A step of a loader in another file, or between files.
LEMMA LoaderElsewhere ==
  ASSUME LoadInv, NEW l \in Loaders, NEW f \in Files,
         \A k \in Loaders \ {l} : at'[k] = at[k] /\ pc'[k] = pc[k],
         ~Reads(l, f), ~Reads(l, f)', author'[f] = author[f],
         f \in DOMAIN metadata' <=> f \in DOMAIN metadata,
         f \in DOMAIN metadata => metadata'[f] = metadata[f],
         \A g, c, b \in Nat : Slot(f, g, c, b)' <=> Slot(f, g, c, b),
         \A g, c, b \in Nat :
           Slot(f, g, c, b) => entries'[<<f, g, c, b>>] = entries[<<f, g, c, b>>]
  PROVE  FileInv(f)'
<1>1. \A k \in Loaders : Reads(k, f)' <=> Reads(k, f)
  BY DEF Reads, InGroups, File
<1>2. \A k \in Loaders : Reads(k, f) => at'[k] = at[k] /\ pc'[k] = pc[k]
  OBVIOUS
<1>3. ContentsInv /\ FileInv(f)
  BY DEF LoadInv
<1> QED
  BY <1>1, <1>2, <1>3, OtherFile

\* A step of the one loader that reads a file.
LEMMA ReaderMoves ==
  ASSUME LoadInv, NEW l \in Loaders, NEW f \in Files,
         author[f].kind = "load", Reads(l, f), Reads(l, f)',
         \A k \in Loaders \ {l} : at'[k] = at[k] /\ pc'[k] = pc[k],
         at'[l].load = at[l].load, at'[l].content = at[l].content,
         metadata' = metadata,
         author'[f] \in Authors, author'[f].kind = "load",
         author'[f].load = author[f].load, author'[f].content = author[f].content,
         NEW group, group = at'[l].group, group \in Nat,
         \A g, c, b \in Nat : g > group => ~Slot(f, g, c, b)',
         \A c \in 1 .. Columns, b \in Nat : Slot(f, group, c, b)' <=> Stored(l, c, b)',
         \A info \in author'[f].infos : info.group < group,
         InfosExact(f)', KindsRight(f)',
         \A g \in 1 .. Len(author[f].content), c \in 1 .. Columns, b \in Nat :
           author'[f].whole /\ g < group
             => (Slot(f, g, c, b)' <=> b < author[f].content[g].batches)
  PROVE  FileInv(f)'
<1>1. OneReader(f)
  BY DEF LoadInv, FileInv
<1>2. \A k \in Loaders \ {l} : ~Reads(k, f) /\ ~Reads(k, f)'
  BY <1>1 DEF OneReader, Reads, InGroups, File
<1>3. f \notin DOMAIN metadata'
  BY <1>1 DEF OneReader
<1>4. OneReader(f)'
  <2>1. \A k, m \in Loaders : Reads(k, f)' /\ Reads(m, f)' => k = m
    BY <1>2
  <2>2. /\ at'[l].load = author'[f].load /\ at'[l].content = author'[f].content
        /\ \A info \in author'[f].infos : info.group < at'[l].group
    BY <1>1 DEF OneReader
  <2>3. (\A g, c, b \in Nat : g > at[l].group => ~Slot(f, g, c, b))'
    OBVIOUS
  <2>4. (\A c \in 1 .. Columns, b \in Nat : Slot(f, at[l].group, c, b) <=> Stored(l, c, b))'
    BY DEF Slot
  <2> QED
    BY <1>2, <1>3, <2>1, <2>2, <2>3, <2>4 DEF OneReader
<1>5. GroupsComplete(f)'
  BY <1>2 DEF GroupsComplete
<1>6. author'[f] # Nobody
  BY DEF Nobody
<1> QED
  BY <1>4, <1>5, <1>6 DEF FileInv

\* A row group counts its batches.
LEMMA BatchesAreNumbers ==
  ASSUME NEW content \in Contents
  PROVE  \A g \in 1 .. Len(content) : content[g].batches \in Nat
<1> SUFFICES ASSUME NEW g \in 1 .. Len(content) PROVE content[g].batches \in Nat
  OBVIOUS
<1>0. content \in Seq(RowGroups)
  BY ContentsAssumption
<1>1. PICK rowGroup \in RowGroups : rowGroup = content[g]
  BY <1>0
<1>2. rowGroup.batches \in BatchCounts
  BY DEF RowGroups
<1>3. rowGroup.batches \in Nat
  <2>1. \A n \in BatchCounts : n \in Nat
    <3>1. 0 .. 65535 \in SUBSET Nat
      BY SMT
    <3>2. BatchCounts \in SUBSET Nat
      BY <3>1, SMT DEF BatchCounts
    <3> QED
      BY <3>2
  <2> QED
    BY <1>2, <2>1
<1> QED
  BY <1>1, <1>3

\* What is known of a loader within a file.
LEMMA ReaderFacts ==
  ASSUME LoadInv, NEW l \in Loaders, InGroups(l)
  PROVE  /\ File(l) \in Files /\ Reads(l, File(l)) /\ FileInv(File(l))
         /\ at[l] \in CallRecord /\ at[l].todo # <<>> /\ pc[l] \in InFile /\ Within(l)
         /\ at[l].content \in Contents /\ at[l].content \in Seq(RowGroups)
         /\ \A g \in 1 .. Len(at[l].content) : at[l].content[g].batches \in Nat
         /\ at[l].group \in Nat /\ at[l].batch \in Nat /\ at[l].column \in Nat
<1>1. /\ at[l] \in CallRecord /\ at[l].todo # <<>> /\ at[l].content \in Contents
      /\ pc[l] \in InFile /\ Within(l)
  BY DEF LoadInv, ContentsInv, InGroups, InFile
<1>2. File(l) \in Files
  <2>1. at[l].todo \in Seq(Files)
    BY <1>1 DEF CallRecord
  <2> QED
    BY <1>1, <2>1 DEF File
<1>3. at[l].content \in Seq(RowGroups)
  BY <1>1, ContentsAssumption
<1>4. \A g \in 1 .. Len(at[l].content) : at[l].content[g].batches \in Nat
  BY <1>1, BatchesAreNumbers
<1>5. at[l].group \in Nat /\ at[l].batch \in Nat /\ at[l].column \in Nat
  BY <1>1 DEF CallRecord
<1> QED
  BY <1>1, <1>2, <1>3, <1>4, <1>5 DEF Reads, LoadInv

\* A loader that neither stores nor reports, nor leaves its row group.
LEMMA SameGroupMoves ==
  ASSUME LoadInv, NEW l \in Loaders, InGroups(l), InGroups(l)',
         \A k \in Loaders \ {l} : at'[k] = at[k] /\ pc'[k] = pc[k],
         at'[l].todo = at[l].todo, at'[l].load = at[l].load,
         at'[l].content = at[l].content, at'[l].group = at[l].group,
         UNCHANGED <<entries, metadata, author>>,
         \A c \in 1 .. Columns, b \in Nat : Stored(l, c, b)' <=> Stored(l, c, b)
  PROVE  \A f \in Files : FileInv(f)'
<1> SUFFICES ASSUME NEW f \in Files PROVE FileInv(f)'
  OBVIOUS
<1>1. File(l)' = File(l)
  BY DEF File
<1>2. CASE f # File(l)
  BY <1>1, <1>2, LoaderElsewhere DEF Reads, Slot
<1>3. CASE f = File(l)
  <2>1. Reads(l, f) /\ Reads(l, f)' /\ FileInv(f) /\ at[l].group \in Nat
    BY <1>1, <1>3, ReaderFacts DEF Reads
  <2>2. CASE author[f] = Mixed
    BY <2>2, MixedFile
  <2>3. CASE author[f].kind = "load" /\ author[f] \in LoadAuthors
    <3>1. OneReader(f) /\ InfosExact(f) /\ GroupsComplete(f) /\ KindsRight(f)
      BY <2>1, <2>3 DEF FileInv
    <3>2. PICK group : group = at[l].group
      OBVIOUS
    <3>3. InfosExact(f)' /\ KindsRight(f)'
      BY <3>1 DEF InfosExact, KindsRight, Slot
    <3>4. \A g, c, b \in Nat : g > group => ~Slot(f, g, c, b)'
      BY <2>1, <3>1, <3>2 DEF OneReader, Slot
    <3>5. \A c \in 1 .. Columns, b \in Nat : Slot(f, group, c, b)' <=> Stored(l, c, b)'
      BY <2>1, <3>1, <3>2 DEF OneReader, Slot
    <3>6. \A info \in author'[f].infos : info.group < group
      BY <2>1, <3>1, <3>2 DEF OneReader
    <3>7. ASSUME NEW g \in 1 .. Len(author[f].content), NEW c \in 1 .. Columns, NEW b \in Nat,
                 author'[f].whole, g < group
          PROVE  Slot(f, g, c, b)' <=> b < author[f].content[g].batches
      <4>1. \A k \in Loaders : Reads(k, f) => g < at[k].group
        BY <2>1, <3>1, <3>2, <3>7 DEF OneReader
      <4> QED
        BY <3>1, <3>7, <4>1 DEF GroupsComplete, Slot
    <3>8. author'[f] \in Authors /\ author'[f] = author[f]
      BY <2>3 DEF Authors
    <3> QED
      BY <2>1, <2>3, <3>2, <3>3, <3>4, <3>5, <3>6, <3>7, <3>8, ReaderMoves
  <2> QED
    BY <2>1, <2>2, <2>3, AuthorOfReader
<1> QED
  BY <1>2, <1>3

\* A loader that leaves its row group, with or without reporting it.
LEMMA NextGroupMoves ==
  ASSUME LoadInv, NEW l \in Loaders, InGroups(l), pc'[l] = "group",
         \A k \in Loaders \ {l} : at'[k] = at[k] /\ pc'[k] = pc[k],
         at'[l].todo = at[l].todo, at'[l].load = at[l].load,
         at'[l].content = at[l].content, at'[l].group = at[l].group + 1,
         UNCHANGED <<entries, metadata>>,
         \A f \in Files \ {File(l)} : author'[f] = author[f],
         NEW before, before = author[File(l)], NEW after, after = author'[File(l)],
         before = Mixed => after = Mixed,
         before \in LoadAuthors =>
           /\ after \in LoadAuthors /\ after.load = before.load /\ after.content = before.content
           /\ after.whole =>
                /\ before.whole
                /\ \A c \in 1 .. Columns, b \in Nat : Stored(l, c, b) <=> b < Group(l).batches
           /\ \A info \in after.infos :
                \/ info \in before.infos
                \/ /\ info.group = at[l].group
                   /\ \A c \in 1 .. Columns, b \in Nat : Stored(l, c, b) <=> b < info.batches
  PROVE  \A f \in Files : FileInv(f)'
<1> SUFFICES ASSUME NEW f \in Files PROVE FileInv(f)'
  OBVIOUS
<1>1. File(l)' = File(l) /\ InGroups(l)'
  BY DEF File, InGroups
<1>2. CASE f # File(l)
  BY <1>1, <1>2, LoaderElsewhere DEF Reads, Slot
<1>3. CASE f = File(l)
  <2>1. Reads(l, f) /\ Reads(l, f)' /\ FileInv(f) /\ at[l].group \in Nat
    BY <1>1, <1>3, ReaderFacts DEF Reads
  <2>2. CASE author[f] = Mixed
    BY <1>3, <2>2, MixedFile
  <2>3. CASE author[f].kind = "load" /\ author[f] \in LoadAuthors
    <3>1. OneReader(f) /\ InfosExact(f) /\ GroupsComplete(f) /\ KindsRight(f)
      BY <2>1, <2>3 DEF FileInv
    <3>2. PICK old, group : old = at[l].group /\ group = old + 1
      OBVIOUS
    <3>3. old \in Nat /\ group \in Nat /\ group = at'[l].group /\ old < group
      BY <2>1, <3>2
    <3>4. /\ \A g, c, b \in Nat : g > old => ~Slot(f, g, c, b)
          /\ \A c \in 1 .. Columns, b \in Nat : Slot(f, old, c, b) <=> Stored(l, c, b)
          /\ \A info \in before.infos : info.group < old
      BY <1>3, <2>1, <3>1, <3>2 DEF OneReader
    <3>5. KindsRight(f)'
      BY <3>1 DEF KindsRight, Slot
    <3>6. \A g, c, b \in Nat : g > group => ~Slot(f, g, c, b)'
      BY <3>3, <3>4 DEF Slot
    <3>7. \A c \in 1 .. Columns, b \in Nat : Slot(f, group, c, b)' <=> Stored(l, c, b)'
      <4>1. \A c \in 1 .. Columns, b \in Nat : ~Stored(l, c, b)'
        BY DEF Stored
      <4>2. \A c \in 1 .. Columns : c \in Nat
        BY ColumnsAssumption
      <4>3. group > old
        BY <3>3
      <4> QED
        BY <3>3, <3>4, <4>1, <4>2, <4>3 DEF Slot
    <3>8. /\ after \in LoadAuthors /\ after.load = before.load /\ after.content = before.content
          /\ after = author'[f] /\ before = author[f]
      BY <1>3, <2>3
    <3>9. ASSUME NEW info \in after.infos
          PROVE  /\ info.group < group
                 /\ \A c \in 1 .. Columns, b \in Nat : Slot(f, info.group, c, b) <=> b < info.batches
      <4>1. CASE info \in before.infos
        <5>1. info.group \in Nat /\ info.group < old
          BY <2>3, <3>4, <3>8, <4>1 DEF LoadAuthors
        <5>2. \A c \in 1 .. Columns, b \in Nat : Slot(f, info.group, c, b) <=> b < info.batches
          BY <3>1, <3>8, <4>1 DEF InfosExact
        <5> QED
          BY <3>3, <5>1, <5>2
      <4>2. CASE /\ info.group = at[l].group
                 /\ \A c \in 1 .. Columns, b \in Nat : Stored(l, c, b) <=> b < info.batches
        BY <3>2, <3>3, <3>4, <4>2
      <4> QED
        BY <2>3, <3>8, <4>1, <4>2
    <3>10. InfosExact(f)'
      BY <3>8, <3>9 DEF InfosExact, Slot
    <3>11. ASSUME NEW g \in 1 .. Len(author[f].content), NEW c \in 1 .. Columns, NEW b \in Nat,
                  author'[f].whole, g < group
           PROVE  Slot(f, g, c, b)' <=> b < author[f].content[g].batches
      <4>1. /\ before.whole
            /\ \A col \in 1 .. Columns, n \in Nat : Stored(l, col, n) <=> n < Group(l).batches
        BY <2>3, <3>8, <3>11
      <4>2. CASE g = old
        <5>1. Group(l) = author[f].content[g]
          BY <2>1, <3>1, <3>2, <4>2 DEF Group, OneReader
        <5> QED
          BY <3>4, <4>1, <4>2, <5>1 DEF Slot
      <4>3. CASE g < old
        <5>1. \A k \in Loaders : Reads(k, f) => g < at[k].group
          BY <2>1, <3>1, <3>2, <4>3 DEF OneReader
        <5> QED
          BY <3>1, <3>8, <4>1, <5>1 DEF GroupsComplete, Slot
      <4>4. g \in Int
        OBVIOUS
      <4> QED
        BY <3>2, <3>3, <3>11, <4>2, <4>3, <4>4
    <3>12. author'[f] \in Authors /\ author'[f].kind = "load"
      BY <3>8 DEF Authors, LoadAuthors
    <3>13. \A info \in author'[f].infos : info.group < group
      BY <3>8, <3>9
    <3>14. /\ author'[f].load = author[f].load /\ author'[f].content = author[f].content
           /\ metadata' = metadata
      BY <3>8
    <3>15. \A g \in 1 .. Len(author[f].content), c \in 1 .. Columns, b \in Nat :
             author'[f].whole /\ g < group
               => (Slot(f, g, c, b)' <=> b < author[f].content[g].batches)
      BY <3>11
    <3>16. /\ author[f].kind = "load" /\ Reads(l, f) /\ Reads(l, f)'
           /\ group = at'[l].group /\ group \in Nat
      BY <2>1, <2>3, <3>3
    <3> QED
      BY <3>5, <3>6, <3>7, <3>10, <3>12, <3>13, <3>14, <3>15, <3>16, ReaderMoves, ZenonT(60)
  <2> QED
    BY <2>1, <2>2, <2>3, AuthorOfReader
<1> QED
  BY <1>2, <1>3

\* A column is stored where the loader is.
LEMMA StoreColumnKeeps ==
  ASSUME LoadInv, NEW l \in Loaders, StoreColumn(l)
  PROVE  \A f \in Files : FileInv(f)'
<1> SUFFICES ASSUME NEW f \in Files PROVE FileInv(f)'
  OBVIOUS
<1> PICK group, column, batch : group = at[l].group /\ column = at[l].column /\ batch = at[l].batch
  OBVIOUS
<1>1. /\ pc[l] = "column" /\ InGroups(l)
      /\ \A k \in Loaders \ {l} : at'[k] = at[k] /\ pc'[k] = pc[k]
      /\ metadata' = metadata /\ author' = author
      /\ pc' = [pc EXCEPT ![l] = IF column = Columns THEN "batch" ELSE "column"]
      /\ entries' = SetAt(entries, <<File(l), group, column, batch>>, [liquid |-> column \notin Plain])
      /\ at' = IF column = Columns THEN [at EXCEPT ![l].batch = batch + 1]
                                   ELSE [at EXCEPT ![l].column = column + 1]
  BY DEF StoreColumn, InGroups, LoadInv, ContentsInv, Goto
<1>2. /\ pc'[l] = (IF column = Columns THEN "batch" ELSE "column")
      /\ at'[l].todo = at[l].todo /\ at'[l].load = at[l].load
      /\ at'[l].content = at[l].content /\ at'[l].group = group
      /\ column = Columns => at'[l].batch = batch + 1
      /\ column # Columns => at'[l].batch = batch /\ at'[l].column = column + 1
  <2>1. at \in [Loaders -> CallRecord] /\ pc \in [Loaders -> Places] /\ at[l] \in CallRecord
    BY DEF LoadInv, ContentsInv, Places
  <2> QED
    BY <1>1, <2>1 DEF CallRecord
<1> PICK file, value : file = File(l) /\ value = [liquid |-> column \notin Plain]
  OBVIOUS
<1>6. \A f2, g2, c2, b2 :
        LET same == f2 = file /\ g2 = group /\ c2 = column /\ b2 = batch
        IN  /\ Slot(f2, g2, c2, b2)' <=> (same \/ Slot(f2, g2, c2, b2))
            /\ same => entries'[<<f2, g2, c2, b2>>] = value
            /\ Slot(f2, g2, c2, b2) /\ ~same
                 => entries'[<<f2, g2, c2, b2>>] = entries[<<f2, g2, c2, b2>>]
  <2>1. entries' = SetAt(entries, <<file, group, column, batch>>, value)
    BY <1>1
  <2> QED
    BY <2>1 DEF SetAt, Slot
<1>3. File(l)' = File(l) /\ InGroups(l)'
  BY <1>2 DEF File, InGroups
<1>4. CASE f # File(l)
  <2>1. ~Reads(l, f) /\ ~Reads(l, f)'
    BY <1>3, <1>4 DEF Reads
  <2>2. /\ \A g, c, b \in Nat : Slot(f, g, c, b)' <=> Slot(f, g, c, b)
        /\ \A g, c, b \in Nat :
             Slot(f, g, c, b) => entries'[<<f, g, c, b>>] = entries[<<f, g, c, b>>]
    BY <1>4, <1>6
  <2> QED
    BY <1>1, <2>1, <2>2, LoaderElsewhere
<1>5. CASE f = File(l)
  <2>1. /\ Reads(l, f) /\ Reads(l, f)' /\ FileInv(f) /\ Within(l)
        /\ group \in Nat /\ column \in 1 .. Columns /\ batch \in Nat /\ Columns \in Nat
    BY <1>1, <1>3, <1>5, ReaderFacts, ColumnsAssumption DEF Reads, Within
  <2>2. CASE author[f] = Mixed
    BY <1>1, <2>2, MixedFile
  <2>3. CASE author[f].kind = "load" /\ author[f] \in LoadAuthors
    <3>1. OneReader(f) /\ InfosExact(f) /\ GroupsComplete(f) /\ KindsRight(f)
      BY <2>1, <2>3 DEF FileInv
    <3>2. /\ \A g, c, b \in Nat : g > group => ~Slot(f, g, c, b)
          /\ \A c \in 1 .. Columns, b \in Nat : Slot(f, group, c, b) <=> Stored(l, c, b)
          /\ \A info \in author[f].infos : info.group < group
      BY <2>1, <3>1 DEF OneReader
    <3>3. \A g, c, b : g # group => (Slot(f, g, c, b)' <=> Slot(f, g, c, b))
      BY <1>6
    <3>4. \A c, b : Slot(f, group, c, b)' <=> Slot(f, group, c, b) \/ (c = column /\ b = batch)
      BY <1>5, <1>6
    <3>5. \A g, c, b \in Nat : g > group => ~Slot(f, g, c, b)'
      BY <2>1, <3>2, <3>3
    <3>6. ASSUME NEW c \in 1 .. Columns, NEW b \in Nat
          PROVE  Slot(f, group, c, b)' <=> Stored(l, c, b)'
      <4>1. Stored(l, c, b) <=> b < batch \/ (b = batch /\ c < column)
        BY <1>1 DEF Stored
      <4>2. CASE column = Columns
        <5>1. Stored(l, c, b)' <=> b < batch + 1
          BY <1>2, <4>2 DEF Stored
        <5>2. b < batch + 1 <=> b < batch \/ b = batch
          BY <2>1
        <5>3. c < column \/ c = column
          BY <2>1, <4>2
        <5> QED
          BY <3>2, <3>4, <4>1, <5>1, <5>2, <5>3
      <4>3. CASE column # Columns
        <5>1. Stored(l, c, b)' <=> b < batch \/ (b = batch /\ c < column + 1)
          BY <1>2, <4>3 DEF Stored
        <5>2. c < column + 1 <=> c < column \/ c = column
          BY <2>1
        <5> QED
          BY <3>2, <3>4, <4>1, <5>1, <5>2
      <4> QED
        BY <4>2, <4>3
    <3>7. InfosExact(f)'
      <4> SUFFICES ASSUME NEW info \in author[f].infos, NEW c \in 1 .. Columns, NEW b \in Nat
                   PROVE  Slot(f, info.group, c, b)' <=> b < info.batches
        BY <1>1 DEF InfosExact, Slot
      <4>1. info.group \in Nat /\ info.group < group /\ info.group # group
        BY <2>1, <2>3, <3>2 DEF LoadAuthors
      <4>2. Slot(f, info.group, c, b) <=> b < info.batches
        BY <3>1 DEF InfosExact
      <4> QED
        BY <3>3, <4>1, <4>2
    <3>8. KindsRight(f)'
      <4> SUFFICES ASSUME NEW g \in Nat, NEW c \in 1 .. Columns, NEW b \in Nat, Slot(f, g, c, b)'
                   PROVE  entries'[<<f, g, c, b>>].liquid = (c \notin Plain)
        BY DEF KindsRight
      <4>1. CASE g = group /\ c = column /\ b = batch
        <5>1. entries'[<<f, g, c, b>>] = [liquid |-> column \notin Plain]
          BY <1>5, <1>6, <4>1
        <5> QED
          BY <4>1, <5>1
      <4>2. CASE ~(g = group /\ c = column /\ b = batch)
        <5>1. Slot(f, g, c, b) /\ entries'[<<f, g, c, b>>] = entries[<<f, g, c, b>>]
          BY <1>5, <1>6, <4>2
        <5> QED
          BY <3>1, <5>1 DEF KindsRight
      <4> QED
        BY <4>1, <4>2
    <3>9. ASSUME NEW g \in 1 .. Len(author[f].content), NEW c \in 1 .. Columns, NEW b \in Nat,
                 author'[f].whole, g < group
          PROVE  Slot(f, g, c, b)' <=> b < author[f].content[g].batches
      <4>1. \A k \in Loaders : Reads(k, f) => g < at[k].group
        BY <2>1, <3>1, <3>9 DEF OneReader
      <4>2. g \in Int /\ g # group
        BY <2>1, <3>9
      <4>3. Slot(f, g, c, b) <=> b < author[f].content[g].batches
        BY <1>1, <3>1, <3>9, <4>1 DEF GroupsComplete
      <4> QED
        BY <3>3, <4>2, <4>3
    <3>10. author'[f] = author[f] /\ author'[f] \in Authors
      BY <1>1, <2>3 DEF Authors
    <3>11. \A info \in author'[f].infos : info.group < group
      BY <3>2, <3>10
    <3>12. \A g \in 1 .. Len(author[f].content), c \in 1 .. Columns, b \in Nat :
             author'[f].whole /\ g < group
               => (Slot(f, g, c, b)' <=> b < author[f].content[g].batches)
      BY <3>9
    <3> QED
      BY <1>1, <1>2, <2>1, <2>3, <3>5, <3>6, <3>7, <3>8, <3>10, <3>11, <3>12, ReaderMoves
  <2> QED
    BY <2>1, <2>2, <2>3, AuthorOfReader
<1> QED
  BY <1>4, <1>5

\* A loader that records its file has read all of it, and leaves it.
LEMMA RecordMetadataKeeps ==
  ASSUME LoadInv, NEW l \in Loaders, RecordMetadata(l)
  PROVE  \A f \in Files : FileInv(f)'
<1> SUFFICES ASSUME NEW f \in Files PROVE FileInv(f)'
  OBVIOUS
<1> PICK file, content : file = File(l) /\ content = at[l].content
  OBVIOUS
<1>1. /\ pc[l] = "metadata" /\ InGroups(l)
      /\ \A k \in Loaders \ {l} : at'[k] = at[k] /\ pc'[k] = pc[k]
      /\ author' = author /\ entries' = entries /\ ~InGroups(l)'
      /\ metadata' = SetAt(metadata, file, content)
  BY DEF RecordMetadata, InGroups, LoadInv, ContentsInv, Goto
<1>2. /\ f \in DOMAIN metadata' <=> f = file \/ f \in DOMAIN metadata
      /\ f = file => metadata'[f] = content
      /\ f # file /\ f \in DOMAIN metadata => metadata'[f] = metadata[f]
  BY <1>1 DEF SetAt
<1>3. CASE f # file
  <2>1. ~Reads(l, f) /\ ~Reads(l, f)'
    BY <1>1, <1>3 DEF Reads
  <2> QED
    BY <1>1, <1>2, <1>3, <2>1, LoaderElsewhere DEF Slot
<1>4. CASE f = file
  <2>1. Reads(l, f) /\ FileInv(f) /\ Within(l) /\ at[l].group \in Nat
    BY <1>1, <1>4, ReaderFacts
  <2>2. CASE author[f] = Mixed
    BY <1>1, <2>2, MixedFile
  <2>3. CASE author[f].kind = "load" /\ author[f] \in LoadAuthors
    <3>1. OneReader(f) /\ InfosExact(f) /\ GroupsComplete(f) /\ KindsRight(f)
      BY <2>1, <2>3 DEF FileInv
    <3>2. \A k \in Loaders : ~Reads(k, f)'
      BY <1>1, <2>1, <3>1 DEF OneReader, Reads, InGroups, File
    <3>3. content = author[f].content
      BY <2>1, <3>1 DEF OneReader
    <3>4. OneReader(f)'
      BY <1>1, <1>2, <1>4, <3>2, <3>3 DEF OneReader
    <3>5. InfosExact(f)' /\ KindsRight(f)'
      BY <1>1, <3>1 DEF InfosExact, KindsRight, Slot
    <3>6. GroupsComplete(f)'
      <4>1. at[l].group > Len(content)
        BY <1>1, <2>1 DEF Within
      <4>2. ASSUME NEW g \in 1 .. Len(content), NEW k \in Loaders, Reads(k, f)
            PROVE  g < at[k].group
        <5>1. k = l
          BY <2>1, <3>1, <4>2 DEF OneReader
        <5>2. content \in Seq(RowGroups)
          BY <1>1, ReaderFacts
        <5>3. Len(content) \in Nat /\ g <= Len(content) /\ g \in Int
          BY <5>2
        <5> QED
          BY <2>1, <4>1, <5>1, <5>3
      <4> QED
        BY <1>1, <3>1, <3>3, <4>2 DEF GroupsComplete, Slot
    <3>7. author'[f] \in Authors /\ author'[f] # Nobody
      BY <1>1, <2>3 DEF Authors, Nobody
    <3> QED
      BY <3>4, <3>5, <3>6, <3>7 DEF FileInv
  <2> QED
    BY <2>1, <2>2, <2>3, AuthorOfReader
<1> QED
  BY <1>3, <1>4

\* Of a file nothing was cached of, the loader that opens it is the author.
LEMMA OpenFileKeeps ==
  ASSUME LoadInv, NEW l \in Loaders, OpenFile(l)
  PROVE  \A f \in Files : FileInv(f)'
<1> SUFFICES ASSUME NEW f \in Files PROVE FileInv(f)'
  OBVIOUS
<1> PICK file, content : file = File(l) /\ content = disk[file]
  OBVIOUS
<1>0. /\ at[l] \in CallRecord /\ at[l].todo # <<>> /\ at[l].todo \in Seq(Files)
      /\ at \in [Loaders -> CallRecord] /\ pc \in [Loaders -> Places]
  BY DEF OpenFile, LoadInv, ContentsInv, CallRecord, Places
<1>1. /\ pc[l] = "file" /\ ~InGroups(l) /\ pc'[l] = "group" /\ InGroups(l)'
      /\ \A k \in Loaders \ {l} : at'[k] = at[k] /\ pc'[k] = pc[k]
      /\ entries' = entries /\ metadata' = metadata
      /\ author' = [author EXCEPT ![file] = IF author[file] = Nobody THEN ReadBy(at[l].load, content) ELSE Mixed]
  BY <1>0 DEF OpenFile, InGroups, Goto
<1>2. /\ at'[l].todo = at[l].todo /\ at'[l].load = at[l].load
      /\ at'[l].content = content /\ at'[l].group = 1 /\ File(l)' = file
  BY <1>0 DEF OpenFile, CallRecord, File
<1>3. file \in Files /\ content \in Contents /\ at[l].load \in Nat /\ author \in [Files -> Authors]
  <2>1. file \in Files
    BY <1>0 DEF File
  <2> QED
    BY <1>0, <2>1 DEF CallRecord, LoadInv, ContentsInv
<1>4. CASE f # file
  <2>1. ~Reads(l, f) /\ ~Reads(l, f)'
    BY <1>1, <1>2, <1>4 DEF Reads
  <2> QED
    BY <1>1, <1>3, <1>4, <2>1, LoaderElsewhere DEF Slot
<1>5. CASE f = file /\ author[f] # Nobody
  BY <1>1, <1>3, <1>5, MixedFile
<1>6. CASE f = file /\ author[f] = Nobody
  <2>1. Untouched(f)
    BY <1>6 DEF LoadInv, FileInv
  <2>2. author'[f] = ReadBy(at[l].load, content)
    BY <1>1, <1>3, <1>6
  <2>3. author'[f] = [kind |-> "load", load |-> at[l].load, content |-> content,
                      whole |-> TRUE, infos |-> {}]
    BY <2>2 DEF ReadBy
  <2>4. author'[f] \in LoadAuthors
    BY <1>3, <2>3 DEF LoadAuthors
  <2>5. author'[f] \in Authors /\ author'[f] # Nobody
    BY <2>3, <2>4 DEF Authors, Nobody
  <2>6. \A k \in Loaders : Reads(k, f)' <=> k = l
    BY <1>1, <1>2, <1>6, <2>1 DEF Untouched, Reads, InGroups, File
  <2>7. \A g, c, b \in Nat : ~Slot(f, g, c, b)'
    BY <1>1, <2>1 DEF Untouched, Slot
  <2>8. \A c \in 1 .. Columns : c \in Nat
    BY ColumnsAssumption
  <2>9. OneReader(f)'
    <3>1. (\A c \in 1 .. Columns, b \in Nat : Slot(f, at[l].group, c, b) <=> Stored(l, c, b))'
      <4>1. \A c, b : ~Stored(l, c, b)'
        BY <1>1 DEF Stored
      <4> QED
        BY <1>2, <2>7, <2>8, <4>1 DEF Slot
    <3>2. f \notin DOMAIN metadata'
      BY <1>1, <2>1 DEF Untouched
    <3> QED
      BY <1>2, <2>3, <2>6, <2>7, <3>1, <3>2 DEF OneReader
  <2>10. InfosExact(f)'
    BY <2>3 DEF InfosExact
  <2>11. GroupsComplete(f)'
    BY <1>2, <2>6 DEF GroupsComplete
  <2>12. KindsRight(f)'
    BY <2>7, <2>8 DEF KindsRight
  <2> QED
    BY <2>5, <2>9, <2>10, <2>11, <2>12 DEF FileInv
<1> QED
  BY <1>4, <1>5, <1>6

\* Between two files a loader does nothing to either.
LEMMA BetweenFilesKeeps ==
  ASSUME LoadInv, NEW l \in Loaders,
         SkipFile(l) \/ Return(l) \/ \E files \in Calls : Call(l, files)
  PROVE  \A f \in Files : FileInv(f)'
<1>1. /\ ~InGroups(l) /\ ~InGroups(l)'
      /\ \A k \in Loaders \ {l} : at'[k] = at[k] /\ pc'[k] = pc[k]
      /\ UNCHANGED <<entries, metadata, author>>
  BY DEF SkipFile, Return, Call, InGroups, Goto, LoadInv, ContentsInv
<1> QED
  BY <1>1, LoaderElsewhere DEF Reads, Slot

\* A loader moves on within its row group and stores nothing.
LEMMA SameGroupKeeps ==
  ASSUME LoadInv, NEW l \in Loaders, OpenGroup(l) \/ LastGroup(l) \/ ReadNext(l)
  PROVE  \A f \in Files : FileInv(f)'
<1>1. /\ InGroups(l) /\ at[l] \in CallRecord /\ at \in [Loaders -> CallRecord]
      /\ pc \in [Loaders -> Places]
  BY DEF OpenGroup, LastGroup, ReadNext, InGroups, LoadInv, ContentsInv, Places
<1>2. /\ InGroups(l)'
      /\ \A k \in Loaders \ {l} : at'[k] = at[k] /\ pc'[k] = pc[k]
      /\ at'[l].todo = at[l].todo /\ at'[l].load = at[l].load
      /\ at'[l].content = at[l].content /\ at'[l].group = at[l].group
      /\ UNCHANGED <<entries, metadata, author>>
  BY <1>1 DEF OpenGroup, LastGroup, ReadNext, InGroups, Goto, CallRecord
<1>3. ASSUME NEW c \in 1 .. Columns, NEW b \in Nat
      PROVE  Stored(l, c, b)' <=> Stored(l, c, b)
  <2>1. CASE OpenGroup(l)
    BY <1>1, <2>1 DEF OpenGroup, Stored, Goto, CallRecord
  <2>2. CASE LastGroup(l)
    BY <1>1, <2>2 DEF LastGroup, Stored, Goto
  <2>3. CASE ReadNext(l)
    BY <1>1, <2>3 DEF ReadNext, Stored, Goto, CallRecord
  <2> QED
    BY <2>1, <2>2, <2>3
<1> QED
  BY <1>1, <1>2, <1>3, SameGroupMoves

\* A loader leaves a row group that failed or that it has read.
LEMMA NextGroupKeeps ==
  ASSUME LoadInv, NEW l \in Loaders, SkipGroup(l) \/ EndGroup(l)
  PROVE  \A f \in Files : FileInv(f)'
<1> PICK file, before, after, group, batch :
      /\ file = File(l) /\ before = author[file] /\ after = author'[file]
      /\ group = at[l].group /\ batch = at[l].batch
  OBVIOUS
<1>1. /\ InGroups(l) /\ at[l] \in CallRecord /\ at \in [Loaders -> CallRecord]
      /\ pc \in [Loaders -> Places] /\ author \in [Files -> Authors]
  BY DEF SkipGroup, EndGroup, InGroups, LoadInv, ContentsInv, Places
<1>2. /\ pc'[l] = "group"
      /\ \A k \in Loaders \ {l} : at'[k] = at[k] /\ pc'[k] = pc[k]
      /\ at'[l].todo = at[l].todo /\ at'[l].load = at[l].load
      /\ at'[l].content = at[l].content /\ at'[l].group = at[l].group + 1
      /\ UNCHANGED <<entries, metadata>>
  BY <1>1 DEF SkipGroup, EndGroup, Goto, CallRecord
<1>3. /\ file \in Files /\ Reads(l, file) /\ FileInv(file) /\ Within(l)
      /\ group \in Nat /\ batch \in Nat
  BY <1>1, ReaderFacts
<1>4. before = Mixed => after = Mixed /\ author' = author
  <2>1. Mixed.kind # "load"
    BY DEF Mixed
  <2> QED
    BY <2>1 DEF SkipGroup, EndGroup, Failed, Reported, OwnsFile
<1>5. ASSUME before \in LoadAuthors
      PROVE  /\ \A f \in Files \ {file} : author'[f] = author[f]
             /\ after \in LoadAuthors /\ after.load = before.load /\ after.content = before.content
             /\ after.whole =>
                  /\ before.whole
                  /\ \A c \in 1 .. Columns, b \in Nat : Stored(l, c, b) <=> b < Group(l).batches
             /\ \A info \in after.infos :
                  \/ info \in before.infos
                  \/ /\ info.group = group
                     /\ \A c \in 1 .. Columns, b \in Nat : Stored(l, c, b) <=> b < info.batches
  <2>1. before.kind = "load" /\ OwnsFile(l)
    <3>1. before.kind = "load"
      BY <1>5 DEF LoadAuthors
    <3>2. OneReader(file)
      BY <1>3, <3>1 DEF FileInv
    <3> QED
      BY <1>3, <3>1, <3>2 DEF OneReader, OwnsFile
  <2>2. CASE SkipGroup(l)
    <3>1. author' = [author EXCEPT ![file].whole = FALSE]
      BY <2>1, <2>2 DEF SkipGroup, Failed
    <3>2. after = [before EXCEPT !.whole = FALSE]
      BY <1>1, <1>3, <3>1
    <3>3. after \in LoadAuthors /\ after.whole = FALSE /\ after.infos = before.infos
          /\ after.load = before.load /\ after.content = before.content
      BY <1>5, <3>2 DEF LoadAuthors
    <3> QED
      BY <1>1, <3>1, <3>3
  <2>3. CASE EndGroup(l)
    <3> DEFINE info == [group |-> group, batches |-> batch]
    <3>1. \A c \in 1 .. Columns, b \in Nat : Stored(l, c, b) <=> b < batch
      BY <2>3 DEF EndGroup, Stored
    <3>2. CASE batch < Group(l).batches
      <4> PICK who, mid : who = Failed(l, author) /\ mid = who[file]
        OBVIOUS
      <4>1. who = [author EXCEPT ![file].whole = FALSE]
        BY <2>1 DEF Failed
      <4>2. /\ mid = [before EXCEPT !.whole = FALSE] /\ file \in DOMAIN who
            /\ \A f \in Files \ {file} : who[f] = author[f]
        BY <1>1, <1>3, <4>1
      <4>3. author' = [who EXCEPT ![file].infos = mid.infos \cup {info}]
        BY <2>1, <2>3, <3>2 DEF EndGroup, Reported
      <4>4. after = [mid EXCEPT !.infos = mid.infos \cup {info}]
        BY <4>2, <4>3
      <4>5. /\ mid \in LoadAuthors /\ mid.whole = FALSE /\ mid.infos = before.infos
            /\ mid.load = before.load /\ mid.content = before.content
        BY <1>5, <4>2 DEF LoadAuthors
      <4>6. /\ after \in LoadAuthors /\ after.whole = FALSE
            /\ after.infos = before.infos \cup {info}
            /\ after.load = before.load /\ after.content = before.content
        BY <1>3, <4>4, <4>5 DEF LoadAuthors
      <4>7. \A f \in Files \ {file} : author'[f] = author[f]
        BY <4>2, <4>3
      <4> QED
        BY <3>1, <4>6, <4>7
    <3>3. CASE ~(batch < Group(l).batches)
      <4>1. author' = [author EXCEPT ![file].infos = @ \cup {info}]
        BY <2>1, <2>3, <3>3 DEF EndGroup, Reported
      <4>2. after = [before EXCEPT !.infos = before.infos \cup {info}]
        BY <1>1, <1>3, <1>5, <4>1 DEF LoadAuthors
      <4>3. /\ after \in LoadAuthors /\ after.whole = before.whole
            /\ after.infos = before.infos \cup {info}
            /\ after.load = before.load /\ after.content = before.content
        BY <1>3, <1>5, <4>2 DEF LoadAuthors
      <4>4. \A f \in Files \ {file} : author'[f] = author[f]
        BY <1>1, <4>1
      <4>5. batch = Group(l).batches
        <5>1. at[l].group <= Len(at[l].content) /\ batch <= Group(l).batches
          BY <1>3, <2>3 DEF EndGroup, Within
        <5>2. at[l].group \in 1 .. Len(at[l].content)
          <6>1. PICK len : len = Len(at[l].content)
            OBVIOUS
          <6>2. len \in Nat
            BY <1>1, <6>1, ReaderFacts
          <6>3. group >= 1 /\ group <= len
            BY <1>3, <5>1, <6>1 DEF Within
          <6>4. group \in 1 .. len
            BY <1>3, <6>2, <6>3
          <6> QED
            BY <6>1, <6>4
        <5>3. Group(l).batches \in Nat
          BY <1>1, <5>2, ReaderFacts DEF Group
        <5> QED
          BY <1>3, <3>3, <5>1, <5>3
      <4> QED
        BY <3>1, <4>3, <4>4, <4>5
    <3> QED
      BY <3>2, <3>3
  <2> QED
    BY <2>2, <2>3
<1>6. before = Mixed \/ before \in LoadAuthors
  BY <1>3, AuthorOfReader
<1>7. \A f \in Files \ {File(l)} : author'[f] = author[f]
  BY <1>4, <1>5, <1>6
<1> QED
  BY <1>1, <1>2, <1>4, <1>5, <1>7, NextGroupMoves

\* Steps that move no loader.
LEMMA UndisturbedFile ==
  ASSUME LoadInv, NEW f \in Files, UNCHANGED <<pc, at, metadata>>, author'[f] = author[f],
         \A g, c, b \in Nat : Slot(f, g, c, b)' <=> Slot(f, g, c, b),
         \A g, c, b \in Nat :
           Slot(f, g, c, b) => entries'[<<f, g, c, b>>] = entries[<<f, g, c, b>>]
  PROVE  FileInv(f)'
<1>1. \A l \in Loaders : Reads(l, f)' <=> Reads(l, f)
  BY DEF Reads, InGroups, File
<1>2. ContentsInv /\ FileInv(f)
  BY DEF LoadInv
<1> QED
  BY <1>1, <1>2, OtherFile

\* Clients make the author of what they insert or evict a mixture.
LEMMA ClientsKeep ==
  ASSUME LoadInv,
         \/ \E key \in Inserted, liquid \in BOOLEAN : Insert(key, liquid)
         \/ \E key \in tracked : Evict(key)
  PROVE  \A f \in Files : FileInv(f)'
<1> SUFFICES ASSUME NEW f \in Files PROVE FileInv(f)'
  OBVIOUS
<1>1. PICK key, value :
        /\ key \in Inserted \cup tracked
        /\ UNCHANGED <<pc, at, metadata>> /\ author' = [author EXCEPT ![key[1]] = Mixed]
        /\ \/ entries' = SetAt(entries, key, value)
           \/ entries' = Restrict(entries, DOMAIN entries \ {key})
  BY DEF Insert, Evict
<1>2. author \in [Files -> Authors]
  BY DEF LoadInv
<1>3. CASE key[1] = f
  BY <1>1, <1>2, <1>3, MixedFile
<1>4. CASE key[1] # f
  <2>1. \A g, c, b \in Nat : <<f, g, c, b>> # key
    BY <1>4
  <2>2. /\ \A g, c, b \in Nat : Slot(f, g, c, b)' <=> Slot(f, g, c, b)
        /\ \A g, c, b \in Nat :
             Slot(f, g, c, b) => entries'[<<f, g, c, b>>] = entries[<<f, g, c, b>>]
    BY <1>1, <2>1 DEF Slot, SetAt, Restrict
  <2>3. author'[f] = author[f]
    BY <1>1, <1>2, <1>4
  <2> QED
    BY <1>1, <2>2, <2>3, UndisturbedFile
<1> QED
  BY <1>3, <1>4

\* After clear nothing is cached of a file nobody is reading.
LEMMA ClearKeeps ==
  ASSUME LoadInv, Clear
  PROVE  \A f \in Files : FileInv(f)'
<1> SUFFICES ASSUME NEW f \in Files PROVE FileInv(f)'
  OBVIOUS
<1>1. CASE \E l \in Loaders : InGroups(l) /\ File(l) = f
  <2>1. author'[f] = Mixed
    BY <1>1 DEF Clear
  <2> QED
    BY <2>1, MixedFile
<1>2. CASE ~\E l \in Loaders : InGroups(l) /\ File(l) = f
  <2>1. author'[f] = Nobody
    BY <1>2 DEF Clear
  <2>2. Untouched(f)'
    BY <1>2 DEF Clear, Untouched, Reads, InGroups, File, Slot
  <2>3. Nobody \in Authors /\ Nobody.kind # "load"
    BY DEF Authors, Nobody
  <2> QED
    BY <2>1, <2>2, <2>3 DEF FileInv
<1> QED
  BY <1>1, <1>2

\* Every step keeps what is known of the files.
LEMMA FilesKeep ==
  ASSUME LoadInv, [Next]_vars
  PROVE  \A f \in Files : FileInv(f)'
<1>1. ASSUME NEW l \in Loaders, LoaderStep(l) PROVE \A f \in Files : FileInv(f)'
  <2>1. CASE OpenGroup(l) \/ LastGroup(l) \/ ReadNext(l)
    BY <2>1, SameGroupKeeps
  <2>2. CASE SkipGroup(l) \/ EndGroup(l)
    BY <2>2, NextGroupKeeps
  <2>3. CASE SkipFile(l) \/ Return(l)
    BY <2>3, BetweenFilesKeeps
  <2> QED
    BY <1>1, <2>1, <2>2, <2>3, OpenFileKeeps, StoreColumnKeeps, RecordMetadataKeeps DEF LoaderStep
<1>2. ASSUME NEW l \in Loaders, NEW files \in Calls, Call(l, files)
      PROVE  \A f \in Files : FileInv(f)'
  BY <1>2, BetweenFilesKeeps
<1>3. CASE \/ \E f \in Files, content \in Contents : Rewrite(f, content)
           \/ UNCHANGED vars
  <2>1. UNCHANGED <<pc, at, metadata, author, entries>>
    BY <1>3 DEF Rewrite, vars
  <2> QED
    BY <2>1, UndisturbedFile DEF Slot
<1> QED
  BY <1>1, <1>2, <1>3, ClientsKeep, ClearKeeps DEF Next

\* Loaders stay within their contents.
LEMMA WithinKeeps ==
  ASSUME LoadInv, [Next]_vars
  PROVE  \A l \in Loaders : (InGroups(l) => Within(l))'
<1> SUFFICES ASSUME NEW l \in Loaders, InGroups(l)' PROVE Within(l)'
  OBVIOUS
<1>0. /\ at[l] \in CallRecord /\ at \in [Loaders -> CallRecord]
      /\ pc \in [Loaders -> Places]
  BY DEF LoadInv, ContentsInv, Places
<1>1. CASE at'[l] = at[l] /\ pc'[l] = pc[l]
  BY <1>1 DEF LoadInv, InGroups, Within, Group
<1>2. CASE OpenFile(l)
  BY <1>0, <1>2 DEF OpenFile, Goto, Within, CallRecord
<1>3. CASE OpenGroup(l) \/ SkipGroup(l) \/ LastGroup(l) \/ ReadNext(l) \/ EndGroup(l) \/ StoreColumn(l)
  <2> PICK group, batch, column, content, len :
        /\ group = at[l].group /\ batch = at[l].batch /\ column = at[l].column
        /\ content = at[l].content /\ len = Len(content)
    OBVIOUS
  <2>1. InGroups(l)
    BY <1>3 DEF OpenGroup, SkipGroup, LastGroup, ReadNext, EndGroup, StoreColumn, InGroups
  <2>2. /\ Within(l) /\ group \in Nat /\ batch \in Nat /\ column \in Nat /\ len \in Nat
        /\ group >= 1 /\ \A g \in 1 .. len : content[g].batches \in Nat
    BY <2>1, ReaderFacts DEF Within
  <2>3. CASE OpenGroup(l)
    <3>1. pc'[l] = "batch" /\ at'[l].group = group /\ at'[l].batch = 0 /\ at'[l].content = content
      BY <1>0, <2>3 DEF OpenGroup, Goto, CallRecord
    <3>2. group <= len
      BY <2>3 DEF OpenGroup
    <3>3. group \in 1 .. len /\ 0 <= content[group].batches
      BY <2>2, <3>2
    <3> QED
      BY <2>2, <3>1, <3>2, <3>3 DEF Within, Group
  <2>4. CASE SkipGroup(l)
    <3>1. pc'[l] = "group" /\ at'[l].group = group + 1
      BY <1>0, <2>4 DEF SkipGroup, CallRecord
    <3> QED
      BY <2>2, <3>1 DEF Within
  <2>5. CASE LastGroup(l)
    <3>1. pc'[l] = "metadata" /\ at'[l] = at[l] /\ group > len
      BY <1>0, <2>5 DEF LastGroup, Goto
    <3> QED
      BY <2>2, <3>1 DEF Within
  <2>6. CASE ReadNext(l)
    <3>1. /\ pc'[l] = "column" /\ at'[l].group = group /\ at'[l].batch = batch
          /\ at'[l].content = content /\ at'[l].column = 1
          /\ pc[l] = "batch" /\ batch < content[group].batches
      BY <1>0, <2>6 DEF ReadNext, Goto, CallRecord, Group
    <3>2. group <= len /\ batch <= content[group].batches
      BY <2>2, <3>1 DEF Within, Group
    <3> QED
      BY <2>2, <3>1, <3>2, ColumnsAssumption DEF Within, Group
  <2>7. CASE EndGroup(l)
    <3>1. pc'[l] = "group" /\ at'[l].group = group + 1
      BY <1>0, <2>7 DEF EndGroup, Goto, CallRecord
    <3> QED
      BY <2>2, <3>1 DEF Within
  <2>8. CASE StoreColumn(l)
    <3>1. /\ at'[l].group = group /\ at'[l].content = content /\ pc[l] = "column"
          /\ column = Columns => pc'[l] = "batch" /\ at'[l].batch = batch + 1
          /\ column # Columns => /\ pc'[l] = "column" /\ at'[l].batch = batch
                                /\ at'[l].column = column + 1
      BY <1>0, <2>8 DEF StoreColumn, Goto, CallRecord
    <3>2. group <= len /\ column \in 1 .. Columns /\ batch < content[group].batches
      BY <2>2, <3>1 DEF Within, Group
    <3>3. group \in 1 .. len /\ content[group].batches \in Nat
      BY <2>2, <3>2
    <3>4. batch + 1 <= content[group].batches /\ batch <= content[group].batches
      BY <2>2, <3>2, <3>3
    <3>5. column # Columns => column + 1 \in 1 .. Columns
      BY <3>2, ColumnsAssumption
    <3> QED
      BY <2>2, <3>1, <3>2, <3>4, <3>5 DEF Within, Group
  <2> QED
    BY <1>3, <2>3, <2>4, <2>5, <2>6, <2>7, <2>8
<1>4. CASE SkipFile(l) \/ RecordMetadata(l) \/ Return(l) \/ \E files \in Calls : Call(l, files)
  BY <1>0, <1>4 DEF SkipFile, RecordMetadata, Return, Call, Goto, InGroups
<1>5. ASSUME NEW k \in Loaders, k # l, LoaderStep(k) \/ \E files \in Calls : Call(k, files)
      PROVE  at'[l] = at[l] /\ pc'[l] = pc[l]
  BY <1>0, <1>5 DEF LoaderStep, OpenFile, SkipFile, OpenGroup, SkipGroup, LastGroup, ReadNext,
                    EndGroup, StoreColumn, RecordMetadata, Return, Call, Goto
<1>6. ASSUME \/ \E key \in Inserted, liquid \in BOOLEAN : Insert(key, liquid)
             \/ \E key \in tracked : Evict(key)
             \/ Clear
             \/ \E f \in Files, content \in Contents : Rewrite(f, content)
             \/ UNCHANGED vars
      PROVE  at'[l] = at[l] /\ pc'[l] = pc[l]
  BY <1>6 DEF Insert, Evict, Clear, Rewrite, vars
<1> QED
  BY <1>1, <1>2, <1>3, <1>4, <1>5, <1>6 DEF Next, LoaderStep

\* Keys name a file, a row group, a column and a batch.
LEMMA KeysKeep == LoadInv /\ [Next]_vars => KeysInv'
<1> SUFFICES ASSUME LoadInv, [Next]_vars PROVE KeysInv'
  OBVIOUS
<1> DEFINE Slots == Files \X Nat \X Nat \X Nat
<1>1. DOMAIN entries \subseteq Slots /\ tracked \subseteq Slots
  BY DEF LoadInv, KeysInv
<1>2. ASSUME NEW l \in Loaders, StoreColumn(l) PROVE KeysInv'
  <2>1. PICK key : key = <<File(l), at[l].group, at[l].column, at[l].batch>>
    OBVIOUS
  <2>2. InGroups(l)
    BY <1>2 DEF StoreColumn, InGroups
  <2>3. key \in Slots
    BY <2>1, <2>2, ReaderFacts
  <2>4. DOMAIN entries' = DOMAIN entries \cup {key} /\ tracked' = tracked
    BY <1>2, <2>1 DEF StoreColumn, SetAt
  <2> QED
    BY <1>1, <2>3, <2>4 DEF KeysInv
<1>3. ASSUME NEW key \in Inserted, NEW liquid \in BOOLEAN, Insert(key, liquid) PROVE KeysInv'
  <2>1. key \in Slots
    BY InsertedAssumption
  <2>2. DOMAIN entries' = DOMAIN entries \cup {key} /\ tracked' = tracked \cup {key}
    BY <1>3 DEF Insert, SetAt
  <2> QED
    BY <1>1, <2>1, <2>2 DEF KeysInv
<1>4. CASE DOMAIN entries' \subseteq DOMAIN entries /\ tracked' \subseteq tracked
  BY <1>1, <1>4 DEF KeysInv
<1>5. ASSUME NEW l \in Loaders, LoaderStep(l), ~StoreColumn(l)
      PROVE  UNCHANGED <<entries, tracked>>
  BY <1>5 DEF LoaderStep, OpenFile, SkipFile, OpenGroup, SkipGroup, LastGroup, ReadNext, EndGroup,
              RecordMetadata, Return
<1>6. ASSUME NEW key \in tracked, Evict(key) PROVE KeysInv'
  <2>1. DOMAIN entries' = DOMAIN entries \ {key} /\ tracked' = tracked \ {key}
    BY <1>6 DEF Evict, Restrict
  <2> QED
    BY <1>4, <2>1
<1>7. CASE Clear
  <2>1. DOMAIN entries' = {} /\ tracked' = {}
    BY <1>7 DEF Clear
  <2> QED
    BY <1>4, <2>1
<1>8. CASE \/ \E f \in Files, content \in Contents : Rewrite(f, content)
           \/ \E l \in Loaders, files \in Calls : Call(l, files)
           \/ UNCHANGED vars
  BY <1>4, <1>8 DEF Rewrite, Call, vars
<1> QED
  BY <1>2, <1>3, <1>4, <1>5, <1>6, <1>7, <1>8 DEF Next

\* Every file has an author.
LEMMA AuthorsKeep ==
  ASSUME LoadInv, [Next]_vars, \A f \in Files : FileInv(f)'
  PROVE  author' \in [Files -> Authors]
<1>1. /\ author \in [Files -> Authors]
      /\ \A f \in Files : author'[f] \in Authors
  BY DEF LoadInv, FileInv
<1>2. ASSUME author' = [f \in Files |-> author'[f]] PROVE author' \in [Files -> Authors]
  BY <1>1, <1>2
<1>3. ASSUME NEW l \in Loaders, LoaderStep(l) PROVE author' = [f \in Files |-> author'[f]]
  <2>1. CASE OpenFile(l)
    BY <1>1, <2>1 DEF OpenFile
  <2>2. CASE SkipGroup(l) \/ EndGroup(l)
    BY <1>1, <2>2 DEF SkipGroup, EndGroup, Failed, Reported
  <2>3. CASE author' = author
    BY <1>1, <2>3
  <2> QED
    BY <1>3, <2>1, <2>2, <2>3 DEF LoaderStep, SkipFile, OpenGroup, LastGroup, ReadNext, StoreColumn,
                                  RecordMetadata, Return
<1>4. CASE \/ \E key \in Inserted, liquid \in BOOLEAN : Insert(key, liquid)
           \/ \E key \in tracked : Evict(key)
  BY <1>1, <1>4 DEF Insert, Evict
<1>6. CASE Clear
  <2>1. author' = [f \in Files |-> IF \E l \in Loaders : InGroups(l) /\ File(l) = f
                                  THEN Mixed ELSE Nobody]
    BY <1>6 DEF Clear
  <2> QED
    BY <2>1 DEF Authors
<1>5. CASE author' = author
  BY <1>1, <1>5
<1> QED
  BY <1>2, <1>3, <1>4, <1>5, <1>6 DEF Next, Call, Rewrite, vars

\* Nothing is cached at first.
LEMMA LoadInvInit == Init => LoadInv
<1> SUFFICES ASSUME Init PROVE LoadInv
  OBVIOUS
<1>1. ContentsInv
  BY ContentsInit
<1>2. KeysInv
  BY DEF Init, KeysInv
<1>3. \A l \in Loaders : ~InGroups(l)
  BY DEF Init, InGroups
<1>4. author \in [Files -> Authors] /\ \A f \in Files : author[f] = Nobody
  BY DEF Init, Authors
<1>5. ASSUME NEW f \in Files PROVE FileInv(f)
  <2>1. Untouched(f)
    BY <1>3 DEF Init, Untouched, Reads, Slot
  <2>2. Nobody \in Authors /\ Nobody.kind # "load"
    BY DEF Authors, Nobody
  <2> QED
    BY <1>4, <1>5, <2>1, <2>2 DEF FileInv
<1> QED
  BY <1>1, <1>2, <1>3, <1>4, <1>5 DEF LoadInv

\* Every step of a load, of a client or of a writer of files keeps the invariant.
LEMMA LoadInvInductive == LoadInv /\ [Next]_vars => LoadInv'
<1> SUFFICES ASSUME LoadInv, [Next]_vars PROVE LoadInv'
  OBVIOUS
<1>1. ContentsInv'
  BY ContentsStep DEF LoadInv
<1>2. KeysInv'
  BY KeysKeep
<1>3. \A f \in Files : FileInv(f)'
  BY FilesKeep
<1>4. author' \in [Files -> Authors]
  BY <1>3, AuthorsKeep
<1>5. \A l \in Loaders : (InGroups(l) => Within(l))'
  BY WithinKeeps
<1>6. (\A l \in Loaders : InGroups(l) => Within(l))' /\ (\A f \in Files : FileInv(f))'
  BY <1>3, <1>5
<1> QED
  BY <1>1, <1>2, <1>4, <1>6 DEF LoadInv

\* Whatever fails or interferes: of a file one load has read undisturbed, the
\* batches it reports of a row group are those that are cached of it.
THEOREM InfosMatchEntriesAlways == Spec => []InfosMatchEntries
<1>1. LoadInv => InfosMatchEntries
  <2> SUFFICES ASSUME LoadInv, NEW f \in Files, author[f].kind = "load",
                      NEW info \in author[f].infos, NEW column \in 1 .. Columns
               PROVE  {key[4] : key \in {k \in DOMAIN entries :
                                           k[1] = f /\ k[2] = info.group /\ k[3] = column}}
                        = 0 .. info.batches - 1
    BY DEF InfosMatchEntries
  <2>1. author[f] \in LoadAuthors /\ InfosExact(f)
    <3>1. author[f] \in Authors /\ Nobody.kind # "load" /\ Mixed.kind # "load"
      BY DEF LoadInv, FileInv, Nobody, Mixed
    <3> QED
      BY <3>1 DEF Authors, LoadInv, FileInv
  <2>2. info.group \in Nat /\ info.batches \in Nat
    BY <2>1 DEF LoadAuthors
  <2> PICK group, batches : group = info.group /\ batches = info.batches
    OBVIOUS
  <2>3. \A b \in Nat : <<f, group, column, b>> \in DOMAIN entries <=> b < batches
    BY <2>1 DEF InfosExact, Slot
  <2>4. DOMAIN entries \subseteq Files \X Nat \X Nat \X Nat
    BY DEF LoadInv, KeysInv
  <2>5. ASSUME NEW k \in DOMAIN entries, k[1] = f, k[2] = group, k[3] = column
        PROVE  k[4] \in 0 .. batches - 1
    <3>1. k = <<f, group, column, k[4]>> /\ k[4] \in Nat
      BY <2>4, <2>5
    <3>2. k[4] < batches
      BY <2>3, <3>1
    <3> QED
      BY <2>2, <3>1, <3>2
  <2>6. ASSUME NEW b \in 0 .. batches - 1
        PROVE  \E k \in DOMAIN entries : k[1] = f /\ k[2] = group /\ k[3] = column /\ k[4] = b
    <3>1. b \in Nat /\ b < batches
      BY <2>2
    <3>2. <<f, group, column, b>> \in DOMAIN entries
      BY <2>3, <3>1
    <3> QED
      BY <3>2
  <2> QED
    BY <2>5, <2>6
<1> QED
  BY <1>1, LoadInvInit, LoadInvInductive, PTL DEF Spec

\* What a split reads of a column whose row groups are complete.
LEMMA PiecesOfComplete ==
  ASSUME KeysInv, NEW f \in Files, NEW content \in Contents,
         NEW groups \in SUBSET (1 .. Len(content)), NEW column \in 1 .. Columns,
         \A g \in 1 .. Len(content), b \in Nat :
           Slot(f, g, column, b) <=> b < content[g].batches
  PROVE  PiecesOf(f, groups, column) = BatchesOf(content, groups)
<1>1. \A g \in groups : content[g].batches \in Nat
  BY BatchesAreNumbers
<1>2. DOMAIN entries \subseteq Files \X Nat \X Nat \X Nat
  BY DEF KeysInv
<1> DEFINE batchesCached == {key[4] : key \in DOMAIN entries}
<1>3. ASSUME NEW g \in groups, NEW b
      PROVE  (b \in batchesCached /\ \A before \in 0 .. b : Slot(f, g, column, before))
               <=> b \in 0 .. content[g].batches - 1
  <2>1. ASSUME b \in batchesCached, \A before \in 0 .. b : Slot(f, g, column, before)
        PROVE  b \in 0 .. content[g].batches - 1
    <3>1. b \in Nat
      BY <1>2, <2>1
    <3>2. b < content[g].batches
      BY <2>1, <3>1
    <3> QED
      BY <1>1, <3>1, <3>2
  <2>2. ASSUME b \in 0 .. content[g].batches - 1
        PROVE  b \in batchesCached /\ \A before \in 0 .. b : Slot(f, g, column, before)
    <3>1. b \in Nat /\ b < content[g].batches
      BY <1>1, <2>2
    <3>2. ASSUME NEW before \in 0 .. b PROVE Slot(f, g, column, before)
      <4>1. before \in Nat /\ before < content[g].batches
        BY <1>1, <3>1
      <4> QED
        BY <4>1
    <3>3. <<f, g, column, b>> \in DOMAIN entries
      BY <3>1 DEF Slot
    <3>4. b \in batchesCached
      BY <3>3
    <3> QED
      BY <3>2, <3>4
  <2> QED
    BY <2>1, <2>2
<1>4. PiecesOf(f, groups, column)
        = {p \in groups \X batchesCached : \A before \in 0 .. p[2] : Slot(f, p[1], column, before)}
  BY DEF PiecesOf, Slot
<1> HIDE DEF batchesCached
<1>5. ASSUME NEW p PROVE p \in PiecesOf(f, groups, column) <=> p \in BatchesOf(content, groups)
  <2>1. ASSUME p \in PiecesOf(f, groups, column) PROVE p \in BatchesOf(content, groups)
    <3>1. /\ p \in groups \X batchesCached /\ p = <<p[1], p[2]>> /\ p[1] \in groups /\ p[2] \in batchesCached
          /\ \A before \in 0 .. p[2] : Slot(f, p[1], column, before)
      BY <1>4, <2>1
    <3>2. p[2] \in 0 .. content[p[1]].batches - 1
      BY <1>3, <3>1
    <3>3. p \in {p[1]} \X (0 .. content[p[1]].batches - 1)
      BY <3>1, <3>2
    <3> QED
      BY <3>1, <3>3 DEF BatchesOf
  <2>2. ASSUME p \in BatchesOf(content, groups) PROVE p \in PiecesOf(f, groups, column)
    <3>1. PICK g \in groups : p \in {g} \X (0 .. content[g].batches - 1)
      BY <2>2 DEF BatchesOf
    <3>2. p = <<g, p[2]>> /\ p[1] = g /\ p[2] \in 0 .. content[g].batches - 1
      BY <3>1
    <3>3. p[2] \in batchesCached /\ \A before \in 0 .. p[2] : Slot(f, g, column, before)
      BY <1>3, <3>2
    <3> QED
      BY <1>4, <3>2, <3>3
  <2> QED
    BY <2>1, <2>2
<1> QED
  BY <1>5

\* The columns of a projection that are all transcoded.
LEMMA TranscodedColumns ==
  ASSUME NEW projection \in Transcoded
  PROVE  /\ projection \in Seq(1 .. Columns) /\ projection # <<>>
         /\ \A i \in DOMAIN projection : projection[i] \in 1 .. Columns
         /\ \A i \in DOMAIN projection : projection[i] \notin Plain
<1>1. /\ projection \in Seq(1 .. Columns) /\ projection # <<>>
      /\ Range(projection) \cap Plain = {}
  BY ColumnsAssumption DEF Transcoded
<1>2. \A i \in DOMAIN projection : projection[i] \in 1 .. Columns
  <2>1. Columns \in Nat
    BY ColumnsAssumption
  <2>2. projection \in Seq(1 .. Columns)
    BY <1>1
  <2> QED
    BY <2>1, <2>2
<1>3. \A i \in DOMAIN projection : projection[i] \notin Plain
  BY <1>1 DEF Range
<1> QED
  BY <1>1, <1>2, <1>3

\* Of a file one load has read undisturbed, without failing, a split reads
\* nothing until the metadata are recorded, and then everything: for any
\* number of loaders, files and columns.
THEOREM SplitIsAllOrNothingAlways == Spec => []SplitIsAllOrNothing
<1>1. LoadInv => SplitIsAllOrNothing
  <2> SUFFICES ASSUME LoadInv, NEW f \in Files, author[f].kind = "load", author[f].whole,
                      NEW r \in Ranges, NEW projection \in Transcoded,
                      NEW offset, offset = r[1], NEW length, length = r[2] - r[1],
                      NEW content, content = author[f].content,
                      NEW wanted, wanted = BatchesOf(content, GroupsIn(content, offset, length))
               PROVE  IF f \in DOMAIN metadata /\ wanted # {}
                      THEN ReadSplit(f, offset, length, projection)
                             = [kind |-> "rows", pieces |-> [i \in DOMAIN projection |-> wanted]]
                      ELSE ReadSplit(f, offset, length, projection).kind = "null"
    BY DEF SplitIsAllOrNothing
  <2> DEFINE groups == GroupsIn(content, offset, length)
  <2>1. /\ author[f] \in LoadAuthors
        /\ OneReader(f) /\ GroupsComplete(f) /\ KindsRight(f) /\ KeysInv
    <3>1. author[f] \in Authors /\ Nobody.kind # "load" /\ Mixed.kind # "load"
      BY DEF LoadInv, FileInv, Nobody, Mixed
    <3> QED
      BY <3>1 DEF Authors, LoadInv, FileInv
  <2>2. CASE f \notin DOMAIN metadata
    <3>1. RowGroupsForRange(f, offset, length) = {}
      BY <2>2 DEF RowGroupsForRange
    <3>2. ReadSplit(f, offset, length, projection) = [kind |-> "null"]
      BY <3>1 DEF ReadSplit
    <3> QED
      BY <2>2, <3>2
  <2>3. CASE f \in DOMAIN metadata
    <3>1. metadata[f] = content /\ content \in Contents /\ \A l \in Loaders : ~Reads(l, f)
      BY <2>1, <2>3 DEF OneReader, LoadAuthors
    <3>2. RowGroupsForRange(f, offset, length) = groups
      BY <2>3, <3>1 DEF RowGroupsForRange
    <3>3. DOMAIN content = 1 .. Len(content)
      <4>1. content \in Seq(RowGroups)
        BY <3>1, ContentsAssumption
      <4> QED
        BY <4>1
    <3>4. groups \in SUBSET (1 .. Len(content))
      BY <3>3 DEF GroupsIn
    <3>5. \A g \in 1 .. Len(content), c \in 1 .. Columns, b \in Nat :
            Slot(f, g, c, b) <=> b < content[g].batches
      BY <2>1, <3>1 DEF GroupsComplete
    <3>6. projection \in Seq(1 .. Columns) /\ projection # <<>>
      BY TranscodedColumns
    <3>7. \A i \in DOMAIN projection : projection[i] \in 1 .. Columns /\ projection[i] \notin Plain
      BY TranscodedColumns
    <3> HIDE DEF groups
    <3>8. \A i \in DOMAIN projection : PiecesOf(f, groups, projection[i]) = wanted
      <4> SUFFICES ASSUME NEW i \in DOMAIN projection PROVE PiecesOf(f, groups, projection[i]) = wanted
        OBVIOUS
      <4> PICK column \in 1 .. Columns : column = projection[i]
        BY <3>7
      <4>1. \A g \in 1 .. Len(content), b \in Nat : Slot(f, g, column, b) <=> b < content[g].batches
        BY <3>5
      <4>2. PiecesOf(f, groups, column) = BatchesOf(content, groups)
        BY <2>1, <3>1, <3>4, <4>1, PiecesOfComplete
      <4> QED
        BY <4>2 DEF groups
    <3>9. ASSUME NEW i \in DOMAIN projection, NEW p \in wanted
          PROVE  entries[<<f, p[1], projection[i], p[2]>>].liquid
      <4>1. PICK g \in groups : p \in {g} \X (0 .. content[g].batches - 1)
        BY DEF BatchesOf, groups
      <4>2. g \in 1 .. Len(content) /\ content[g].batches \in Nat /\ g \in Nat
        BY <3>1, <3>4, BatchesAreNumbers
      <4>3. p[1] = g /\ p[2] \in Nat /\ p[2] < content[g].batches
        BY <4>1, <4>2
      <4>4. Slot(f, g, projection[i], p[2])
        BY <3>5, <3>7, <4>2, <4>3
      <4> QED
        BY <2>1, <3>7, <4>2, <4>3, <4>4 DEF KindsRight
    <3>10. wanted # {} => groups # {}
      BY DEF BatchesOf, groups
    <3>12. \A i \in DOMAIN projection : \A p \in wanted :
             entries[<<f, p[1], projection[i], p[2]>>].liquid
      BY <3>9
    <3>11. groups = RowGroupsForRange(f, offset, length)
      BY <3>2
    <3>15. /\ wanted = {} => ReadSplit(f, offset, length, projection) = [kind |-> "null"]
           /\ wanted # {} /\ groups # {} =>
                ReadSplit(f, offset, length, projection)
                  = [kind |-> "rows", pieces |-> [i \in DOMAIN projection |-> wanted]]
      <4> DEFINE pieces == [i \in DOMAIN projection |-> PiecesOf(f, groups, projection[i])]
                 reached == {i \in DOMAIN projection : \A j \in 1 .. i - 1 : pieces[j] # {}}
                 plain == {i \in reached : \E p \in pieces[i] :
                             ~entries[<<f, p[1], projection[i], p[2]>>].liquid}
      <4>1. pieces = [i \in DOMAIN projection |-> wanted]
        BY <3>8
      <4>2. plain = {}
        BY <3>12, <4>1
      <4>3. 1 \in DOMAIN projection
        BY <3>6
      <4>4. Range(pieces) = {wanted}
        BY <4>1, <4>3 DEF Range
      <4>5. ReadSplit(f, offset, length, projection)
              = IF groups = {} \/ projection = <<>> THEN [kind |-> "null"]
                ELSE IF plain # {} THEN [kind |-> "fault"]
                ELSE IF {} \in Range(pieces) THEN [kind |-> "null"]
                ELSE [kind |-> "rows", pieces |-> pieces]
        BY <3>11 DEF ReadSplit
      <4> HIDE DEF pieces, plain, reached
      <4> QED
        BY <3>6, <4>1, <4>2, <4>4, <4>5
    <3> QED
      BY <2>3, <3>10, <3>15
  <2> QED
    BY <2>2, <2>3
<1> QED
  BY <1>1, LoadInvInit, LoadInvInductive, PTL DEF Spec

\* In every state, whoever has inserted, evicted or failed, the rows that are
\* whole in a split are those read_batch_velox gives batch by batch.
THEOREM BatchesMakeUpSplitAlways == Spec => []BatchesMakeUpSplit
<1>1. KeysInv => BatchesMakeUpSplit
  <2> SUFFICES ASSUME KeysInv, NEW f \in DOMAIN metadata, NEW r \in Ranges,
                      NEW projection \in Projections,
                      NEW result, result = ReadSplit(f, r[1], r[2] - r[1], projection),
                      NEW groups, groups = RowGroupsForRange(f, r[1], r[2] - r[1])
               PROVE  /\ result.kind = "rows" =>
                           \A p \in UNION Range(result.pieces) :
                             (\A batch \in 0 .. p[2] : ReadBatch(f, p[1], batch, projection))
                               <=> \A i \in DOMAIN projection : p \in result.pieces[i]
                      /\ result.kind = "fault" =>
                           \E i \in DOMAIN projection :
                             \E p \in PiecesOf(f, groups, projection[i]) :
                               ~ReadBatch(f, p[1], p[2], projection)
    BY DEF BatchesMakeUpSplit
  <2> DEFINE cached == {key[4] : key \in DOMAIN entries}
             pieces == [i \in DOMAIN projection |-> PiecesOf(f, groups, projection[i])]
             reached == {i \in DOMAIN projection : \A j \in 1 .. i - 1 : pieces[j] # {}}
             plain == {i \in reached : \E p \in pieces[i] :
                         ~entries[<<f, p[1], projection[i], p[2]>>].liquid}
  <2>1. result = IF groups = {} \/ projection = <<>> THEN [kind |-> "null"]
                 ELSE IF plain # {} THEN [kind |-> "fault"]
                 ELSE IF {} \in Range(pieces) THEN [kind |-> "null"]
                 ELSE [kind |-> "rows", pieces |-> pieces]
    BY DEF ReadSplit
  <2>2. ASSUME NEW i \in DOMAIN projection, NEW p
        PROVE  p \in pieces[i] <=>
                 /\ p \in groups \X cached
                 /\ \A batch \in 0 .. p[2] : <<f, p[1], projection[i], batch>> \in DOMAIN entries
    BY DEF PiecesOf
  <2>3. cached \subseteq Nat
    BY DEF KeysInv
  <2>4. DOMAIN pieces = DOMAIN projection
    OBVIOUS
  <2>5. ASSUME result.kind = "fault"
        PROVE  \E i \in DOMAIN projection : \E p \in PiecesOf(f, groups, projection[i]) :
                 ~ReadBatch(f, p[1], p[2], projection)
    <3>1. plain # {}
      <4> HIDE DEF plain, pieces
      <4> QED
        BY <2>1, <2>5
    <3>2. PICK i \in DOMAIN projection : \E p \in pieces[i] :
                    ~entries[<<f, p[1], projection[i], p[2]>>].liquid
      BY <3>1
    <3>3. PICK p \in pieces[i] : ~entries[<<f, p[1], projection[i], p[2]>>].liquid
      BY <3>2
    <3>4. ~ReadColumn(f, p[1], projection[i], p[2])
      BY <3>3 DEF ReadColumn
    <3>5. ~ReadBatch(f, p[1], p[2], projection)
      BY <3>4 DEF ReadBatch
    <3> QED
      BY <3>3, <3>5
  <2>6. ASSUME result.kind = "rows", NEW p \in UNION Range(result.pieces)
        PROVE  (\A batch \in 0 .. p[2] : ReadBatch(f, p[1], batch, projection))
                 <=> \A i \in DOMAIN projection : p \in result.pieces[i]
    <3>1. /\ projection # <<>> /\ plain = {} /\ {} \notin Range(pieces)
          /\ result = [kind |-> "rows", pieces |-> pieces]
      <4> HIDE DEF plain, pieces
      <4> QED
        BY <2>1, <2>6
    <3>2. result.pieces = pieces
      <4> HIDE DEF pieces
      <4> QED
        BY <3>1
    <3>3. projection \in Seq(1 .. Columns)
      BY ColumnsAssumption
    <3>4. \A i \in DOMAIN projection : pieces[i] # {}
      BY <2>4, <3>1 DEF Range
    <3>5. reached = DOMAIN projection
      <4>1. ASSUME NEW i \in DOMAIN projection, NEW j \in 1 .. i - 1 PROVE j \in DOMAIN projection
        BY <3>3
      <4> QED
        BY <3>4, <4>1
    <3>6. ASSUME NEW i \in DOMAIN projection, NEW q \in pieces[i]
          PROVE  entries[<<f, q[1], projection[i], q[2]>>].liquid
      BY <3>1, <3>5
    <3>7. PICK j \in DOMAIN projection : p \in pieces[j]
      BY <2>4, <2>6, <3>2 DEF Range
    <3>8. p \in groups \X cached /\ p[1] \in groups /\ p[2] \in Nat
      BY <2>2, <2>3, <3>7
    <3>9. ASSUME \A batch \in 0 .. p[2] : ReadBatch(f, p[1], batch, projection),
                 NEW i \in DOMAIN projection
          PROVE  p \in pieces[i]
      <4>1. \A batch \in 0 .. p[2] : <<f, p[1], projection[i], batch>> \in DOMAIN entries
        BY <3>9 DEF ReadBatch, ReadColumn
      <4> QED
        BY <2>2, <3>8, <4>1
    <3>10. ASSUME \A i \in DOMAIN projection : p \in pieces[i], NEW batch \in 0 .. p[2]
           PROVE  ReadBatch(f, p[1], batch, projection)
      <4> SUFFICES ASSUME NEW i \in DOMAIN projection
                   PROVE  ReadColumn(f, p[1], projection[i], batch)
        BY <3>1 DEF ReadBatch
      <4>1. batch \in Nat /\ 0 .. batch \subseteq 0 .. p[2]
        BY <3>8
      <4>2. \A n \in 0 .. p[2] : <<f, p[1], projection[i], n>> \in DOMAIN entries
        BY <2>2, <3>10
      <4>3. batch \in cached
        <5>1. <<f, p[1], projection[i], batch>> \in DOMAIN entries
          BY <4>2
        <5> QED
          BY <5>1
      <4>4. PICK q : q = <<p[1], batch>>
        OBVIOUS
      <4>5. q \in pieces[i]
        BY <2>2, <3>8, <4>1, <4>2, <4>3, <4>4
      <4>6. entries[<<f, p[1], projection[i], batch>>].liquid
        BY <3>6, <4>4, <4>5
      <4> QED
        BY <4>2, <4>6 DEF ReadColumn
    <3> QED
      BY <3>2, <3>9, <3>10
  <2> QED
    BY <2>5, <2>6
<1>2. LoadInv => KeysInv
  BY DEF LoadInv
<1> QED
  BY <1>1, <1>2, LoadInvInit, LoadInvInductive, PTL DEF Spec
============================================================================
