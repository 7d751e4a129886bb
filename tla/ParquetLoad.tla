---------------------------- MODULE ParquetLoad ----------------------------
(***************************************************************************)
(* load_from_parquet (transcoder_arrow.cpp) and the reads that depend on   *)
(* what it leaves behind: read_split_velox, getRowGroupsForRange           *)
(* (liquid_to_velox.cpp, liquid_cache_store.h).                            *)
(*                                                                         *)
(* A load reads its files row group by row group, batch by batch.  It      *)
(* takes mutex_ once per column of a batch, not at all for a file's        *)
(* metadata, and between two of its steps anything else may happen to the  *)
(* store: another load, an insert, an eviction, a clear.  Opening a file,  *)
(* a row group or a batch may fail; the load then goes on with what comes  *)
(* next.  The store's bytes and LRU order are LiquidCacheStore's business. *)
(*                                                                         *)
(* Reads hold mutex_ throughout and change nothing: they are the operators *)
(* RowGroupsForRange and ReadSplit, and the properties say what they yield *)
(* in every state.                                                         *)
(***************************************************************************)
EXTENDS Integers, Sequences, FiniteSets, Functions

CONSTANTS
  Loaders,    \* the threads that may call load_from_parquet
  Calls,      \* the lists of files they call it with
  Contents,   \* what a file may contain: its row groups in order
  Columns,    \* the number of columns of every file
  Plain,      \* the columns that are cached as Arrow arrays (not transcoded)
  Inserted,   \* the keys that clients insert themselves
  MaxLoads,   \* bound: the calls of load_from_parquet in a behaviour
  Cuts,       \* where splits begin and end
  Projections,\* the lists of columns that are read
  Word        \* uint64_t arithmetic is modulo Word (2^64)

Files == UNION {Range(call) : call \in Calls}

\* A row group's batches are counted by a uint16_t, its offset is a uint64_t.
BatchCounts == 0 .. 65535
RowGroups == [offset : 0 .. (Word - 1), batches : BatchCounts]

ASSUME ContentsAssumption == \A content \in Contents : content \in Seq(RowGroups)
ASSUME CallsAssumption == \A call \in Calls : call \in Seq(Range(call))
ASSUME ColumnsAssumption ==
  /\ Columns \in Nat \ {0}
  /\ \A projection \in Projections : projection \in Seq(1 .. Columns) /\ projection # <<>>
ASSUME InsertedAssumption == Inserted \subseteq Files \X Nat \X Nat \X Nat
ASSUME SplitsAssumption == Word \in Nat /\ Cuts \subseteq 0 .. (Word - 1)

VARIABLES
  disk,      \* what each file contains now
  entries,   \* entries_: <<file, row group, column, batch>> -> [liquid]
  metadata,  \* file_metadata_ (with the batches of each row group, as history)
  tracked,   \* the keys in lru_: those that were inserted, not loaded
  pc,        \* the next step of each loader
  at,        \* its local variables
  loads,     \* how many loads have begun
  author     \* history: what may be said of a file's entries, see below

vars == <<disk, entries, metadata, tracked, pc, at, loads, author>>

\* author[f] is Nobody while nothing of f is cached; the load that read f,
\* and the content it read, while no one else has touched f's entries;
\* Mixed otherwise.  whole says that no read of that load has failed, infos
\* are the RowGroupInfos it has produced.
Nobody == [kind |-> "nobody"]
Mixed  == [kind |-> "mixed"]
ReadBy(n, content) ==
  [kind |-> "load", load |-> n, content |-> content, whole |-> TRUE, infos |-> {}]

NoCall == [todo |-> <<>>, load |-> 0, content |-> <<>>, group |-> 0, batch |-> 0, column |-> 0]

SetAt(f, x, y) == [z \in DOMAIN f \cup {x} |-> IF z = x THEN y ELSE f[z]]

Init ==
  /\ disk \in [Files -> Contents]
  /\ entries = <<>>
  /\ metadata = <<>>
  /\ tracked = {}
  /\ pc = [l \in Loaders |-> "idle"]
  /\ at = [l \in Loaders |-> NoCall]
  /\ loads = 0
  /\ author = [f \in Files |-> Nobody]

File(l) == Head(at[l].todo)
Group(l) == at[l].content[at[l].group]
InGroups(l) == pc[l] \in {"group", "batch", "column", "metadata"}

Goto(l, place) == pc' = [pc EXCEPT ![l] = place]

\* A read of l's file has failed; rg_infos.push_back.
OwnsFile(l) == author[File(l)].kind = "load" /\ author[File(l)].load = at[l].load

Failed(l, who) == IF OwnsFile(l) THEN [who EXCEPT ![File(l)].whole = FALSE] ELSE who

\* Mutant of Reported: the batches are those the footer promises.
ReportedByFooter(l, who) ==
  IF OwnsFile(l)
  THEN [who EXCEPT ![File(l)].infos =
          @ \cup {[group |-> at[l].group, batches |-> Group(l).batches]}]
  ELSE who

Reported(l, who) ==
  IF OwnsFile(l)
  THEN [who EXCEPT ![File(l)].infos =
          @ \cup {[group |-> at[l].group, batches |-> at[l].batch]}]
  ELSE who

\* load_from_parquet(files)
Call(l, files) ==
  /\ pc[l] = "idle" /\ loads < MaxLoads
  /\ loads' = loads + 1
  /\ at' = [at EXCEPT ![l] = [NoCall EXCEPT !.todo = files, !.load = loads + 1]]
  /\ Goto(l, "file")
  /\ UNCHANGED <<disk, entries, metadata, tracked, author>>

\* Mutant of OpenFile: the metadata are recorded before the row groups are read.
OpenAndRecord(l) ==
  LET f == File(l)
  IN  /\ pc[l] = "file" /\ at[l].todo # <<>>
      /\ at' = [at EXCEPT ![l].content = disk[f], ![l].group = 1]
      /\ metadata' = SetAt(metadata, f, disk[f])
      /\ author' = [author EXCEPT ![f] =
                      IF @ = Nobody THEN ReadBy(at[l].load, disk[f]) ELSE Mixed]
      /\ Goto(l, "group")
      /\ UNCHANGED <<disk, entries, tracked, loads>>

OpenFile(l) ==
  LET f == File(l)
  IN  /\ pc[l] = "file" /\ at[l].todo # <<>>
      /\ at' = [at EXCEPT ![l].content = disk[f], ![l].group = 1]
      /\ author' = [author EXCEPT ![f] =
                      IF @ = Nobody THEN ReadBy(at[l].load, disk[f]) ELSE Mixed]
      /\ Goto(l, "group")
      /\ UNCHANGED <<disk, entries, metadata, tracked, loads>>

\* Open or OpenFile fails: the file is skipped.
SkipFile(l) ==
  /\ pc[l] = "file" /\ at[l].todo # <<>>
  /\ at' = [at EXCEPT ![l].todo = Tail(@)]
  /\ UNCHANGED <<disk, entries, metadata, tracked, pc, loads, author>>

\* GetRecordBatchReader
OpenGroup(l) ==
  /\ pc[l] = "group" /\ at[l].group <= Len(at[l].content)
  /\ at' = [at EXCEPT ![l].batch = 0]
  /\ Goto(l, "batch")
  /\ UNCHANGED <<disk, entries, metadata, tracked, loads, author>>

\* ... fails: the row group is skipped, without a RowGroupInfo.
SkipGroup(l) ==
  /\ pc[l] = "group" /\ at[l].group <= Len(at[l].content)
  /\ at' = [at EXCEPT ![l].group = @ + 1]
  /\ author' = Failed(l, author)
  /\ UNCHANGED <<disk, entries, metadata, tracked, pc, loads>>

LastGroup(l) ==
  /\ pc[l] = "group" /\ at[l].group > Len(at[l].content)
  /\ Goto(l, "metadata")
  /\ UNCHANGED <<disk, entries, metadata, tracked, at, loads, author>>

\* ReadNext
ReadNext(l) ==
  /\ pc[l] = "batch" /\ at[l].batch < Group(l).batches
  /\ at' = [at EXCEPT ![l].column = 1]
  /\ Goto(l, "column")
  /\ UNCHANGED <<disk, entries, metadata, tracked, loads, author>>

\* The loop ends at the last batch, or early when ReadNext fails.
EndGroup(l) ==
  /\ pc[l] = "batch"
  /\ at' = [at EXCEPT ![l].group = @ + 1]
  /\ Goto(l, "group")
  /\ author' = IF at[l].batch < Group(l).batches THEN Reported(l, Failed(l, author))
                                                  ELSE Reported(l, author)
  /\ UNCHANGED <<disk, entries, metadata, tracked, loads>>

\* One column: transcoded without the lock, then stored under it.
StoreColumn(l) ==
  LET key  == <<File(l), at[l].group, at[l].column, at[l].batch>>
      last == at[l].column = Columns
  IN  /\ pc[l] = "column"
      /\ entries' = SetAt(entries, key, [liquid |-> at[l].column \notin Plain])
      /\ at' = IF last THEN [at EXCEPT ![l].batch = @ + 1]
                       ELSE [at EXCEPT ![l].column = @ + 1]
      /\ Goto(l, IF last THEN "batch" ELSE "column")
      /\ UNCHANGED <<disk, metadata, tracked, loads, author>>

\* file_metadata_[file_id] = fmeta, without the lock.
RecordMetadata(l) ==
  /\ pc[l] = "metadata"
  /\ metadata' = SetAt(metadata, File(l), at[l].content)
  /\ at' = [at EXCEPT ![l].todo = Tail(@)]
  /\ Goto(l, "file")
  /\ UNCHANGED <<disk, entries, tracked, loads, author>>

Return(l) ==
  /\ pc[l] = "file" /\ at[l].todo = <<>>
  /\ at' = [at EXCEPT ![l] = NoCall]
  /\ Goto(l, "idle")
  /\ UNCHANGED <<disk, entries, metadata, tracked, loads, author>>

LoaderStep(l) ==
  \/ OpenFile(l) \/ SkipFile(l)
  \/ OpenGroup(l) \/ SkipGroup(l) \/ LastGroup(l)
  \/ ReadNext(l) \/ EndGroup(l) \/ StoreColumn(l)
  \/ RecordMetadata(l) \/ Return(l)

-----------------------------------------------------------------------------
(* What others do meanwhile.                                               *)

\* insert or insert_arrow, of a column of a batch that may be cached already.
Insert(key, liquid) ==
  /\ entries' = SetAt(entries, key, [liquid |-> liquid])
  /\ tracked' = tracked \cup {key}
  /\ author' = [author EXCEPT ![key[1]] = Mixed]
  /\ UNCHANGED <<disk, metadata, pc, at, loads>>

\* An insert that needs room evicts a key that was inserted.
Evict(key) ==
  /\ entries' = Restrict(entries, DOMAIN entries \ {key})
  /\ tracked' = tracked \ {key}
  /\ author' = [author EXCEPT ![key[1]] = Mixed]
  /\ UNCHANGED <<disk, metadata, pc, at, loads>>

\* clear(): a file that is being loaded keeps only what is stored later.
Clear ==
  /\ entries' = <<>>
  /\ metadata' = <<>>
  /\ tracked' = {}
  /\ author' = [f \in Files |-> IF \E l \in Loaders : InGroups(l) /\ File(l) = f
                                THEN Mixed ELSE Nobody]
  /\ UNCHANGED <<disk, pc, at, loads>>

\* The file is written anew between two loads.
Rewrite(f, content) ==
  /\ disk' = [disk EXCEPT ![f] = content]
  /\ UNCHANGED <<entries, metadata, tracked, pc, at, loads, author>>

Next ==
  \/ \E l \in Loaders : LoaderStep(l)
  \/ \E l \in Loaders, files \in Calls : Call(l, files)
  \/ \E key \in Inserted, liquid \in BOOLEAN : Insert(key, liquid)
  \/ \E key \in tracked : Evict(key)
  \/ Clear
  \/ \E f \in Files, content \in Contents : Rewrite(f, content)

Spec == Init /\ [][Next]_vars

-----------------------------------------------------------------------------
(* The reads.                                                              *)

\* Mutant of GroupsIn: the end of the range belongs to it.
GroupsUpTo(groups, offset, length) ==
  LET limit == (offset + length) % Word
  IN  {i \in DOMAIN groups : offset <= groups[i].offset /\ groups[i].offset <= limit}

\* The row groups that begin in the range, by their offsets in the footer.
GroupsIn(groups, offset, length) ==
  LET limit == (offset + length) % Word
  IN  {i \in DOMAIN groups : offset <= groups[i].offset /\ groups[i].offset < limit}

RowGroupsForRange(f, offset, length) ==
  IF f \in DOMAIN metadata THEN GroupsIn(metadata[f], offset, length) ELSE {}

\* The batches of a column that read_split_velox collects: from the first
\* one on until one is missing.
PiecesOf(f, groups, column) ==
  {p \in groups \X {key[4] : key \in DOMAIN entries} :
     \A before \in 0 .. p[2] : <<f, p[1], column, before>> \in DOMAIN entries}

\* read_split_velox takes the columns of the projection in turn: null at the
\* first that has no piece, a null pointer is followed at the first piece
\* that was cached as an Arrow array, else every column has its pieces.
ReadSplit(f, offset, length, projection) ==
  LET groups  == RowGroupsForRange(f, offset, length)
      pieces  == [i \in DOMAIN projection |-> PiecesOf(f, groups, projection[i])]
      reached == {i \in DOMAIN projection : \A j \in 1 .. i - 1 : pieces[j] # {}}
      plain   == {i \in reached : \E p \in pieces[i] :
                    ~entries[<<f, p[1], projection[i], p[2]>>].liquid}
  IN  IF groups = {} \/ projection = <<>> THEN [kind |-> "null"]
      ELSE IF plain # {} THEN [kind |-> "fault"]
      ELSE IF {} \in Range(pieces) THEN [kind |-> "null"]
      ELSE [kind |-> "rows", pieces |-> pieces]

\* read_column_velox: null unless the column of the batch is cached, transcoded.
ReadColumn(f, group, column, batch) ==
  LET key == <<f, group, column, batch>> IN key \in DOMAIN entries /\ entries[key].liquid

\* Mutant of ReadBatch: columns that are missing are left out.
ReadBatchOfAny(f, group, batch, projection) ==
  \E i \in DOMAIN projection : ReadColumn(f, group, projection[i], batch)

\* read_batch_velox: whether it returns the batch, all columns or null.
ReadBatch(f, group, batch, projection) ==
  projection # <<>> /\ \A i \in DOMAIN projection : ReadColumn(f, group, projection[i], batch)

\* All the batches of a set of row groups.
BatchesOf(content, groups) ==
  UNION {{g} \X (0 .. content[g].batches - 1) : g \in groups}

-----------------------------------------------------------------------------
(* Properties.                                                             *)

Transcoded == {p \in Projections : Range(p) \cap Plain = {}}

Ranges == {r \in Cuts \X Cuts : r[1] <= r[2]}

\* A file's metadata is its publication: while nobody else touches the file
\* and no read fails, a split of it reads nothing at all until the load has
\* stored the last column of the last batch, and from then on everything.
SplitIsAllOrNothing ==
  \A f \in Files :
    (author[f].kind = "load" /\ author[f].whole) =>
      \A r \in Ranges, projection \in Transcoded :
        LET content == author[f].content
            wanted  == BatchesOf(content, GroupsIn(content, r[1], r[2] - r[1]))
            result  == ReadSplit(f, r[1], r[2] - r[1], projection)
        IN  IF f \in DOMAIN metadata /\ wanted # {}
            THEN result = [kind |-> "rows", pieces |-> [i \in DOMAIN projection |-> wanted]]
            ELSE result.kind = "null"

\* What a load reports of a row group is what it has cached of it, also when
\* it had to stop early: the batches below `batches`, in every column, and
\* none beyond.
InfosMatchEntries ==
  \A f \in Files : author[f].kind = "load" =>
    \A info \in author[f].infos, column \in 1 .. Columns :
      {key[4] : key \in {k \in DOMAIN entries :
                           k[1] = f /\ k[2] = info.group /\ k[3] = column}}
        = 0 .. info.batches - 1

\* Splits that share a cut never share a row group, and together they have
\* the row groups of the range they make up: no row is read twice or lost.
SplitsPartitionRowGroups ==
  \A f \in DOMAIN metadata : \A a, b, c \in Cuts :
    (a <= b /\ b <= c) =>
      /\ RowGroupsForRange(f, a, b - a) \cap RowGroupsForRange(f, b, c - b) = {}
      /\ RowGroupsForRange(f, a, b - a) \cup RowGroupsForRange(f, b, c - b)
           = RowGroupsForRange(f, a, c - a)

\* A split and the batches that make it up agree in every state, whoever has
\* inserted, evicted or failed: the rows that are whole in a split are those
\* of the batches read_batch_velox gives one after the other, and the split
\* follows a null pointer only at a batch for which that returns null.
BatchesMakeUpSplit ==
  \A f \in DOMAIN metadata : \A r \in Ranges, projection \in Projections :
    LET result == ReadSplit(f, r[1], r[2] - r[1], projection)
        upTo(p) == \A batch \in 0 .. p[2] : ReadBatch(f, p[1], batch, projection)
    IN  /\ result.kind = "rows" =>
             \A p \in UNION Range(result.pieces) :
               upTo(p) <=> \A i \in DOMAIN projection : p \in result.pieces[i]
        /\ result.kind = "fault" =>
             \E i \in DOMAIN projection :
               \E p \in PiecesOf(f, RowGroupsForRange(f, r[1], r[2] - r[1]), projection[i]) :
                 ~ReadBatch(f, p[1], p[2], projection)

\* read_split_velox "returns nullptr if any batch of any column is missing":
\* what it does return has every batch of the file's row groups in range.
SplitMissesNothing ==
  \A f \in DOMAIN metadata : \A r \in Ranges, projection \in Projections :
    LET result == ReadSplit(f, r[1], r[2] - r[1], projection)
    IN  result.kind = "rows" =>
          \A i \in DOMAIN projection :
            BatchesOf(metadata[f], RowGroupsForRange(f, r[1], r[2] - r[1]))
              \subseteq result.pieces[i]
=============================================================================
