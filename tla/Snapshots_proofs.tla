--------------------------- MODULE Snapshots_proofs ---------------------------
(***************************************************************************)
(* What holds of Snapshots for every number of tables, of requests that     *)
(* create a snapshot at a path, of threads that list the snapshots, of      *)
(* snapshots that are applied and of records in them, whatever calls fail   *)
(* and whenever the cluster manager dies.                                   *)
(***************************************************************************)
EXTENDS Snapshots, SequenceTheorems, TLAPS

-----------------------------------------------------------------------------
(* The inductive invariant of the export *)

Creating == [at : {"idle", "metadata", "row", "failed", "done"}, todo : Seq(TableNames)]
Listing == [at : {"describe", "update", "failed"}, copy : Metadata, todo : Seq(TableNames),
            updated : BOOLEAN]
ListerStates == {Idle, [at |-> "get"], [at |-> "failed"]} \cup Listing

ExportTypes ==
    /\ export \in [Creators -> [TableNames -> ExportStatuses \cup {"none"}]]
    /\ metadata \in Metadata \cup {NoRow}
    /\ snapshot \in SnapshotRows \cup {NoRow}
    /\ creator \in [Creators -> Creating]
    /\ lister \in [Listers -> ListerStates]
    /\ caveats \subseteq {"fault", "raced", "recreated", "lost", "crashed"}
    /\ mishaps \in 0..MaxMishaps

\* A creation writes the metadata file after it has started every export.
CreationInv ==
    \A c \in Creators :
        /\ creator[c].at = "idle" =>
            \A t \in TableNames : export[c][t] = "none" => t \in Range(creator[c].todo)
        /\ creator[c].at \in {"metadata", "row"} => \A t \in TableNames : export[c][t] # "none"
        /\ creator[c].at = "row" => metadata # NoRow

\* What a metadata file m, or a thread's copy of it, says of an export that has
\* ended is so.
Agrees(m, cr, ex) ==
    /\ cr[m.by].at \in {"row", "failed", "done"}
    /\ \A t \in TableNames :
        /\ ex[m.by][t] # "none"
        /\ m.status[t] # "IN_PROGRESS" => ex[m.by][t] = m.status[t]
HasCopy(l) == lister[l].at \in {"describe", "update"}
CopiesInv ==
    /\ metadata # NoRow => Agrees(metadata, creator, export)
    /\ snapshot # NoRow => /\ creator[snapshot.by].at = "done"
                           /\ snapshot.status # "FAILED" => metadata # NoRow
    /\ \A l \in Listers :
        /\ HasCopy(l) => Agrees(lister[l].copy, creator, export)
        /\ lister[l] # Idle => metadata # NoRow /\ snapshot # NoRow

\* What a thread found completed, and is about to act upon, is in the file,
\* unless an older copy was written over it.
UpdateInv ==
    \A l \in Listers :
        lister[l].at = "update" /\ "lost" \notin caveats /\ metadata.by = lister[l].copy.by =>
            \A t \in TableNames :
                lister[l].copy.status[t] = "COMPLETED" => metadata.status[t] = "COMPLETED"

CompletedInv ==
    snapshot # NoRow /\ snapshot.status = "COMPLETED" =>
        \A t \in TableNames : /\ export[snapshot.by][t] = "COMPLETED"
                              /\ metadata.by = snapshot.by /\ "lost" \notin caveats
                                    => metadata.status[t] = "COMPLETED"

\* A snapshot is marked FAILED, or about to be, for a reason.
FailedInv ==
    snapshot # NoRow /\ (snapshot.status = "FAILED" \/ \E l \in Listers : lister[l].at = "failed") =>
        \/ \E t \in TableNames : export[snapshot.by][t] = "FAILED"
        \/ caveats \cap {"fault", "raced"} # {}

\* Of a snapshot that has completed, and whose row does not say so, some
\* thread knows that it has, or knew.
InProgressInv ==
    snapshot # NoRow /\ snapshot.status = "IN_PROGRESS" /\ metadata.by = snapshot.by
    /\ Outcome(metadata.status) = "COMPLETED" =>
        \/ \E l \in Listers : lister[l].at = "update" /\ Outcome(lister[l].copy.status) = "COMPLETED"
        \/ caveats \cap {"fault", "crashed"} # {}

RowInv == "recreated" \notin caveats => UpdateInv /\ CompletedInv /\ FailedInv /\ InProgressInv

ExportInv == ExportTypes /\ CreationInv /\ CopiesInv /\ RowInv

-----------------------------------------------------------------------------
(* Creations, exports and listings *)

\* Creations that have written the metadata file go on to their end, and
\* their exports from IN_PROGRESS to COMPLETED or FAILED.
Advance(cr, ex, cr1, ex1) ==
    \A c \in Creators : cr[c].at \in {"row", "failed", "done"} =>
        /\ cr1[c].at \in {"row", "failed", "done"}
        /\ cr[c].at = "done" => cr1[c].at = "done"
        /\ \A t \in TableNames :
            \/ ex1[c][t] = ex[c][t]
            \/ ex[c][t] = "IN_PROGRESS" /\ ex1[c][t] \in {"COMPLETED", "FAILED"}

\* What was found out about exports stays true.
LEMMA AgreesForGood ==
    ASSUME NEW m \in Metadata, NEW cr, NEW ex, NEW cr1, NEW ex1,
           Agrees(m, cr, ex), Advance(cr, ex, cr1, ex1)
    PROVE  Agrees(m, cr1, ex1)
<1>1. m.by \in Creators /\ \A t \in TableNames : m.status[t] \in ExportStatuses
  BY DEF Metadata
<1> QED
  BY <1>1 DEF Agrees, Advance, ExportStatuses

\* The two forms in which a thread that lists has a copy of the file, or none.
LEMMA ListerForm ==
    ASSUME NEW x \in ListerStates
    PROVE  /\ x.at \in {"idle", "get", "describe", "update", "failed"}
           /\ x.at \in {"describe", "update"} => x \in Listing
           /\ x \in Listing => /\ x.copy \in Metadata /\ x.todo \in Seq(TableNames)
                               /\ x.updated \in BOOLEAN /\ x.at # "idle"
                               /\ x = [at |-> x.at, copy |-> x.copy, todo |-> x.todo, updated |-> x.updated]
           /\ x = Idle <=> x.at = "idle"
  BY DEF ListerStates, Listing, Idle

\* A creation goes on to another step.
LEMMA CreatorMoves ==
    ASSUME ExportTypes, NEW c \in Creators, NEW at \in {"idle", "metadata", "row", "failed", "done"},
           CreatorAt(c, at)
    PROVE  /\ creator' \in [Creators -> Creating]
           /\ creator'[c].at = at
           /\ \A d \in Creators : d # c => creator'[d] = creator[d]
<1>1. creator \in [Creators -> Creating]
  BY DEF ExportTypes
<1>2. creator'[c] = [at |-> at, todo |-> creator[c].todo] /\ creator[c].todo \in Seq(TableNames)
  BY <1>1 DEF CreatorAt, Creating
<1>3. creator'[c] \in Creating
  BY <1>2 DEF Creating
<1>4. creator' = [d \in Creators |-> IF d = c THEN creator'[c] ELSE creator[d]]
  BY <1>1 DEF CreatorAt
<1>5. \A d \in Creators : d # c => creator'[d] = creator[d]
  BY <1>1 DEF CreatorAt
<1>6. creator' \in [Creators -> Creating]
  BY <1>1, <1>3, <1>4
<1> QED
  BY <1>2, <1>5, <1>6

\* An environment without exports that end, and one with.
LEMMA NoExportEnds ==
    ASSUME ExportTypes, export' = export,
           \A c \in Creators : creator[c].at \in {"row", "failed", "done"} =>
               /\ creator'[c].at \in {"row", "failed", "done"}
               /\ creator[c].at = "done" => creator'[c].at = "done"
    PROVE  Advance(creator, export, creator', export')
  BY DEF Advance

-----------------------------------------------------------------------------
(* What leaves a part of the invariant alone *)

\* The files, the row and the threads that list stay as they are.
LEMMA CreationFrame ==
    ASSUME ExportInv, Advance(creator, export, creator', export'),
           UNCHANGED <<metadata, snapshot, lister, caveats>>
    PROVE  CopiesInv' /\ RowInv'
<1>1. ExportTypes /\ CopiesInv /\ RowInv
  BY DEF ExportInv
<1>2. snapshot # NoRow => snapshot.by \in Creators
  BY <1>1 DEF ExportTypes, SnapshotRows
<1>3. CopiesInv'
  <2>1. metadata # NoRow => Agrees(metadata, creator', export')
    BY <1>1, AgreesForGood DEF CopiesInv, ExportTypes
  <2>2. ASSUME NEW l \in Listers, HasCopy(l)
        PROVE  Agrees(lister[l].copy, creator', export')
    <3>1. lister[l].copy \in Metadata
      BY <1>1, <2>2, ListerForm DEF ExportTypes, HasCopy
    <3> QED
      BY <1>1, <2>2, <3>1, AgreesForGood DEF CopiesInv
  <2>3. snapshot # NoRow => creator'[snapshot.by].at = "done"
    BY <1>1, <1>2 DEF CopiesInv, Advance
  <2> QED
    BY <1>1, <2>1, <2>2, <2>3 DEF CopiesInv, HasCopy
<1>4. snapshot # NoRow =>
        \A t \in TableNames : export[snapshot.by][t] \in {"COMPLETED", "FAILED"} =>
            export'[snapshot.by][t] = export[snapshot.by][t]
  BY <1>1, <1>2 DEF CopiesInv, Advance
<1>5. RowInv'
  BY <1>1, <1>4 DEF RowInv, UpdateInv, CompletedInv, FailedInv, InProgressInv
<1> QED
  BY <1>3, <1>5

\* The threads that are about to write the row stay as they are, and those
\* that got a copy of the file got what agrees with the exports.
LEMMA ListingFrame ==
    ASSUME ExportInv, UNCHANGED <<export, metadata, snapshot, creator, caveats>>,
           lister' \in [Listers -> ListerStates],
           \A l \in Listers :
               /\ lister[l].at \in {"update", "failed"} \/ lister'[l].at \in {"update", "failed"}
                    => lister'[l] = lister[l]
               /\ lister'[l].at = "describe" => Agrees(lister'[l].copy, creator, export)
               /\ lister'[l] # Idle => metadata # NoRow /\ snapshot # NoRow
    PROVE  CopiesInv' /\ RowInv'
<1>1. CopiesInv'
  BY DEF ExportInv, CopiesInv, HasCopy
<1>2. RowInv'
  BY DEF ExportInv, RowInv, UpdateInv, CompletedInv, FailedInv, InProgressInv
<1> QED
  BY <1>1, <1>2

-----------------------------------------------------------------------------
(* Every action preserves the invariant: exports and creations *)

\* DynamoDB ends an export.
LEMMA ExportEndsStep ==
    ASSUME ExportInv, NEW c \in Creators, NEW t \in TableNames, ExportEnds(c, t)
    PROVE  ExportInv'
<1>1. /\ ExportTypes /\ CreationInv /\ export[c][t] = "IN_PROGRESS"
      /\ UNCHANGED <<metadata, snapshot, creator, lister, caveats>>
  BY DEF ExportInv, ExportEnds
<1>2. PICK s \in {"COMPLETED", "FAILED"} : export' = [export EXCEPT ![c][t] = s]
  BY DEF ExportEnds
<1>3. mishaps' \in 0..MaxMishaps
  BY <1>1, ExportParameters DEF ExportEnds, Mishap, NoMishap, ExportTypes
<1>4. export \in [Creators -> [TableNames -> ExportStatuses \cup {"none"}]]
  BY <1>1 DEF ExportTypes
<1>5. /\ export' \in [Creators -> [TableNames -> ExportStatuses \cup {"none"}]]
      /\ export'[c][t] = s
      /\ \A d \in Creators, u \in TableNames : d # c \/ u # t => export'[d][u] = export[d][u]
  BY <1>2, <1>4 DEF ExportStatuses
<1>6. Advance(creator, export, creator', export')
  BY <1>1, <1>5 DEF Advance
<1>7. ExportTypes'
  BY <1>1, <1>3, <1>5 DEF ExportTypes
<1>8. CreationInv'
  BY <1>1, <1>5 DEF CreationInv
<1> QED
  BY <1>1, <1>6, <1>7, <1>8, CreationFrame DEF ExportInv

\* The elements of a list are its head and the elements of its tail.
LEMMA HeadOrTail ==
    ASSUME NEW S, NEW s \in Seq(S), s # <<>>
    PROVE  /\ Head(s) \in S /\ Head(s) = s[1] /\ Tail(s) \in Seq(S)
           /\ \A x \in Range(s) : x = Head(s) \/ x \in Range(Tail(s))
           /\ Len(s) = 1 => \A x \in Range(s) : x = Head(s)
<1>1. /\ Len(s) \in Nat /\ Len(s) >= 1 /\ DOMAIN s = 1..Len(s)
  BY LenProperties, EmptySeq
<1>2. /\ Tail(s) \in Seq(S) /\ Len(Tail(s)) = Len(s) - 1 /\ Head(s) \in S
      /\ \A i \in 1..Len(Tail(s)) : Tail(s)[i] = s[i + 1]
  BY HeadTailProperties
<1>3. DOMAIN Tail(s) = 1..(Len(s) - 1)
  BY <1>2, LenProperties
<1>4. Head(s) = s[1]
  BY <1>1
<1>5. ASSUME NEW i \in DOMAIN s
      PROVE  s[i] = Head(s) \/ s[i] \in Range(Tail(s))
  <2>1. CASE i = 1
    BY <1>4, <2>1
  <2>2. CASE i # 1
    <3>1. i - 1 \in DOMAIN Tail(s) /\ i - 1 \in 1..Len(Tail(s)) /\ (i - 1) + 1 = i
      BY <1>1, <1>2, <1>3, <2>2
    <3>2. Tail(s)[i - 1] = s[i]
      BY <1>2, <3>1
    <3> QED
      BY <3>1, <3>2 DEF Range
  <2> QED
    BY <2>1, <2>2
<1> QED
  BY <1>1, <1>2, <1>4, <1>5 DEF Range

\* create_snapshot starts the export of the next table.
LEMMA StartExportStep ==
    ASSUME ExportInv, NEW c \in Creators, StartExport(c)
    PROVE  ExportInv'
<1> DEFINE todo == creator[c].todo
           t == Head(todo)
           at == IF Len(todo) = 1 THEN "metadata" ELSE "idle"
<1>1. /\ ExportTypes /\ CreationInv /\ creator[c].at = "idle" /\ todo # <<>>
      /\ UNCHANGED <<metadata, snapshot, lister, caveats, mishaps>>
  BY DEF ExportInv, StartExport
<1>2. /\ export \in [Creators -> [TableNames -> ExportStatuses \cup {"none"}]]
      /\ creator \in [Creators -> Creating] /\ todo \in Seq(TableNames)
  BY <1>1 DEF ExportTypes, Creating
<1>3. /\ t \in TableNames /\ Tail(todo) \in Seq(TableNames)
      /\ \A x \in Range(todo) : x = t \/ x \in Range(Tail(todo))
      /\ Len(todo) = 1 => \A x \in Range(todo) : x = t
  BY <1>1, <1>2, HeadOrTail
<1>4. /\ export' = [export EXCEPT ![c][t] = "IN_PROGRESS"]
      /\ creator' = [creator EXCEPT ![c].todo = Tail(@),
                                    ![c].at = IF Len(todo) = 1 THEN "metadata" ELSE @]
  BY DEF StartExport
<1>5. /\ creator'[c].at = at /\ creator'[c].todo = Tail(todo)
      /\ creator' \in [Creators -> Creating]
  <2>1. CASE Len(todo) = 1
    <3>1. creator' = [creator EXCEPT ![c].todo = Tail(@), ![c].at = "metadata"]
      BY <1>4, <2>1
    <3> QED
      BY <1>2, <1>3, <2>1, <3>1 DEF Creating
  <2>2. CASE Len(todo) # 1
    <3>1. creator' = [creator EXCEPT ![c].todo = Tail(@), ![c].at = @]
      BY <1>4, <2>2
    <3> QED
      BY <1>1, <1>2, <1>3, <2>2, <3>1 DEF Creating
  <2> QED
    BY <2>1, <2>2
<1>6. \A d \in Creators : d # c => creator'[d] = creator[d]
  BY <1>2, <1>4
<1> HIDE DEF t
<1>7. /\ export' \in [Creators -> [TableNames -> ExportStatuses \cup {"none"}]]
      /\ export'[c][t] = "IN_PROGRESS"
      /\ \A d \in Creators, u \in TableNames : d # c \/ u # t => export'[d][u] = export[d][u]
  BY <1>2, <1>3, <1>4 DEF ExportStatuses
<1>8. Advance(creator, export, creator', export')
  <2>1. ASSUME NEW d \in Creators, creator[d].at \in {"row", "failed", "done"}
        PROVE  d # c
    BY <1>1, <2>1
  <2> QED
    BY <1>6, <1>7, <2>1 DEF Advance
<1>9. ExportTypes'
  BY <1>1, <1>5, <1>7 DEF ExportTypes
<1>10. CreationInv'
  <2>1. ASSUME NEW d \in Creators, d # c
        PROVE  /\ creator'[d].at = "idle" =>
                    \A u \in TableNames : export'[d][u] = "none" => u \in Range(creator'[d].todo)
               /\ creator'[d].at \in {"metadata", "row"} => \A u \in TableNames : export'[d][u] # "none"
               /\ creator'[d].at = "row" => metadata # NoRow
    BY <1>1, <1>6, <1>7, <2>1 DEF CreationInv
  <2>2. ASSUME NEW u \in TableNames, export'[c][u] = "none"
        PROVE  Len(todo) # 1 /\ u \in Range(Tail(todo))
    <3>1. u # t /\ export[c][u] = "none"
      BY <1>7, <2>2
    <3>2. u \in Range(todo)
      BY <1>1, <3>1 DEF CreationInv
    <3> QED
      BY <1>3, <3>1, <3>2
  <2>3. /\ creator'[c].at = at /\ creator'[c].todo = Tail(todo)
        /\ at = IF Len(todo) = 1 THEN "metadata" ELSE "idle"
    BY <1>5
  <2> HIDE DEF at, todo
  <2> QED
    BY <1>1, <2>1, <2>2, <2>3 DEF CreationInv
<1> QED
  BY <1>1, <1>8, <1>9, <1>10, CreationFrame DEF ExportInv

\* create_snapshot writes the metadata file: from then on a file of another
\* creation is there, and no copy of this one has been read yet.
LEMMA WriteMetadataStep ==
    ASSUME ExportInv, NEW c \in Creators, WriteMetadata(c)
    PROVE  ExportInv'
<1>1. /\ ExportTypes /\ CreationInv /\ CopiesInv /\ RowInv /\ creator[c].at = "metadata"
      /\ UNCHANGED <<export, snapshot, lister, caveats, mishaps>>
      /\ metadata' = NewMetadata(c) /\ CreatorAt(c, "row")
  BY DEF ExportInv, WriteMetadata
<1>2. /\ creator' \in [Creators -> Creating] /\ creator'[c].at = "row"
      /\ \A d \in Creators : d # c => creator'[d] = creator[d]
  BY <1>1, CreatorMoves
<1>3. /\ metadata' \in Metadata /\ metadata'.by = c /\ metadata' # NoRow
      /\ \A t \in TableNames : metadata'.status[t] = "IN_PROGRESS"
  BY <1>1, ExportParameters DEF NewMetadata, Metadata, ExportStatuses
<1>4. Advance(creator, export, creator', export')
  <2>1. \A d \in Creators : creator[d].at \in {"row", "failed", "done"} => d # c
    BY <1>1
  <2> QED
    BY <1>1, <1>2, <2>1, NoExportEnds
<1>5. ExportTypes'
  BY <1>1, <1>2, <1>3 DEF ExportTypes
<1>6. CreationInv'
  BY <1>1, <1>2, <1>3 DEF CreationInv
<1>7. \A l \in Listers : HasCopy(l) => lister[l].copy \in Metadata
  BY <1>1, ListerForm DEF ExportTypes, HasCopy
<1>8. CopiesInv'
  <2>1. Agrees(metadata', creator', export')
    BY <1>1, <1>2, <1>3 DEF Agrees, CreationInv
  <2>2. \A l \in Listers : HasCopy(l) => Agrees(lister[l].copy, creator', export')
    BY <1>1, <1>4, <1>7, AgreesForGood DEF CopiesInv
  <2>3. snapshot # NoRow => creator'[snapshot.by].at = "done"
    BY <1>1, <1>4 DEF CopiesInv, Advance, ExportTypes, SnapshotRows
  <2> QED
    BY <1>1, <1>3, <2>1, <2>2, <2>3 DEF CopiesInv, HasCopy
<1>9. RowInv'
  <2>1. \A l \in Listers : HasCopy(l) => lister[l].copy.by # c
    BY <1>1 DEF CopiesInv, Agrees
  <2>2. snapshot # NoRow => snapshot.by # c
    BY <1>1 DEF CopiesInv
  <2> QED
    BY <1>1, <1>3, <2>1, <2>2
       DEF RowInv, UpdateInv, CompletedInv, FailedInv, InProgressInv, HasCopy
<1> QED
  BY <1>5, <1>6, <1>8, <1>9 DEF ExportInv

\* create_snapshot adds the row: what was known of the path is forgotten,
\* unless somebody is still at work there.
LEMMA CreateRowStep ==
    ASSUME ExportInv, NEW c \in Creators, CreateRow(c)
    PROVE  ExportInv'
<1>1. /\ ExportTypes /\ CreationInv /\ CopiesInv /\ RowInv /\ creator[c].at = "row"
      /\ UNCHANGED <<export, metadata, lister, mishaps>>
      /\ snapshot' = [by |-> c, status |-> "IN_PROGRESS"] /\ CreatorAt(c, "done")
      /\ caveats' = IF metadata = NewMetadata(c) /\ \A l \in Listers : lister[l] = Idle
                    THEN {} ELSE caveats \cup {"recreated"}
  BY DEF ExportInv, CreateRow
<1>2. /\ creator' \in [Creators -> Creating] /\ creator'[c].at = "done"
      /\ \A d \in Creators : d # c => creator'[d] = creator[d]
  BY <1>1, CreatorMoves
<1>3. snapshot' \in SnapshotRows /\ snapshot'.by = c /\ snapshot'.status = "IN_PROGRESS" /\ snapshot' # NoRow
  BY <1>1, ExportParameters DEF SnapshotRows, ExportStatuses
<1>4. Advance(creator, export, creator', export')
  BY <1>1, <1>2, NoExportEnds
<1>5. ExportTypes'
  BY <1>1, <1>2, <1>3 DEF ExportTypes
<1>6. CreationInv'
  BY <1>1, <1>2 DEF CreationInv
<1>7. CopiesInv'
  <2>1. metadata # NoRow /\ Agrees(metadata, creator', export')
    BY <1>1, <1>4, AgreesForGood DEF CopiesInv, CreationInv, ExportTypes
  <2>2. \A l \in Listers : HasCopy(l) => lister[l].copy \in Metadata
    BY <1>1, ListerForm DEF ExportTypes, HasCopy
  <2>3. \A l \in Listers : HasCopy(l) => Agrees(lister[l].copy, creator', export')
    BY <1>1, <1>4, <2>2, AgreesForGood DEF CopiesInv
  <2> QED
    BY <1>1, <1>2, <1>3, <2>1, <2>3 DEF CopiesInv, HasCopy
<1>8. RowInv'
  <2> SUFFICES ASSUME "recreated" \notin caveats' PROVE RowInv'
    BY DEF RowInv
  <2>1. metadata = NewMetadata(c) /\ \A l \in Listers : lister[l].at = "idle"
    BY <1>1 DEF Idle
  <2>2. TableNames # {}
    <3>1. Len(ExportedTables) >= 1 /\ DOMAIN ExportedTables = 1..Len(ExportedTables) /\ Len(ExportedTables) \in Nat
      BY ExportParameters, LenProperties, EmptySeq
    <3>2. 1 \in DOMAIN ExportedTables
      BY <3>1
    <3>3. ExportedTables[1] \in TableNames
      BY <3>2 DEF TableNames, Range
    <3> QED
      BY <3>3
  <2>3. Outcome(metadata.status) # "COMPLETED"
    BY <2>1, <2>2 DEF Outcome, NewMetadata
  <2> QED
    BY <1>1, <1>3, <2>1, <2>3 DEF RowInv, UpdateInv, CompletedInv, FailedInv, InProgressInv
<1> QED
  BY <1>5, <1>6, <1>7, <1>8 DEF ExportInv

\* A call of create_snapshot fails.
LEMMA CreateFailsStep ==
    ASSUME ExportInv, NEW c \in Creators, CreateFails(c)
    PROVE  ExportInv'
<1>1. /\ ExportTypes /\ CreationInv /\ creator[c].at \in {"idle", "metadata", "row"}
      /\ UNCHANGED <<export, metadata, snapshot, lister, caveats>>
      /\ Mishap /\ CreatorAt(c, "failed")
  BY DEF ExportInv, CreateFails
<1>2. /\ creator' \in [Creators -> Creating] /\ creator'[c].at = "failed"
      /\ \A d \in Creators : d # c => creator'[d] = creator[d]
  BY <1>1, CreatorMoves
<1>3. Advance(creator, export, creator', export')
  BY <1>1, <1>2, NoExportEnds
<1>4. ExportTypes'
  BY <1>1, <1>2, ExportParameters DEF ExportTypes, Mishap
<1>5. CreationInv'
  BY <1>1, <1>2 DEF CreationInv
<1> QED
  BY <1>1, <1>3, <1>4, <1>5, CreationFrame DEF ExportInv

\* The handler of the ClientError adds a row that says FAILED.
LEMMA CreateFailedRowStep ==
    ASSUME ExportInv, NEW c \in Creators, CreateFailedRow(c)
    PROVE  ExportInv'
<1>1. /\ ExportTypes /\ CreationInv /\ CopiesInv /\ RowInv /\ creator[c].at = "failed"
      /\ UNCHANGED <<export, metadata, lister>>
      /\ CreatorAt(c, "done")
  BY DEF ExportInv, CreateFailedRow
<1>2. /\ creator' \in [Creators -> Creating] /\ creator'[c].at = "done"
      /\ \A d \in Creators : d # c => creator'[d] = creator[d]
  BY <1>1, CreatorMoves
<1>3. Advance(creator, export, creator', export')
  BY <1>1, <1>2, NoExportEnds
<1>4. CreationInv'
  BY <1>1, <1>2 DEF CreationInv
<1>5. mishaps' \in 0..MaxMishaps
  BY <1>1, ExportParameters DEF CreateFailedRow, Mishap, NoMishap, ExportTypes
<1>6. CASE snapshot' = [by |-> c, status |-> "FAILED"] /\ Caveat({"fault"})
  <2>1. snapshot' \in SnapshotRows /\ snapshot'.by = c /\ snapshot'.status = "FAILED" /\ snapshot' # NoRow
    BY <1>6, ExportParameters DEF SnapshotRows, ExportStatuses
  <2>2. caveats' = caveats \cup {"fault"}
    BY <1>6 DEF Caveat
  <2>3. ExportTypes'
    BY <1>1, <1>2, <1>5, <2>1, <2>2 DEF ExportTypes
  <2>4. CopiesInv'
    <3>1. metadata # NoRow => Agrees(metadata, creator', export')
      BY <1>1, <1>3, AgreesForGood DEF CopiesInv, ExportTypes
    <3>2. \A l \in Listers : HasCopy(l) => lister[l].copy \in Metadata
      BY <1>1, ListerForm DEF ExportTypes, HasCopy
    <3>3. \A l \in Listers : HasCopy(l) => Agrees(lister[l].copy, creator', export')
      BY <1>1, <1>3, <3>2, AgreesForGood DEF CopiesInv
    <3> QED
      BY <1>1, <1>2, <2>1, <3>1, <3>3 DEF CopiesInv, HasCopy
  <2>5. RowInv'
    BY <1>1, <2>1, <2>2 DEF RowInv, UpdateInv, CompletedInv, FailedInv, InProgressInv
  <2> QED
    BY <1>4, <2>3, <2>4, <2>5 DEF ExportInv
<1>7. CASE UNCHANGED <<snapshot, caveats>>
  <2>1. ExportTypes'
    BY <1>1, <1>2, <1>5, <1>7 DEF ExportTypes
  <2> QED
    BY <1>1, <1>3, <1>4, <1>7, <2>1, CreationFrame DEF ExportInv
<1> QED
  BY <1>6, <1>7 DEF CreateFailedRow

-----------------------------------------------------------------------------
(* Every action preserves the invariant: listings *)

\* A thread that lists takes its next step.
LEMMA ListerMoves ==
    ASSUME ExportTypes, NEW l \in Listers, NEW x \in ListerStates, lister' = [lister EXCEPT ![l] = x]
    PROVE  /\ lister' \in [Listers -> ListerStates] /\ lister'[l] = x
           /\ \A k \in Listers : k # l => lister'[k] = lister[k]
  BY DEF ExportTypes

\* A thread keeps its copy of the file when it goes on.
LEMMA ListerKeepsCopy ==
    ASSUME ExportTypes, NEW l \in Listers, HasCopy(l), NEW at \in {"update", "failed"}, ListerAt(l, at)
    PROVE  /\ lister' \in [Listers -> ListerStates] /\ lister'[l].at = at
           /\ lister'[l].copy = lister[l].copy
           /\ \A k \in Listers : k # l => lister'[k] = lister[k]
<1>1. lister[l] \in Listing
  BY ListerForm DEF ExportTypes, HasCopy
<1>2. /\ [lister[l] EXCEPT !.at = at] \in Listing
      /\ [lister[l] EXCEPT !.at = at].at = at
      /\ [lister[l] EXCEPT !.at = at].copy = lister[l].copy
  BY <1>1 DEF Listing
<1>3. [lister[l] EXCEPT !.at = at] \in ListerStates
  BY <1>2 DEF ListerStates
<1>4. lister' = [lister EXCEPT ![l] = [lister[l] EXCEPT !.at = at]]
  BY DEF ListerAt
<1>5. /\ lister' \in [Listers -> ListerStates] /\ lister'[l] = [lister[l] EXCEPT !.at = at]
      /\ \A k \in Listers : k # l => lister'[k] = lister[k]
  BY <1>3, <1>4, ListerMoves
<1> QED
  BY <1>2, <1>5

\* list_snapshots comes to the snapshot, reads its metadata file, or has
\* found nothing new.
LEMMA ListingStep ==
    ASSUME ExportInv, NEW l \in Listers,
           ListSnapshots(l) \/ GetMetadata(l) \/ NothingNew(l)
    PROVE  ExportInv'
<1>1. /\ ExportTypes /\ CreationInv /\ CopiesInv
      /\ UNCHANGED <<export, metadata, snapshot, creator, caveats, mishaps>>
      /\ lister[l].at \notin {"update", "failed"}
  BY DEF ExportInv, ListSnapshots, GetMetadata, NothingNew, Idle
<1>2. CASE ListSnapshots(l)
  <2>1. [at |-> "get"] \in ListerStates /\ [at |-> "get"].at = "get"
    BY DEF ListerStates
  <2>2. /\ lister' \in [Listers -> ListerStates] /\ lister'[l].at = "get"
        /\ \A k \in Listers : k # l => lister'[k] = lister[k]
    BY <1>1, <1>2, <2>1, ListerMoves DEF ListSnapshots
  <2>3. snapshot # NoRow /\ metadata # NoRow
    BY <1>1, <1>2 DEF ListSnapshots, CopiesInv
  <2>4. ExportTypes' /\ CreationInv'
    BY <1>1, <2>2 DEF ExportTypes, CreationInv
  <2>5. CopiesInv' /\ RowInv'
    BY <1>1, <2>2, <2>3, ListingFrame DEF CopiesInv, HasCopy
  <2> QED
    BY <2>4, <2>5 DEF ExportInv
<1>3. CASE GetMetadata(l)
  <2> DEFINE x == [at |-> "describe", copy |-> metadata, todo |-> ExportedTables, updated |-> FALSE]
  <2>1. lister[l].at = "get" /\ lister[l] # Idle
    BY <1>3 DEF GetMetadata, Idle
  <2>2. metadata # NoRow /\ snapshot # NoRow /\ metadata \in Metadata
    BY <1>1, <2>1 DEF CopiesInv, ExportTypes
  <2>3. x \in Listing /\ x.at = "describe" /\ x.copy = metadata
    BY <2>2, ExportParameters DEF Listing
  <2>4. x \in ListerStates
    BY <2>3 DEF ListerStates
  <2>5. /\ lister' \in [Listers -> ListerStates] /\ lister'[l] = x
        /\ \A k \in Listers : k # l => lister'[k] = lister[k]
    BY <1>1, <1>3, <2>4, ListerMoves DEF GetMetadata
  <2>6. ExportTypes' /\ CreationInv'
    BY <1>1, <2>5 DEF ExportTypes, CreationInv
  <2>7. Agrees(metadata, creator, export)
    BY <1>1, <2>2 DEF CopiesInv
  <2> HIDE DEF x
  <2>8. CopiesInv' /\ RowInv'
    BY <1>1, <2>2, <2>3, <2>5, <2>7, ListingFrame DEF CopiesInv, HasCopy
  <2> QED
    BY <2>6, <2>8 DEF ExportInv
<1>4. CASE NothingNew(l)
  <2>1. Idle \in ListerStates /\ Idle.at = "idle"
    BY DEF ListerStates, Idle
  <2>2. /\ lister' \in [Listers -> ListerStates] /\ lister'[l] = Idle
        /\ \A k \in Listers : k # l => lister'[k] = lister[k]
    BY <1>1, <1>4, <2>1, ListerMoves DEF NothingNew, Leave
  <2>3. ExportTypes' /\ CreationInv'
    BY <1>1, <2>2 DEF ExportTypes, CreationInv
  <2>4. CopiesInv' /\ RowInv'
    BY <1>1, <2>1, <2>2, ListingFrame DEF CopiesInv, HasCopy
  <2> QED
    BY <2>3, <2>4 DEF ExportInv
<1> QED
  BY <1>2, <1>3, <1>4

\* __update_snapshot_status looks at the next table: the copy goes on to
\* agree with the exports.
LEMMA DescribeExportStep ==
    ASSUME ExportInv, NEW l \in Listers, DescribeExport(l)
    PROVE  ExportInv'
<1> DEFINE x == lister[l]
           t == Head(x.todo)
           known == x.copy.status[t]
           latest == export[x.copy.by][t]
<1>1. /\ ExportTypes /\ CreationInv /\ CopiesInv /\ x.at = "describe" /\ x.todo # <<>>
      /\ UNCHANGED <<export, metadata, snapshot, creator, caveats, mishaps>>
  BY DEF ExportInv, DescribeExport
<1>2. /\ x \in Listing /\ x.copy \in Metadata /\ x.todo \in Seq(TableNames) /\ x.updated \in BOOLEAN
      /\ x # Idle /\ lister \in [Listers -> ListerStates]
  BY <1>1, ListerForm DEF ExportTypes
<1>3. t \in TableNames /\ Tail(x.todo) \in Seq(TableNames) /\ <<>> \in Seq(TableNames)
  BY <1>1, <1>2, HeadOrTail, EmptySeq
<1>4. Agrees(x.copy, creator, export)
  BY <1>1 DEF CopiesInv, HasCopy
<1>5. /\ x.copy.by \in Creators /\ x.copy.status \in [TableNames -> ExportStatuses]
      /\ latest \in ExportStatuses
  <2>1. x.copy.by \in Creators /\ x.copy.status \in [TableNames -> ExportStatuses]
    BY <1>2 DEF Metadata
  <2>2. latest \in ExportStatuses \cup {"none"} /\ latest # "none"
    BY <1>1, <1>3, <1>4, <2>1 DEF ExportTypes, Agrees
  <2> QED
    BY <2>1, <2>2
<1> DEFINE todo == IF known = "FAILED" THEN <<>> ELSE Tail(x.todo)
           new == IF known = "IN_PROGRESS" THEN latest ELSE known
           updated == x.updated \/ known = "FAILED" \/ (known = "IN_PROGRESS" /\ latest # "IN_PROGRESS")
           ending == [x.copy.status EXCEPT ![t] = new]
           copy == [by |-> x.copy.by, status |-> ending]
           y == [at |-> "describe", copy |-> copy, todo |-> todo, updated |-> updated]
<1>6. new \in ExportStatuses /\ todo \in Seq(TableNames)
  BY <1>3, <1>5
<1>7. updated \in BOOLEAN
  OBVIOUS
<1>8. /\ copy \in Metadata /\ copy.by = x.copy.by /\ copy.status[t] = new
      /\ \A u \in TableNames : u # t => copy.status[u] = x.copy.status[u]
  BY <1>3, <1>5, <1>6 DEF Metadata
<1>9. lister' = [lister EXCEPT ![l].todo = todo, ![l].copy.status[t] = new, ![l].updated = updated]
  BY <1>5 DEF DescribeExport
<1> HIDE DEF todo, new, updated
<1>10. /\ lister'[l].at = "describe" /\ lister'[l].copy = copy
       /\ lister'[l] \in Listing
       /\ \A k \in Listers : k # l => lister'[k] = lister[k]
  BY <1>1, <1>2, <1>3, <1>5, <1>6, <1>7, <1>8, <1>9 DEF Listing, Metadata
<1>11. lister' \in [Listers -> ListerStates]
  BY <1>2, <1>9, <1>10 DEF ListerStates
<1>12. ExportTypes' /\ CreationInv'
  BY <1>1, <1>11 DEF ExportTypes, CreationInv
<1>13. Agrees(copy, creator, export)
  <2>1. new # "IN_PROGRESS" => latest = new
    BY <1>3, <1>4 DEF Agrees, new
  <2> QED
    BY <1>3, <1>4, <1>8, <2>1 DEF Agrees
<1> HIDE DEF copy
<1>14. CopiesInv' /\ RowInv'
  BY <1>1, <1>2, <1>10, <1>11, <1>13, ListingFrame DEF CopiesInv, HasCopy
<1> QED
  BY <1>12, <1>14 DEF ExportInv

\* __update_snapshot_status writes the file: of the exports that it knew to
\* have completed the copy knows too, or the older copy is noted.
LEMMA PutMetadataStep ==
    ASSUME ExportInv, NEW l \in Listers, PutMetadata(l)
    PROVE  ExportInv'
<1> DEFINE copy == lister[l].copy
<1>1. /\ ExportTypes /\ CreationInv /\ CopiesInv /\ RowInv /\ lister[l].at = "describe"
      /\ UNCHANGED <<export, snapshot, creator, mishaps>>
      /\ metadata' = copy /\ ListerAt(l, "update")
  BY DEF ExportInv, PutMetadata
<1>2. /\ caveats \subseteq caveats'
      /\ caveats' \subseteq {"fault", "raced", "recreated", "lost", "crashed"}
      /\ metadata.by # copy.by => "recreated" \in caveats'
      /\ (\E t \in TableNames : metadata.status[t] = "COMPLETED" /\ copy.status[t] = "IN_PROGRESS")
            => "lost" \in caveats'
  BY <1>1 DEF PutMetadata, Caveat, ExportTypes
<1>3. HasCopy(l)
  BY <1>1 DEF HasCopy
<1>4. /\ lister' \in [Listers -> ListerStates] /\ lister'[l].at = "update"
      /\ lister'[l].copy = copy
      /\ \A k \in Listers : k # l => lister'[k] = lister[k]
  BY <1>1, <1>3, ListerKeepsCopy
<1>5. copy \in Metadata /\ Agrees(copy, creator, export) /\ lister[l] # Idle
  BY <1>1, <1>3, ListerForm DEF ExportTypes, CopiesInv, HasCopy
<1>6. /\ metadata \in Metadata /\ metadata # NoRow /\ snapshot # NoRow
      /\ Agrees(metadata, creator, export)
  BY <1>1, <1>5 DEF CopiesInv, ExportTypes
<1>7. copy # NoRow
  BY <1>5, ExportParameters
<1>8. ExportTypes' /\ CreationInv'
  BY <1>1, <1>2, <1>4, <1>5, <1>7 DEF ExportTypes, CreationInv
<1>9. CopiesInv'
  <2>1. Agrees(metadata', creator', export') /\ metadata' # NoRow
    BY <1>1, <1>5, <1>7
  <2>2. \A k \in Listers : HasCopy(k)' => Agrees(lister'[k].copy, creator, export)
    BY <1>1, <1>4, <1>5 DEF CopiesInv, HasCopy
  <2> QED
    BY <1>1, <1>4, <1>6, <2>1, <2>2 DEF CopiesInv, HasCopy
<1>10. RowInv'
  <2> SUFFICES ASSUME "recreated" \notin caveats' PROVE RowInv'
    BY DEF RowInv
  <2>1. /\ UpdateInv /\ CompletedInv /\ FailedInv /\ InProgressInv
        /\ metadata.by = copy.by
    BY <1>1, <1>2 DEF RowInv
  <2>2. ASSUME "lost" \notin caveats', NEW t \in TableNames, metadata.status[t] = "COMPLETED"
        PROVE  copy.status[t] = "COMPLETED"
    <3>1. copy.status[t] # "IN_PROGRESS"
      BY <1>2, <2>2
    <3> QED
      BY <1>5, <1>6, <2>1, <2>2, <3>1 DEF Agrees
  <2>3. UpdateInv'
    <3>1. ASSUME NEW k \in Listers, lister'[k].at = "update", "lost" \notin caveats',
                 metadata'.by = lister'[k].copy.by, NEW t \in TableNames,
                 lister'[k].copy.status[t] = "COMPLETED"
          PROVE  metadata'.status[t] = "COMPLETED"
      <4>1. CASE k = l
        BY <1>1, <1>4, <3>1, <4>1
      <4>2. CASE k # l
        <5>1. metadata.status[t] = "COMPLETED"
          BY <1>1, <1>2, <1>4, <2>1, <3>1, <4>2 DEF UpdateInv
        <5> QED
          BY <1>1, <2>2, <3>1, <5>1
      <4> QED
        BY <4>1, <4>2
    <3> QED
      BY <3>1 DEF UpdateInv
  <2>4. CompletedInv'
    BY <1>1, <1>2, <2>1, <2>2 DEF CompletedInv
  <2>5. FailedInv'
    BY <1>1, <1>2, <1>4, <2>1 DEF FailedInv
  <2>6. InProgressInv'
    BY <1>1, <1>4 DEF InProgressInv
  <2> QED
    BY <2>3, <2>4, <2>5, <2>6 DEF RowInv
<1> QED
  BY <1>8, <1>9, <1>10 DEF ExportInv

\* A thread gives up: a fault is noted.
LEMMA ListFailsStep ==
    ASSUME ExportInv, NEW l \in Listers, ListFails(l)
    PROVE  ExportInv'
<1>1. /\ ExportTypes /\ CreationInv /\ CopiesInv /\ RowInv
      /\ lister[l].at \in {"get", "describe", "update"}
      /\ UNCHANGED <<export, metadata, snapshot, creator>>
      /\ Mishap /\ caveats' = caveats \cup {"fault"}
      /\ lister' = [lister EXCEPT ![l] = [at |-> "failed"]]
  BY DEF ExportInv, ListFails, Caveat
<1>2. [at |-> "failed"] \in ListerStates /\ [at |-> "failed"].at = "failed" /\ lister[l] # Idle
  BY <1>1 DEF ListerStates, Idle
<1>3. /\ lister' \in [Listers -> ListerStates] /\ lister'[l].at = "failed"
      /\ \A k \in Listers : k # l => lister'[k] = lister[k]
  BY <1>1, <1>2, ListerMoves
<1>4. ExportTypes' /\ CreationInv'
  BY <1>1, <1>3, ExportParameters DEF ExportTypes, CreationInv, Mishap
<1>5. CopiesInv'
  BY <1>1, <1>2, <1>3 DEF CopiesInv, HasCopy
<1>6. RowInv'
  BY <1>1, <1>3 DEF RowInv, UpdateInv, CompletedInv, FailedInv, InProgressInv
<1> QED
  BY <1>4, <1>5, <1>6 DEF ExportInv

\* The handler of the ClientError marks the snapshot FAILED, for the reason
\* for which the thread came there, or cannot.
LEMMA MarkFailedStep ==
    ASSUME ExportInv, NEW l \in Listers, MarkFailed(l)
    PROVE  ExportInv'
<1>1. /\ ExportTypes /\ CreationInv /\ CopiesInv /\ RowInv /\ lister[l].at = "failed"
      /\ UNCHANGED <<export, metadata, creator, caveats>>
      /\ lister' = [lister EXCEPT ![l] = Idle]
      /\ \/ snapshot' = [snapshot EXCEPT !.status = "FAILED"]
         \/ UNCHANGED snapshot
  BY DEF ExportInv, MarkFailed, Leave
<1>2. mishaps' \in 0..MaxMishaps
  BY <1>1, ExportParameters DEF MarkFailed, Mishap, NoMishap, ExportTypes
<1>3. Idle \in ListerStates /\ Idle.at = "idle" /\ lister[l] # Idle
  BY <1>1 DEF ListerStates, Idle
<1>4. /\ lister' \in [Listers -> ListerStates] /\ lister'[l] = Idle
      /\ \A k \in Listers : k # l => lister'[k] = lister[k]
  BY <1>1, <1>3, ListerMoves
<1>5. snapshot # NoRow /\ metadata # NoRow /\ snapshot \in SnapshotRows
  BY <1>1, <1>3 DEF CopiesInv, ExportTypes
<1>6. /\ snapshot' \in SnapshotRows /\ snapshot'.by = snapshot.by
      /\ snapshot' = snapshot \/ snapshot'.status = "FAILED"
  BY <1>1, <1>5 DEF SnapshotRows, ExportStatuses
<1>7. snapshot' # NoRow
  BY <1>6, ExportParameters
<1>8. ExportTypes' /\ CreationInv'
  BY <1>1, <1>2, <1>4, <1>6 DEF ExportTypes, CreationInv
<1>9. CopiesInv'
  BY <1>1, <1>3, <1>4, <1>5, <1>6, <1>7 DEF CopiesInv, HasCopy
<1>10. RowInv'
  <2> SUFFICES ASSUME "recreated" \notin caveats PROVE RowInv'
    BY <1>1 DEF RowInv
  <2>1. UpdateInv /\ CompletedInv /\ FailedInv /\ InProgressInv
    BY <1>1 DEF RowInv
  <2>2. \A k \in Listers : lister'[k].at \in {"update", "failed"} => lister'[k] = lister[k]
    BY <1>3, <1>4
  <2>3. UpdateInv'
    BY <1>1, <2>1, <2>2 DEF UpdateInv
  <2>4. CompletedInv'
    BY <1>1, <1>5, <1>6, <2>1 DEF CompletedInv
  <2>5. FailedInv'
    BY <1>1, <1>5, <1>6, <2>1 DEF FailedInv
  <2>6. InProgressInv'
    <3>1. CASE snapshot'.status = "FAILED"
      BY <3>1 DEF InProgressInv
    <3>2. CASE snapshot' = snapshot
      BY <1>1, <1>4, <2>1, <3>2 DEF InProgressInv
    <3> QED
      BY <1>6, <3>1, <3>2
  <2> QED
    BY <2>3, <2>4, <2>5, <2>6 DEF RowInv
<1> QED
  BY <1>8, <1>9, <1>10 DEF ExportInv

\* The status of a snapshot, from the statuses of its tables.
LEMMA OutcomeMeans ==
    ASSUME NEW ending
    PROVE  /\ Outcome(ending) \in ExportStatuses
           /\ Outcome(ending) = "COMPLETED" => \A t \in TableNames : ending[t] = "COMPLETED"
           /\ Outcome(ending) = "FAILED" => \E t \in TableNames : ending[t] = "FAILED"
  BY DEF Outcome, ExportStatuses

\* update_snapshot_status: the thread's copy says how the exports have ended.
\* Where the table refuses the update the snapshot had failed already, or two
\* threads found it completed.
LEMMA UpdateStatusStep ==
    ASSUME ExportInv, NEW l \in Listers, UpdateStatus(l)
    PROVE  ExportInv'
<1> DEFINE copy == lister[l].copy
           ending == Outcome(copy.status)
<1>1. /\ ExportTypes /\ CreationInv /\ CopiesInv /\ RowInv /\ lister[l].at = "update"
      /\ UNCHANGED <<export, metadata, creator, mishaps>>
  BY DEF ExportInv, UpdateStatus
<1>2. HasCopy(l) /\ lister[l] # Idle
  BY <1>1 DEF HasCopy, Idle
<1>3. /\ copy \in Metadata /\ Agrees(copy, creator, export)
      /\ snapshot \in SnapshotRows /\ snapshot # NoRow /\ metadata # NoRow
  BY <1>1, <1>2, ListerForm DEF ExportTypes, CopiesInv, HasCopy
<1>4. /\ ending \in ExportStatuses
      /\ ending = "COMPLETED" =>
            \A t \in TableNames : copy.status[t] = "COMPLETED" /\ export[copy.by][t] = "COMPLETED"
      /\ ending = "FAILED" => \E t \in TableNames : export[copy.by][t] = "FAILED"
  BY <1>3, OutcomeMeans DEF Agrees
<1>5. Idle \in ListerStates /\ Idle.at = "idle"
  BY DEF ListerStates, Idle
<1>6. ASSUME Leave(l)
      PROVE  /\ lister' \in [Listers -> ListerStates] /\ lister'[l] = Idle
             /\ \A k \in Listers : k # l => lister'[k] = lister[k]
  BY <1>1, <1>5, <1>6, ListerMoves DEF Leave
<1>7. CreationInv'
  BY <1>1 DEF CreationInv
<1>8. CASE ending = "IN_PROGRESS"
  <2>1. Leave(l) /\ UNCHANGED <<snapshot, caveats>>
    BY <1>8 DEF UpdateStatus
  <2>2. /\ lister' \in [Listers -> ListerStates] /\ lister'[l] = Idle
        /\ \A k \in Listers : k # l => lister'[k] = lister[k]
    BY <1>6, <2>1
  <2>3. ExportTypes'
    BY <1>1, <2>1, <2>2 DEF ExportTypes
  <2>4. CopiesInv'
    BY <1>1, <1>5, <2>1, <2>2 DEF CopiesInv, HasCopy
  <2>5. ASSUME NEW k \in Listers, Outcome(lister[k].copy.status) = "COMPLETED"
        PROVE  lister'[k] = lister[k]
    BY <1>8, <2>2, <2>5
  <2>6. RowInv'
    <3> SUFFICES ASSUME "recreated" \notin caveats PROVE RowInv'
      BY <2>1 DEF RowInv
    <3>1. UpdateInv /\ CompletedInv /\ FailedInv /\ InProgressInv
      BY <1>1 DEF RowInv
    <3>2. UpdateInv'
      BY <1>1, <1>5, <2>1, <2>2, <3>1 DEF UpdateInv
    <3>3. CompletedInv'
      BY <1>1, <2>1, <3>1 DEF CompletedInv
    <3>4. FailedInv'
      BY <1>1, <1>5, <2>1, <2>2, <3>1 DEF FailedInv
    <3>5. InProgressInv'
      BY <1>1, <2>1, <2>5, <3>1 DEF InProgressInv
    <3> QED
      BY <3>2, <3>3, <3>4, <3>5 DEF RowInv
  <2> QED
    BY <1>7, <2>3, <2>4, <2>6 DEF ExportInv
<1>9. CASE ending # "IN_PROGRESS" /\ ending # snapshot.status
  <2>1. /\ snapshot' = [snapshot EXCEPT !.status = ending] /\ Leave(l)
        /\ Caveat(IF snapshot.by # copy.by THEN {"recreated"} ELSE {})
    BY <1>9 DEF UpdateStatus
  <2> HIDE DEF ending
  <2>2. /\ lister' \in [Listers -> ListerStates] /\ lister'[l] = Idle
        /\ \A k \in Listers : k # l => lister'[k] = lister[k]
    BY <1>6, <2>1
  <2>3. /\ snapshot' \in SnapshotRows /\ snapshot'.by = snapshot.by /\ snapshot'.status = ending
    BY <1>3, <1>4, <2>1 DEF SnapshotRows
  <2>4. snapshot' # NoRow
    BY <2>3, ExportParameters
  <2>5. /\ caveats \subseteq caveats'
        /\ caveats' \subseteq {"fault", "raced", "recreated", "lost", "crashed"}
        /\ snapshot.by # copy.by => "recreated" \in caveats'
    BY <1>1, <2>1 DEF Caveat, ExportTypes
  <2>6. ExportTypes'
    BY <1>1, <2>2, <2>3, <2>5 DEF ExportTypes
  <2>7. CopiesInv'
    BY <1>1, <1>3, <1>5, <2>2, <2>3, <2>4 DEF CopiesInv, HasCopy
  <2>8. RowInv'
    <3> SUFFICES ASSUME "recreated" \notin caveats' PROVE RowInv'
      BY DEF RowInv
    <3>1. UpdateInv /\ CompletedInv /\ FailedInv /\ snapshot.by = copy.by
      BY <1>1, <2>5 DEF RowInv
    <3>2. UpdateInv'
      BY <1>1, <1>5, <2>2, <2>5, <3>1 DEF UpdateInv
    <3>3. CompletedInv'
      <4>1. ASSUME ending = "COMPLETED", NEW t \in TableNames
            PROVE  /\ export[copy.by][t] = "COMPLETED"
                   /\ metadata.by = copy.by /\ "lost" \notin caveats' => metadata.status[t] = "COMPLETED"
        BY <1>1, <1>4, <2>5, <3>1, <4>1 DEF UpdateInv
      <4> QED
        BY <1>1, <2>3, <3>1, <4>1 DEF CompletedInv
    <3>4. FailedInv'
      <4>1. CASE ending = "FAILED"
        BY <1>1, <1>4, <2>3, <3>1, <4>1 DEF FailedInv
      <4>2. CASE ending # "FAILED"
        BY <1>1, <1>3, <1>5, <2>2, <2>3, <2>5, <3>1, <4>2 DEF FailedInv
      <4> QED
        BY <4>1, <4>2
    <3>5. InProgressInv'
      BY <1>9, <2>3 DEF InProgressInv
    <3> QED
      BY <3>2, <3>3, <3>4, <3>5 DEF RowInv
  <2> QED
    BY <1>7, <2>6, <2>7, <2>8 DEF ExportInv
<1>10. CASE ending # "IN_PROGRESS" /\ ending = snapshot.status
  <2>1. /\ UNCHANGED snapshot /\ ListerAt(l, "failed")
        /\ Caveat(IF ending = "COMPLETED" THEN {"raced"} ELSE {})
    BY <1>10 DEF UpdateStatus
  <2> HIDE DEF ending
  <2>2. /\ lister' \in [Listers -> ListerStates] /\ lister'[l].at = "failed"
        /\ \A k \in Listers : k # l => lister'[k] = lister[k]
    BY <1>1, <1>2, <2>1, ListerKeepsCopy
  <2>3. /\ caveats \subseteq caveats'
        /\ caveats' \subseteq {"fault", "raced", "recreated", "lost", "crashed"}
        /\ ending = "COMPLETED" => "raced" \in caveats'
    BY <1>1, <2>1 DEF Caveat, ExportTypes
  <2>4. ExportTypes'
    BY <1>1, <2>1, <2>2, <2>3 DEF ExportTypes
  <2>5. CopiesInv'
    BY <1>1, <1>3, <2>1, <2>2 DEF CopiesInv, HasCopy
  <2>6. RowInv'
    <3> SUFFICES ASSUME "recreated" \notin caveats' PROVE RowInv'
      BY DEF RowInv
    <3>1. UpdateInv /\ CompletedInv /\ FailedInv
      BY <1>1, <2>3 DEF RowInv
    <3>2. UpdateInv'
      BY <1>1, <2>1, <2>2, <2>3, <3>1 DEF UpdateInv
    <3>3. CompletedInv'
      BY <1>1, <2>1, <2>3, <3>1 DEF CompletedInv
    <3>4. FailedInv'
      <4>1. CASE ending = "COMPLETED"
        BY <2>3, <4>1 DEF FailedInv
      <4>2. CASE ending = "FAILED"
        BY <1>1, <1>10, <2>1, <2>3, <3>1, <4>2 DEF FailedInv
      <4> QED
        BY <1>4, <1>10, <4>1, <4>2 DEF ExportStatuses
    <3>5. InProgressInv'
      BY <1>10, <2>1 DEF InProgressInv
    <3> QED
      BY <3>2, <3>3, <3>4, <3>5 DEF RowInv
  <2> QED
    BY <1>7, <2>4, <2>5, <2>6 DEF ExportInv
<1> QED
  BY <1>8, <1>9, <1>10

\* The cluster manager dies: a thread that was about to write the row is
\* noted.
LEMMA CrashRequestsStep ==
    ASSUME ExportInv, CrashRequests
    PROVE  ExportInv'
<1>1. /\ ExportTypes /\ CreationInv /\ CopiesInv /\ RowInv
      /\ UNCHANGED <<export, metadata, snapshot>> /\ Mishap
      /\ lister' = [l \in Listers |-> Idle]
  BY DEF ExportInv, CrashRequests
<1>2. /\ caveats \subseteq caveats'
      /\ caveats' \subseteq {"fault", "raced", "recreated", "lost", "crashed"}
      /\ (\E l \in Listers : lister[l].at \in {"update", "failed"}) => "crashed" \in caveats'
  BY <1>1 DEF CrashRequests, Caveat, ExportTypes
<1>3. \A l \in Listers : lister'[l] = Idle /\ lister'[l].at = "idle"
  BY <1>1 DEF Idle
<1>4. lister' \in [Listers -> ListerStates]
  BY <1>1 DEF ListerStates
<1>5. \A c \in Creators : creator'[c] = creator[c] \/ creator'[c] = [at |-> "done", todo |-> <<>>]
  BY DEF CrashRequests
<1>6. \A c \in Creators : creator'[c] = creator[c] \/ creator'[c].at = "done"
  BY <1>5
<1>7. creator' \in [Creators -> Creating]
  <2>1. [at |-> "done", todo |-> <<>>] \in Creating
    BY EmptySeq DEF Creating
  <2>2. \A c \in Creators : creator'[c] \in Creating
    BY <1>1, <1>5, <2>1 DEF ExportTypes
  <2>3. creator' = [c \in Creators |-> creator'[c]]
    BY DEF CrashRequests
  <2> QED
    BY <2>2, <2>3
<1>8. Advance(creator, export, creator', export')
  BY <1>1, <1>6, NoExportEnds
<1>9. ExportTypes'
  BY <1>1, <1>2, <1>4, <1>7, ExportParameters DEF ExportTypes, Mishap
<1>10. CreationInv'
  BY <1>1, <1>6 DEF CreationInv
<1>11. CopiesInv'
  <2>1. metadata # NoRow => Agrees(metadata, creator', export')
    BY <1>1, <1>8, AgreesForGood DEF CopiesInv, ExportTypes
  <2>2. snapshot # NoRow => creator'[snapshot.by].at = "done"
    BY <1>1, <1>8 DEF CopiesInv, Advance, ExportTypes, SnapshotRows
  <2> QED
    BY <1>1, <1>3, <2>1, <2>2 DEF CopiesInv, HasCopy
<1>12. RowInv'
  <2> SUFFICES ASSUME "recreated" \notin caveats' PROVE RowInv'
    BY DEF RowInv
  <2>1. UpdateInv /\ CompletedInv /\ FailedInv /\ InProgressInv
    BY <1>1, <1>2 DEF RowInv
  <2>2. UpdateInv'
    BY <1>3 DEF UpdateInv
  <2>3. CompletedInv'
    BY <1>1, <1>2, <2>1 DEF CompletedInv
  <2>4. FailedInv'
    BY <1>1, <1>2, <1>3, <2>1 DEF FailedInv
  <2>5. InProgressInv'
    BY <1>1, <1>2, <2>1 DEF InProgressInv
  <2> QED
    BY <2>2, <2>3, <2>4, <2>5 DEF RowInv
<1> QED
  BY <1>9, <1>10, <1>11, <1>12 DEF ExportInv

-----------------------------------------------------------------------------
(* The theorems about the export *)

\* Nothing has been created yet.
LEMMA ExportStarts ==
    ASSUME Init
    PROVE  ExportInv
<1>1. ExportInit
  BY DEF Init
<1>2. /\ \A c \in Creators : creator[c].at = "idle" /\ creator[c].todo = ExportedTables
      /\ \A l \in Listers : lister[l] = Idle /\ lister[l].at = "idle"
      /\ metadata = NoRow /\ snapshot = NoRow
  BY <1>1 DEF ExportInit, Idle
<1>3. creator \in [Creators -> Creating]
  <2>1. [at |-> "idle", todo |-> ExportedTables] \in Creating
    BY ExportParameters DEF Creating
  <2> QED
    BY <1>1, <2>1 DEF ExportInit
<1>4. lister \in [Listers -> ListerStates]
  BY <1>1 DEF ExportInit, ListerStates
<1>5. ExportTypes
  BY <1>1, <1>3, <1>4, ExportParameters DEF ExportInit, ExportTypes
<1>6. CreationInv
  BY <1>2 DEF CreationInv, TableNames
<1>7. CopiesInv
  BY <1>2 DEF CopiesInv, HasCopy
<1>8. RowInv
  BY <1>2 DEF RowInv, UpdateInv, CompletedInv, FailedInv, InProgressInv
<1> QED
  BY <1>5, <1>6, <1>7, <1>8 DEF ExportInv

\* What is said of the export is said of its variables only.
LEMMA ExportStutters ==
    ASSUME ExportInv, UNCHANGED exportVars
    PROVE  ExportInv'
  BY DEF exportVars, ExportInv, ExportTypes, CreationInv, CopiesInv, HasCopy,
         RowInv, UpdateInv, CompletedInv, FailedInv, InProgressInv

\* The inductive invariant of the export holds of create_snapshot and
\* list_snapshots, in whatever order their threads run.
THEOREM ExportInvariant == Spec => []ExportInv
<1>1. Init => ExportInv
  BY ExportStarts
<1>2. ExportInv /\ [Next]_vars => ExportInv'
  <2> SUFFICES ASSUME ExportInv, [Next]_vars PROVE ExportInv'
    OBVIOUS
  <2>1. CASE ExportNext
    BY <2>1, ExportEndsStep, StartExportStep, WriteMetadataStep, CreateRowStep, CreateFailsStep,
       CreateFailedRowStep, ListingStep, DescribeExportStep, PutMetadataStep, UpdateStatusStep,
       ListFailsStep, MarkFailedStep, CrashRequestsStep DEF ExportNext
  <2>2. CASE UNCHANGED exportVars
    BY <2>2, ExportStutters
  <2> QED
    BY <2>1, <2>2 DEF Next, Finished, vars
<1> QED
  BY <1>1, <1>2, PTL DEF Spec

\* The row of a snapshot says what became of it, as __update_snapshot_status
\* left it: COMPLETED only of exports that have all completed, FAILED only for
\* a reason, IN_PROGRESS only while a thread has yet to write what it found.
THEOREM ExportStatusHolds == Spec => []ExportStatusIsTrue
<1>1. ExportInv => ExportStatusIsTrue
  BY DEF ExportInv, RowInv, CompletedInv, FailedInv, InProgressInv, ExportStatusIsTrue
<1> QED
  BY <1>1, ExportInvariant, PTL

-----------------------------------------------------------------------------
(* The inductive invariant of the applications *)

UserDeltas == [user : Users, old : Roles]

\* The names of the rows that were there with the very content of the
\* snapshot: no application writes a row of such a name, and none of these
\* rows ever goes.
Same(R) == {r.name : r \in {q \in R : q.by = "same"}}

\* What an application may remember of a table.
DeltasOf(a, s, same) ==
    IF s = 1 THEN UserDeltas
    ELSE {r \in RowsOf(Names) : r.by = a /\ r.name \notin same}

\* Before the merge, and after a crash, a thread is just somewhere.
Brief == [at : {"none", "import", "read", "cleanup", "done", "dead"}]
Deltas == UserDeltas \cup RowsOf(Names)
Merging == [at : {"resolve", "write", "complete", "announce", "rollback", "cleanup", "done"},
            t : 0..5, todo : Seq(Names), target : Roles \cup Applications \cup {None},
            mine : Seq(Deltas), deltas : [1..5 -> Seq(Deltas)]]
AppStates == Brief \cup Merging

\* Where the thread of application a is in its loops.
ThreadInv(a, x, same) ==
    /\ x.at \in {"resolve", "write", "announce", "rollback"} =>
        \A s \in 1..5 : x.deltas[s] \in Seq(DeltasOf(a, s, same))
    /\ x.at \in {"resolve", "write"} =>
        /\ x.t \in 1..5 /\ x.todo \in Seq(Range(Records[x.t])) /\ x.mine \in Seq(DeltasOf(a, x.t, same))
        /\ \A s \in 1..5 : s >= x.t => x.deltas[s] = <<>>
    /\ x.at = "write" =>
        /\ x.todo # <<>>
        /\ x.t = 1 => x.target \in Roles /\ Head(x.todo) \in Users
        /\ x.t # 1 => x.target \in {a, None} /\ Head(x.todo) \notin same

\* What the application still has to undo of table s.
Pending(x, s) ==
    IF x.at \in {"resolve", "write"} /\ s = x.t THEN Range(x.mine)
    ELSE IF x.at \in {"resolve", "write", "announce"} \/ (x.at = "rollback" /\ s <= x.t)
    THEN Range(x.deltas[s]) ELSE {}

\* What has been left in the environment can be undone.
TraceInv(a, x, st, ex, R, ro) ==
    \/ ex \cap {"escaped", "halfway", "abandoned", "overlap"} # {}
    \/ x.at \in {"complete", "dead"}
    \/ x.at \in {"cleanup", "done"} /\ st \notin {"ROLLBACK_COMPLETE", "FAILED"}
    \/ /\ \A r \in R : r.by = a => \E s \in 2..5 : r \in Pending(x, s)
       /\ \A u \in Users : ro[u].by = a => \E d \in Pending(x, 1) : d.user = u

\* Every record that the merge has passed has its row, or cannot have one.
MergedInv(a, x, st, ex, R) ==
    /\ "prefix" \notin ex
    /\ \/ x.at \in {"resolve", "write", "complete"}
       \/ x.at \in {"cleanup", "done"} /\ st = "COMPLETED"
    => \A s \in 2..5 : \A n \in Range(Records[s]) :
        \/ x.at \in {"resolve", "write"} /\ (s > x.t \/ (s = x.t /\ n \in Range(x.todo)))
        \/ n \in Unfit[a]
        \/ \E r \in R : r.name = n /\ r.by \in {a, "same"}

TempInv(a, x, ex, te) ==
    /\ x.at = "none" => a \notin te
    /\ x.at = "done" => a \notin te \/ "undeleted" \in ex

AppInv(a, x, st, ex, R, ro, te) ==
    /\ ThreadInv(a, x, Same(R))
    /\ TraceInv(a, x, st, ex, R, ro)
    /\ MergedInv(a, x, st, ex, R)
    /\ TempInv(a, x, ex, te)

ApplyTypes ==
    /\ rows \subseteq RowsOf(Names) /\ used \subseteq RowsOf(Names)
    /\ role \in [Users -> Roles]
    /\ status \in [Applications -> Statuses]
    /\ app \in [Applications -> AppStates]
    /\ temp \subseteq Applications
    /\ excuse \in [Applications -> SUBSET {"overlap", "escaped", "halfway", "abandoned", "prefix", "undeleted"}]
    /\ faults \in 0..MaxFaults /\ events \in 0..MaxEvents

ApplyInv ==
    /\ ApplyTypes
    /\ \A r \in rows : r.by \in Applications => r.name \notin Same(rows) \cup Unfit[r.by]
    /\ \A a \in Applications : AppInv(a, app[a], status[a], excuse[a], rows, role, temp)

-----------------------------------------------------------------------------
(* Applications and their environment *)

\* The list of the tables, and who the applications are not.
LEMMA ApplyFacts ==
    /\ DOMAIN Tables = 1..5 /\ Len(Tables) = 5
    /\ \A a \in Applications : a \notin {"env", "same", "admin", None}
    /\ \A s \in 1..5 : Records[s] \in Seq(Range(Records[s])) /\ Range(Records[s]) \subseteq Names
    /\ Users \subseteq Range(Records[1])
<1>1. DOMAIN Tables = 1..5 /\ Len(Tables) = 5
  BY DEF Tables
<1>2. \A a \in Applications : a \notin {"env", "same", "admin", None}
  BY ApplyParameters
<1>3. \A s \in 1..5 : Records[s] \in Seq(Range(Records[s]))
  BY <1>1, ApplyParameters
<1>4. \A s \in 1..5 : Range(Records[s]) \subseteq Names
  BY <1>1 DEF Names
<1> QED
  BY <1>1, <1>2, <1>3, <1>4 DEF Users

\* Rows that come and go leave the names of the very content alone.
LEMMA SameForGood ==
    ASSUME NEW R, NEW R1,
           \A r \in R1 : r.by = "same" => r \in R,
           \A r \in R : r.by = "same" => r \in R1
    PROVE  Same(R1) = Same(R)
  BY DEF Same

\* What others do to the environment is noted where it matters to b.
LEMMA OthersKeep ==
    ASSUME NEW b, NEW x, NEW st, NEW ex, NEW R, NEW ro, NEW te, AppInv(b, x, st, ex, R, ro, te),
           NEW ex1, NEW R1, NEW ro1, NEW te1, ex \subseteq ex1, Same(R1) = Same(R),
           \A r \in R1 : r.by = b => r \in R,
           \A r \in R : r.by = "same" => r \in R1,
           \A r \in R : r.by = b => r \in R1 \/ "prefix" \in ex1,
           \A u \in Users : ro1[u].by = b => ro[u].by = b \/ "overlap" \in ex1,
           b \in te1 => b \in te
    PROVE  AppInv(b, x, st, ex1, R1, ro1, te1)
<1>1. ThreadInv(b, x, Same(R1))
  BY DEF AppInv
<1>2. TraceInv(b, x, st, ex1, R1, ro1)
  BY DEF AppInv, TraceInv
<1>3. MergedInv(b, x, st, ex1, R1)
  BY DEF AppInv, MergedInv
<1>4. TempInv(b, x, ex1, te1)
  BY DEF AppInv, TempInv
<1> QED
  BY <1>1, <1>2, <1>3, <1>4 DEF AppInv

\* A step of application a: what it must leave to the others.
LEMMA ApplyStep ==
    ASSUME ApplyInv, NEW a \in Applications, ApplyTypes',
           \A r \in rows' : r \in rows \/ (r.by = a /\ r.name \notin Same(rows) \cup Unfit[a]),
           \A r \in rows : r.by = "same" => r \in rows',
           \A b \in Applications : b # a =>
               /\ app'[b] = app[b] /\ status'[b] = status[b] /\ excuse[b] \subseteq excuse'[b]
               /\ b \in temp' => b \in temp
               /\ \A r \in rows : r.by = b => r \in rows' \/ "prefix" \in excuse'[b]
               /\ \A u \in Users : role'[u].by = b => role[u].by = b \/ "overlap" \in excuse'[b],
           AppInv(a, app'[a], status'[a], excuse'[a], rows', role', temp')
    PROVE  ApplyInv'
<1>1. Same(rows') = Same(rows)
  <2>1. a # "same"
    BY ApplyFacts
  <2> QED
    BY <2>1, SameForGood
<1>2. \A r \in rows' : r.by \in Applications => r.name \notin Same(rows') \cup Unfit[r.by]
  BY <1>1 DEF ApplyInv
<1>3. ASSUME NEW b \in Applications, b # a
      PROVE  AppInv(b, app'[b], status'[b], excuse'[b], rows', role', temp')
  <2>1. AppInv(b, app[b], status[b], excuse[b], rows, role, temp)
    BY DEF ApplyInv
  <2>2. \A r \in rows' : r.by = b => r \in rows
    BY <1>3
  <2>3. AppInv(b, app[b], status[b], excuse'[b], rows', role', temp')
    BY <1>1, <1>3, <2>1, <2>2, OthersKeep
  <2> QED
    BY <1>3, <2>3
<1> QED
  BY <1>2, <1>3 DEF ApplyInv

\* A step of application a in which the environment stays as it is.
LEMMA QuietStep ==
    ASSUME ApplyInv, NEW a \in Applications, UNCHANGED <<rows, role, used, events>>,
           faults' \in 0..MaxFaults,
           app' \in [Applications -> AppStates], status' \in [Applications -> Statuses],
           excuse' \in [Applications -> SUBSET {"overlap", "escaped", "halfway", "abandoned", "prefix", "undeleted"}],
           temp' \subseteq Applications,
           \A b \in Applications : b # a =>
               /\ app'[b] = app[b] /\ status'[b] = status[b] /\ excuse[b] \subseteq excuse'[b]
               /\ b \in temp' => b \in temp,
           AppInv(a, app'[a], status'[a], excuse'[a], rows, role, temp')
    PROVE  ApplyInv'
<1>1. ApplyTypes'
  BY DEF ApplyInv, ApplyTypes
<1> QED
  BY <1>1, ApplyStep

\* A thread goes on, and keeps what it remembers.
LEMMA Goes ==
    ASSUME ApplyTypes, NEW a \in Applications,
           NEW at \in {"import", "read", "cleanup", "done", "complete", "announce", "rollback"},
           Goto(a, at), app[a] \in Brief => at \in {"import", "read", "cleanup", "done"},
           app[a] \in Merging => at \notin {"import", "read"}
    PROVE  /\ app' \in [Applications -> AppStates] /\ app'[a].at = at
           /\ app[a] \in Merging => /\ app'[a].t = app[a].t /\ app'[a].deltas = app[a].deltas
           /\ \A b \in Applications : b # a => app'[b] = app[b]
<1>1. app \in [Applications -> AppStates]
  BY DEF ApplyTypes
<1>2. app' = [app EXCEPT ![a] = [app[a] EXCEPT !.at = at]]
  BY DEF Goto
<1>3. CASE app[a] \in Brief /\ app[a] \notin Merging
  <2>1. [app[a] EXCEPT !.at = at] \in Brief /\ [app[a] EXCEPT !.at = at].at = at
    BY <1>3 DEF Brief
  <2> QED
    BY <1>1, <1>2, <1>3, <2>1 DEF AppStates
<1>4. CASE app[a] \in Merging
  <2>1. /\ [app[a] EXCEPT !.at = at] \in Merging /\ [app[a] EXCEPT !.at = at].at = at
        /\ [app[a] EXCEPT !.at = at].t = app[a].t
        /\ [app[a] EXCEPT !.at = at].deltas = app[a].deltas
    BY <1>4 DEF Merging
  <2> QED
    BY <1>1, <1>2, <2>1 DEF AppStates
<1> QED
  BY <1>1, <1>3, <1>4 DEF AppStates

\* A record of an application is written.
LEMMA Marks ==
    ASSUME ApplyTypes, NEW a \in Applications, NEW s \in Statuses, SetStatus(a, s)
    PROVE  /\ status' \in [Applications -> Statuses] /\ status'[a] = s
           /\ \A b \in Applications : b # a => status'[b] = status[b]
  BY DEF ApplyTypes, SetStatus

\* Something is noted of an application.
LEMMA Notes ==
    ASSUME ApplyTypes, NEW a \in Applications,
           NEW labels \in SUBSET {"overlap", "escaped", "halfway", "abandoned", "prefix", "undeleted"},
           Note(a, labels)
    PROVE  /\ excuse' \in [Applications -> SUBSET {"overlap", "escaped", "halfway", "abandoned", "prefix", "undeleted"}]
           /\ excuse'[a] = excuse[a] \cup labels
           /\ \A b \in Applications : b # a => excuse'[b] = excuse[b]
  BY DEF ApplyTypes, Note

\* Faults are counted.
LEMMA FaultsCounted ==
    ASSUME ApplyTypes, Fault \/ NoFault
    PROVE  faults' \in 0..MaxFaults
  BY ApplyParameters DEF ApplyTypes, Fault, NoFault

\* Only a thread in the merge or the rollback remembers anything.
LEMMA AppForm ==
    ASSUME ApplyTypes, NEW a \in Applications
    PROVE  /\ app[a].at \in {"none", "import", "read", "dead"} => app[a] \in Brief /\ app[a] \notin Merging
           /\ app[a].at \in {"resolve", "write", "complete", "announce", "rollback"} =>
                /\ app[a] \in Merging /\ app[a] \notin Brief
                /\ app[a].t \in 0..5 /\ app[a].mine \in Seq(Deltas)
                /\ app[a].deltas \in [1..5 -> Seq(Deltas)]
           /\ app[a] \in AppStates
           /\ app[a].at \in {"none", "import", "read", "dead", "resolve", "write", "complete", "announce",
                             "rollback", "cleanup", "done"}
  BY DEF ApplyTypes, AppStates, Brief, Merging

\* As long as nothing is forgotten, everything can be undone.
LEMMA TraceMoves ==
    ASSUME NEW a, NEW x, NEW y, NEW st, NEW st1, NEW ex, NEW ex1, NEW R, NEW ro,
           TraceInv(a, x, st, ex, R, ro), ex \subseteq ex1,
           \/ x.at \in {"none", "import", "read", "resolve", "write", "announce", "rollback"}
           \/ x.at = "cleanup" /\ y.at = "done" /\ st1 = st,
           \A s \in 1..5 : Pending(x, s) \subseteq Pending(y, s)
    PROVE  TraceInv(a, y, st1, ex1, R, ro)
  BY DEF TraceInv

-----------------------------------------------------------------------------
(* Every action preserves the invariant: before the merge, and at the end *)

\* initialize creates the record of the application.
LEMMA InitializeStep ==
    ASSUME ApplyInv, NEW a \in Applications, Initialize(a)
    PROVE  ApplyInv'
<1>1. /\ ApplyTypes /\ AppInv(a, app[a], status[a], excuse[a], rows, role, temp) /\ app[a].at = "none"
      /\ UNCHANGED <<rows, role, used, temp, excuse, events>>
  BY DEF ApplyInv, Initialize, environmentVars
<1>2. app[a] \in Brief /\ app[a] \notin Merging
  BY <1>1, AppForm
<1>3. PICK s \in {"IN_PROGRESS", "FAILED"}, at \in {"import", "done"} :
        SetStatus(a, s) /\ Goto(a, at) /\ (Fault \/ NoFault)
  BY DEF Initialize
<1>4. /\ app' \in [Applications -> AppStates] /\ app'[a].at = at
      /\ \A b \in Applications : b # a => app'[b] = app[b]
  BY <1>1, <1>2, <1>3, Goes
<1>5. /\ status' \in [Applications -> Statuses] /\ status'[a] = s
      /\ \A b \in Applications : b # a => status'[b] = status[b]
  <2>1. s \in Statuses
    BY DEF Statuses
  <2> QED
    BY <1>1, <1>3, <2>1, Marks
<1>6. faults' \in 0..MaxFaults
  BY <1>1, <1>3, FaultsCounted
<1>7. AppInv(a, app'[a], status'[a], excuse[a], rows, role, temp)
  <2>1. TraceInv(a, app'[a], status'[a], excuse[a], rows, role)
    BY <1>1, <1>4, TraceMoves DEF AppInv, Pending
  <2>2. ThreadInv(a, app'[a], Same(rows)) /\ TempInv(a, app'[a], excuse[a], temp)
    BY <1>1, <1>4 DEF AppInv, ThreadInv, TempInv
  <2>3. MergedInv(a, app'[a], status'[a], excuse[a], rows)
    BY <1>4, <1>5 DEF MergedInv
  <2> QED
    BY <2>1, <2>2, <2>3 DEF AppInv
<1> QED
  BY <1>1, <1>4, <1>5, <1>6, <1>7, QuietStep DEF ApplyTypes

\* An exception before the merge: the application has failed and left nothing.
LEMMA ImportAllTablesStep ==
    ASSUME ApplyInv, NEW a \in Applications, ImportAllTables(a)
    PROVE  ApplyInv'
<1>1. /\ ApplyTypes /\ AppInv(a, app[a], status[a], excuse[a], rows, role, temp) /\ app[a].at = "import"
      /\ UNCHANGED <<rows, role, used, excuse, events>> /\ temp' = temp \cup {a}
  BY DEF ApplyInv, ImportAllTables, environmentVars
<1>2. app[a] \in Brief /\ app[a] \notin Merging
  BY <1>1, AppForm
<1>3. PICK at \in {"read", "cleanup"} :
        /\ Goto(a, at) /\ (Fault \/ NoFault)
        /\ (at = "read" /\ UNCHANGED status) \/ SetStatus(a, "FAILED")
  BY DEF ImportAllTables, Fail
<1>4. /\ app' \in [Applications -> AppStates] /\ app'[a].at = at
      /\ \A b \in Applications : b # a => app'[b] = app[b]
  BY <1>1, <1>2, <1>3, Goes
<1>5. /\ status' \in [Applications -> Statuses]
      /\ at = "cleanup" => status'[a] = "FAILED"
      /\ \A b \in Applications : b # a => status'[b] = status[b]
  <2>1. "FAILED" \in Statuses
    BY DEF Statuses
  <2> QED
    BY <1>1, <1>3, <2>1, Marks DEF ApplyTypes
<1>6. faults' \in 0..MaxFaults
  BY <1>1, <1>3, FaultsCounted
<1>7. AppInv(a, app'[a], status'[a], excuse[a], rows, role, temp')
  <2>1. TraceInv(a, app'[a], status'[a], excuse[a], rows, role)
    BY <1>1, <1>4, TraceMoves DEF AppInv, Pending
  <2>2. ThreadInv(a, app'[a], Same(rows)) /\ TempInv(a, app'[a], excuse[a], temp')
    BY <1>1, <1>4 DEF AppInv, ThreadInv, TempInv
  <2>3. MergedInv(a, app'[a], status'[a], excuse[a], rows)
    BY <1>4, <1>5 DEF MergedInv
  <2> QED
    BY <2>1, <2>2, <2>3 DEF AppInv
<1> QED
  BY <1>1, <1>4, <1>5, <1>6, <1>7, QuietStep DEF ApplyTypes

\* The tables have been read, and the merge begins with nothing done.
LEMMA ReadTablesStep ==
    ASSUME ApplyInv, NEW a \in Applications, ReadTables(a)
    PROVE  ApplyInv'
<1>1. /\ ApplyTypes /\ AppInv(a, app[a], status[a], excuse[a], rows, role, temp) /\ app[a].at = "read"
      /\ UNCHANGED <<rows, role, used, temp, excuse, events>> /\ (Fault \/ NoFault)
  BY DEF ApplyInv, ReadTables, environmentVars
<1>2. app[a] \in Brief /\ app[a] \notin Merging
  BY <1>1, AppForm
<1>3. faults' \in 0..MaxFaults
  BY <1>1, FaultsCounted
<1>4. CASE Fail(a)
  <2>1. /\ app' \in [Applications -> AppStates] /\ app'[a].at = "cleanup"
        /\ \A b \in Applications : b # a => app'[b] = app[b]
    BY <1>1, <1>2, <1>4, Goes DEF Fail
  <2>2. /\ status' \in [Applications -> Statuses] /\ status'[a] = "FAILED"
        /\ \A b \in Applications : b # a => status'[b] = status[b]
    <3>1. "FAILED" \in Statuses
      BY DEF Statuses
    <3> QED
      BY <1>1, <1>4, <3>1, Marks DEF Fail
  <2>3. AppInv(a, app'[a], status'[a], excuse[a], rows, role, temp)
    <3>1. TraceInv(a, app'[a], status'[a], excuse[a], rows, role)
      BY <1>1, <2>1, TraceMoves DEF AppInv, Pending
    <3>2. ThreadInv(a, app'[a], Same(rows)) /\ TempInv(a, app'[a], excuse[a], temp)
      BY <1>1, <2>1 DEF AppInv, ThreadInv, TempInv
    <3>3. MergedInv(a, app'[a], status'[a], excuse[a], rows)
      BY <2>1, <2>2 DEF MergedInv
    <3> QED
      BY <3>1, <3>2, <3>3 DEF AppInv
  <2> QED
    BY <1>1, <1>3, <2>1, <2>2, <2>3, QuietStep DEF ApplyTypes
<1>5. CASE ~Fail(a)
  <2> DEFINE y == [at |-> "resolve", t |-> 1, todo |-> Records[1], target |-> None,
                   mine |-> <<>>, deltas |-> NoDeltas]
  <2>1. app' = [app EXCEPT ![a] = y] /\ UNCHANGED status
    BY <1>5 DEF ReadTables
  <2>2. NoDeltas = [s \in 1..5 |-> <<>>]
    BY ApplyFacts DEF NoDeltas
  <2>3. Records[1] \in Seq(Names) /\ Records[1] \in Seq(Range(Records[1]))
    BY ApplyFacts, 1 \in 1..5, SeqMonotonic
  <2>4. y \in Merging
    BY <2>2, <2>3, EmptySeq DEF Merging
  <2>5. /\ app' \in [Applications -> AppStates] /\ app'[a] = y
        /\ \A b \in Applications : b # a => app'[b] = app[b]
    BY <1>1, <2>1, <2>4 DEF ApplyTypes, AppStates
  <2>6. /\ y.at = "resolve" /\ y.t = 1 /\ y.todo = Records[1] /\ y.mine = <<>>
        /\ \A s \in 1..5 : y.deltas[s] = <<>>
    BY <2>2
  <2> HIDE DEF y
  <2>7. ThreadInv(a, y, Same(rows))
    <3>1. \A s \in 1..5 : <<>> \in Seq(DeltasOf(a, s, Same(rows)))
      BY EmptySeq
    <3>2. y.t \in 1..5 /\ y.todo \in Seq(Range(Records[y.t])) /\ y.mine \in Seq(DeltasOf(a, y.t, Same(rows)))
      BY <2>3, <2>6, <3>1
    <3>3. \A s \in 1..5 : y.deltas[s] \in Seq(DeltasOf(a, s, Same(rows)))
      BY <2>6, <3>1
    <3> QED
      BY <2>6, <3>2, <3>3 DEF ThreadInv
  <2>8. TraceInv(a, y, status[a], excuse[a], rows, role)
    BY <1>1, <2>6, TraceMoves DEF AppInv, Pending
  <2>9. MergedInv(a, y, status[a], excuse[a], rows) /\ TempInv(a, y, excuse[a], temp)
    BY <2>6 DEF MergedInv, TempInv
  <2> QED
    BY <1>1, <1>3, <2>1, <2>5, <2>7, <2>8, <2>9, QuietStep DEF ApplyTypes, AppInv
<1> QED
  BY <1>4, <1>5

\* An exception that goes past the rollback.
LEMMA AbandonStep ==
    ASSUME ApplyInv, NEW a \in Applications, Fail(a), Note(a, {"abandoned"}), Fault,
           app[a].at \in {"resolve", "complete", "announce"},
           UNCHANGED <<rows, role, used, temp, events>>
    PROVE  ApplyInv'
<1>1. ApplyTypes /\ app[a] \in Merging /\ app[a] \notin Brief
  BY AppForm DEF ApplyInv
<1>2. /\ app' \in [Applications -> AppStates] /\ app'[a].at = "cleanup"
      /\ \A b \in Applications : b # a => app'[b] = app[b]
  BY <1>1, Goes DEF Fail
<1>3. /\ status' \in [Applications -> Statuses] /\ status'[a] = "FAILED"
      /\ \A b \in Applications : b # a => status'[b] = status[b]
  <2>1. "FAILED" \in Statuses
    BY DEF Statuses
  <2> QED
    BY <1>1, <2>1, Marks DEF Fail
<1>4. /\ excuse' \in [Applications -> SUBSET {"overlap", "escaped", "halfway", "abandoned", "prefix", "undeleted"}]
      /\ excuse'[a] = excuse[a] \cup {"abandoned"}
      /\ \A b \in Applications : b # a => excuse'[b] = excuse[b]
  BY <1>1, Notes
<1>5. faults' \in 0..MaxFaults
  BY <1>1, FaultsCounted
<1>6. AppInv(a, app'[a], status'[a], excuse'[a], rows, role, temp)
  BY <1>2, <1>3, <1>4 DEF AppInv, ThreadInv, TraceInv, MergedInv, TempInv
<1> QED
  BY <1>1, <1>2, <1>3, <1>4, <1>5, <1>6, QuietStep DEF ApplyTypes

\* The list of the file systems raises.
LEMMA SettingsFailStep ==
    ASSUME ApplyInv, NEW a \in Applications, SettingsFail(a)
    PROVE  ApplyInv'
  BY AbandonStep DEF SettingsFail, environmentVars

\* Everything is merged, and the record says so.
LEMMA CompleteStep ==
    ASSUME ApplyInv, NEW a \in Applications, Complete(a)
    PROVE  ApplyInv'
<1>1. /\ ApplyTypes /\ AppInv(a, app[a], status[a], excuse[a], rows, role, temp) /\ app[a].at = "complete"
      /\ UNCHANGED <<rows, role, used, temp, events>>
  BY DEF ApplyInv, Complete, environmentVars
<1>2. CASE Fault /\ Fail(a) /\ Note(a, {"abandoned"})
  BY <1>1, <1>2, AbandonStep
<1>3. CASE NoFault /\ SetStatus(a, "COMPLETED") /\ Goto(a, "cleanup") /\ UNCHANGED excuse
  <2>1. app[a] \in Merging /\ app[a] \notin Brief
    BY <1>1, AppForm
  <2>2. /\ app' \in [Applications -> AppStates] /\ app'[a].at = "cleanup"
        /\ \A b \in Applications : b # a => app'[b] = app[b]
    BY <1>1, <1>3, <2>1, Goes
  <2>3. /\ status' \in [Applications -> Statuses] /\ status'[a] = "COMPLETED"
        /\ \A b \in Applications : b # a => status'[b] = status[b]
    <3>1. "COMPLETED" \in Statuses
      BY DEF Statuses
    <3> QED
      BY <1>1, <1>3, <3>1, Marks
  <2>4. faults' \in 0..MaxFaults
    BY <1>1, <1>3, FaultsCounted
  <2>5. AppInv(a, app'[a], status'[a], excuse[a], rows, role, temp)
    <3>1. MergedInv(a, app'[a], status'[a], excuse[a], rows)
      BY <1>1, <2>2, <2>3 DEF AppInv, MergedInv
    <3> QED
      BY <2>2, <2>3, <3>1 DEF AppInv, ThreadInv, TraceInv, TempInv
  <2> QED
    BY <1>1, <1>3, <2>2, <2>3, <2>4, <2>5, QuietStep DEF ApplyTypes
<1> QED
  BY <1>2, <1>3 DEF Complete

\* The rollback is announced: everything that was remembered is to be undone.
LEMMA AnnounceStep ==
    ASSUME ApplyInv, NEW a \in Applications, Announce(a)
    PROVE  ApplyInv'
<1>1. /\ ApplyTypes /\ AppInv(a, app[a], status[a], excuse[a], rows, role, temp) /\ app[a].at = "announce"
      /\ UNCHANGED <<rows, role, used, temp, events>>
  BY DEF ApplyInv, Announce, environmentVars
<1>2. CASE Fault /\ Fail(a) /\ Note(a, {"abandoned"})
  BY <1>1, <1>2, AbandonStep
<1>3. CASE /\ NoFault /\ SetStatus(a, "ROLLBACK_IN_PROGRESS") /\ UNCHANGED excuse
           /\ app' = [app EXCEPT ![a].at = "rollback", ![a].t = Len(Tables)]
  <2>1. app[a] \in Merging
    BY <1>1, AppForm
  <2>2. app' = [app EXCEPT ![a].at = "rollback", ![a].t = 5]
    BY <1>3, ApplyFacts
  <2>3. /\ app'[a].at = "rollback" /\ app'[a].t = 5 /\ app'[a].deltas = app[a].deltas
        /\ app'[a] \in Merging
        /\ \A b \in Applications : b # a => app'[b] = app[b]
    <3> DEFINE t == 5
               y == [app[a] EXCEPT !.at = "rollback", !.t = t]
    <3>0. t \in 0..5 /\ app' = [app EXCEPT ![a].at = "rollback", ![a].t = t]
      BY <2>2
    <3> HIDE DEF t
    <3>1. app' = [app EXCEPT ![a] = y] /\ t \in 0..5
      BY <1>1, <3>0 DEF ApplyTypes
    <3>2. y \in Merging /\ y.at = "rollback" /\ y.t = t /\ y.deltas = app[a].deltas
      BY <2>1, <3>1 DEF Merging
    <3> HIDE DEF y
    <3> QED
      BY <1>1, <3>1, <3>2 DEF ApplyTypes, t
  <2>4. app' \in [Applications -> AppStates]
    BY <1>1, <2>2, <2>3 DEF ApplyTypes, AppStates
  <2>5. /\ status' \in [Applications -> Statuses]
        /\ \A b \in Applications : b # a => status'[b] = status[b]
    <3>1. "ROLLBACK_IN_PROGRESS" \in Statuses
      BY DEF Statuses
    <3> QED
      BY <1>1, <1>3, <3>1, Marks
  <2>6. faults' \in 0..MaxFaults
    BY <1>1, <1>3, FaultsCounted
  <2>7. AppInv(a, app'[a], status'[a], excuse[a], rows, role, temp)
    <3>1. TraceInv(a, app'[a], status'[a], excuse[a], rows, role)
      BY <1>1, <2>3, TraceMoves DEF AppInv, Pending
    <3>2. ThreadInv(a, app'[a], Same(rows))
      BY <1>1, <2>3 DEF AppInv, ThreadInv
    <3> QED
      BY <2>3, <3>1, <3>2 DEF AppInv, MergedInv, TempInv
  <2> QED
    BY <1>1, <1>3, <2>3, <2>4, <2>5, <2>6, <2>7, QuietStep DEF ApplyTypes
<1> QED
  BY <1>2, <1>3 DEF Announce

\* Nothing is left to undo of a table.
LEMMA RollbackTableStep ==
    ASSUME ApplyInv, NEW a \in Applications, RollbackTable(a)
    PROVE  ApplyInv'
<1>1. /\ ApplyTypes /\ AppInv(a, app[a], status[a], excuse[a], rows, role, temp) /\ app[a].at = "rollback"
      /\ UNCHANGED <<rows, role, used, status, temp, excuse, faults, events>>
      /\ app[a].t > 0 /\ app[a].deltas[app[a].t] = <<>>
      /\ app' = [app EXCEPT ![a].t = app[a].t - 1]
  BY DEF ApplyInv, RollbackTable, environmentVars
<1>2. app[a] \in Merging /\ app[a].t \in 0..5
  BY <1>1, AppForm
<1>3. /\ app'[a].at = "rollback" /\ app'[a].t = app[a].t - 1 /\ app'[a].deltas = app[a].deltas
      /\ app'[a] \in Merging
      /\ \A b \in Applications : b # a => app'[b] = app[b]
  <2> DEFINE t == app[a].t - 1
             y == [app[a] EXCEPT !.t = t]
  <2>1. app' = [app EXCEPT ![a] = y]
    BY <1>1
  <2>2. t \in 0..5
    BY <1>1, <1>2
  <2> HIDE DEF t
  <2>3. y \in Merging /\ y.at = app[a].at /\ y.t = t /\ y.deltas = app[a].deltas
    BY <1>2, <2>2 DEF Merging
  <2> HIDE DEF y
  <2> QED
    BY <1>1, <2>1, <2>3 DEF ApplyTypes, t
<1>4. app' \in [Applications -> AppStates]
  BY <1>1, <1>3 DEF ApplyTypes, AppStates
<1>5. \A s \in 1..5 : Pending(app[a], s) \subseteq Pending(app'[a], s)
  <2>1. Range(app[a].deltas[app[a].t]) = {}
    BY <1>1 DEF Range
  <2>2. \A s \in 1..5 : s <= app[a].t <=> s = app[a].t \/ s <= app[a].t - 1
    BY <1>2
  <2> QED
    BY <1>1, <1>3, <2>1, <2>2 DEF Pending
<1>6. AppInv(a, app'[a], status[a], excuse[a], rows, role, temp)
  <2>1. TraceInv(a, app'[a], status[a], excuse[a], rows, role)
    BY <1>1, <1>5, TraceMoves DEF AppInv
  <2>2. ThreadInv(a, app'[a], Same(rows))
    BY <1>1, <1>3 DEF AppInv, ThreadInv
  <2> QED
    BY <1>3, <2>1, <2>2 DEF AppInv, MergedInv, TempInv
<1> QED
  BY <1>1, <1>3, <1>4, <1>6, QuietStep DEF ApplyTypes

\* Everything is undone, and the record says so, or that the application
\* failed.
LEMMA RollbackCompleteStep ==
    ASSUME ApplyInv, NEW a \in Applications, RollbackComplete(a)
    PROVE  ApplyInv'
<1>1. /\ ApplyTypes /\ AppInv(a, app[a], status[a], excuse[a], rows, role, temp) /\ app[a].at = "rollback"
      /\ UNCHANGED <<rows, role, used, temp, excuse, events>> /\ app[a].t = 0
      /\ Fault \/ NoFault
  BY DEF ApplyInv, RollbackComplete, environmentVars
<1>2. PICK st \in {"ROLLBACK_COMPLETE", "FAILED"} : SetStatus(a, st) /\ Goto(a, "cleanup")
  BY DEF RollbackComplete, Fail
<1>3. app[a] \in Merging /\ app[a] \notin Brief
  BY <1>1, AppForm
<1>4. /\ app' \in [Applications -> AppStates] /\ app'[a].at = "cleanup"
      /\ \A b \in Applications : b # a => app'[b] = app[b]
  BY <1>1, <1>2, <1>3, Goes
<1>5. /\ status' \in [Applications -> Statuses] /\ status'[a] = st
      /\ \A b \in Applications : b # a => status'[b] = status[b]
  <2>1. st \in Statuses
    BY DEF Statuses
  <2> QED
    BY <1>1, <1>2, <2>1, Marks
<1>6. faults' \in 0..MaxFaults
  BY <1>1, FaultsCounted
<1>7. AppInv(a, app'[a], status'[a], excuse[a], rows, role, temp)
  <2>1. \A s \in 1..5 : Pending(app[a], s) = {}
    BY <1>1 DEF Pending
  <2>2. TraceInv(a, app'[a], status'[a], excuse[a], rows, role)
    BY <1>1, <2>1, TraceMoves DEF AppInv
  <2> QED
    BY <1>4, <1>5, <2>2 DEF AppInv, ThreadInv, MergedInv, TempInv
<1> QED
  BY <1>1, <1>4, <1>5, <1>6, <1>7, QuietStep DEF ApplyTypes

\* The imported tables are deleted, or that they were not is noted.
LEMMA CleanupStep ==
    ASSUME ApplyInv, NEW a \in Applications, Cleanup(a)
    PROVE  ApplyInv'
<1>1. /\ ApplyTypes /\ AppInv(a, app[a], status[a], excuse[a], rows, role, temp) /\ app[a].at = "cleanup"
      /\ UNCHANGED <<rows, role, used, status, events>> /\ Goto(a, "done")
      /\ Fault \/ NoFault
  BY DEF ApplyInv, Cleanup, environmentVars
<1>2. /\ app' \in [Applications -> AppStates] /\ app'[a].at = "done"
      /\ \A b \in Applications : b # a => app'[b] = app[b]
  BY <1>1, Goes
<1>3. /\ excuse' \in [Applications -> SUBSET {"overlap", "escaped", "halfway", "abandoned", "prefix", "undeleted"}]
      /\ excuse[a] \subseteq excuse'[a] /\ ("prefix" \in excuse'[a] => "prefix" \in excuse[a])
      /\ \A b \in Applications : b # a => excuse'[b] = excuse[b]
      /\ a \notin temp' \/ "undeleted" \in excuse'[a]
      /\ temp' \subseteq temp
  <2>1. CASE temp' = temp \ {a} /\ UNCHANGED excuse
    BY <1>1, <2>1 DEF ApplyTypes
  <2>2. CASE Note(a, {"undeleted"}) /\ UNCHANGED temp
    BY <1>1, <2>2, Notes
  <2> QED
    BY <2>1, <2>2 DEF Cleanup
<1>4. faults' \in 0..MaxFaults
  BY <1>1, FaultsCounted
<1>5. AppInv(a, app'[a], status[a], excuse'[a], rows, role, temp')
  <2>1. TraceInv(a, app'[a], status[a], excuse'[a], rows, role)
    BY <1>1, <1>2, <1>3, TraceMoves DEF AppInv, Pending
  <2>2. MergedInv(a, app'[a], status[a], excuse'[a], rows)
    BY <1>1, <1>2, <1>3 DEF AppInv, MergedInv
  <2> QED
    BY <1>2, <1>3, <2>1, <2>2 DEF AppInv, ThreadInv, TempInv
<1> QED
  BY <1>1, <1>2, <1>3, <1>4, <1>5, QuietStep DEF ApplyTypes

-----------------------------------------------------------------------------
(* Every action preserves the invariant: the merge *)

\* What an application remembers of a table.
LEMMA DeltasTyped ==
    ASSUME NEW a \in Applications, NEW s \in 1..5, NEW same
    PROVE  DeltasOf(a, s, same) \subseteq Deltas
  BY DEF DeltasOf, Deltas

\* The elements of a list to which one was added.
LEMMA AppendRange ==
    ASSUME NEW S, NEW s \in Seq(S), NEW x \in S
    PROVE  Range(s) \subseteq Range(Append(s, x)) /\ x \in Range(Append(s, x)) /\ Append(s, x) \in Seq(S)
<1>1. /\ Append(s, x) \in Seq(S) /\ Len(Append(s, x)) = Len(s) + 1
      /\ \A i \in 1..Len(s) : Append(s, x)[i] = s[i]
      /\ Append(s, x)[Len(s) + 1] = x
  BY AppendProperties
<1>2. Len(s) \in Nat /\ DOMAIN s = 1..Len(s) /\ DOMAIN Append(s, x) = 1..(Len(s) + 1)
  BY <1>1, LenProperties
<1>3. 1..Len(s) \subseteq 1..(Len(s) + 1) /\ Len(s) + 1 \in 1..(Len(s) + 1)
  BY <1>2
<1>4. x \in Range(Append(s, x))
  BY <1>1, <1>2, <1>3 DEF Range
<1>5. Range(s) \subseteq Range(Append(s, x))
  BY <1>1, <1>2, <1>3 DEF Range
<1> QED
  BY <1>1, <1>4, <1>5

\* The thread of application a in the merge of a table.
LEMMA MergeForm ==
    ASSUME ApplyInv, NEW a \in Applications, app[a].at \in {"resolve", "write"}
    PROVE  /\ app[a] \in Merging /\ app[a] \notin Brief
           /\ app[a].t \in 1..5
           /\ app[a].todo \in Seq(Range(Records[app[a].t])) /\ app[a].todo \in Seq(Names)
           /\ app[a].mine \in Seq(DeltasOf(a, app[a].t, Same(rows))) /\ app[a].mine \in Seq(Deltas)
           /\ \A s \in 1..5 : app[a].deltas[s] \in Seq(DeltasOf(a, s, Same(rows)))
           /\ app[a].deltas \in [1..5 -> Seq(Deltas)]
           /\ \A s \in 1..5 : s >= app[a].t => app[a].deltas[s] = <<>>
<1>1. ApplyTypes /\ ThreadInv(a, app[a], Same(rows))
  BY DEF ApplyInv, AppInv
<1>2. /\ app[a] \in Merging /\ app[a] \notin Brief /\ app[a].mine \in Seq(Deltas)
      /\ app[a].deltas \in [1..5 -> Seq(Deltas)]
  BY <1>1, AppForm
<1>3. /\ app[a].t \in 1..5
      /\ app[a].todo \in Seq(Range(Records[app[a].t]))
      /\ app[a].mine \in Seq(DeltasOf(a, app[a].t, Same(rows)))
      /\ \A s \in 1..5 : app[a].deltas[s] \in Seq(DeltasOf(a, s, Same(rows)))
      /\ \A s \in 1..5 : s >= app[a].t => app[a].deltas[s] = <<>>
  BY <1>1 DEF ThreadInv
<1>4. app[a].todo \in Seq(Names)
  BY <1>2 DEF Merging
<1> QED
  BY <1>2, <1>3, <1>4

\* A record is passed over, or written and remembered.
LEMMA NextRecord ==
    ASSUME ApplyTypes, NEW a \in Applications, app[a] \in Merging,
           NEW todo \in Seq(Names), NEW mine \in Seq(Deltas),
           app' = [app EXCEPT ![a].at = "resolve", ![a].todo = todo, ![a].mine = mine]
    PROVE  /\ app' \in [Applications -> AppStates]
           /\ app'[a].at = "resolve" /\ app'[a].t = app[a].t /\ app'[a].todo = todo
           /\ app'[a].mine = mine /\ app'[a].deltas = app[a].deltas
           /\ \A b \in Applications : b # a => app'[b] = app[b]
<1> DEFINE y == [app[a] EXCEPT !.at = "resolve", !.todo = todo, !.mine = mine]
<1>1. app \in [Applications -> AppStates]
  BY DEF ApplyTypes
<1>2. app' = [app EXCEPT ![a] = y]
  BY <1>1
<1>3. /\ y \in Merging /\ y.at = "resolve" /\ y.t = app[a].t /\ y.todo = todo
      /\ y.mine = mine /\ y.deltas = app[a].deltas
  BY DEF Merging
<1> HIDE DEF y
<1>4. y \in AppStates
  BY <1>3 DEF AppStates
<1>5. /\ app' \in [Applications -> AppStates] /\ app'[a] = y
      /\ \A b \in Applications : b # a => app'[b] = app[b]
  BY <1>1, <1>2, <1>4
<1> QED
  BY <1>3, <1>5

\* The thread passes over a record that needs no row, or cannot have one.
LEMMA SkipStep ==
    ASSUME ApplyInv, NEW a \in Applications, app[a].at \in {"resolve", "write"}, app[a].todo # <<>>,
           Skip(a), UNCHANGED <<rows, role, used, status, temp, excuse, faults, events>>,
           app[a].t # 1 => Head(app[a].todo) \in Same(rows) \cup Unfit[a]
    PROVE  ApplyInv'
<1> DEFINE x == app[a]
           y == [x EXCEPT !.at = "resolve", !.todo = Tail(x.todo)]
<1>1. ApplyTypes /\ AppInv(a, x, status[a], excuse[a], rows, role, temp)
      /\ x.at \in {"resolve", "write"}
  BY DEF ApplyInv
<1>2. /\ x \in Merging /\ x.t \in 1..5 /\ x.mine \in Seq(Deltas)
      /\ x.todo \in Seq(Range(Records[x.t])) /\ x.todo \in Seq(Names)
  BY MergeForm
<1>3. /\ Tail(x.todo) \in Seq(Range(Records[x.t])) /\ Tail(x.todo) \in Seq(Names)
      /\ \A n \in Range(x.todo) : n = Head(x.todo) \/ n \in Range(Tail(x.todo))
  BY <1>2, HeadOrTail
<1>4. app' = [app EXCEPT ![a] = y]
  BY <1>1 DEF ApplyTypes, Skip
<1>5. /\ y \in Merging /\ y.at = "resolve" /\ y.t = x.t /\ y.todo = Tail(x.todo)
      /\ y.mine = x.mine /\ y.deltas = x.deltas
  BY <1>2, <1>3 DEF Merging
<1> HIDE DEF y
<1>6. /\ app' \in [Applications -> AppStates] /\ app'[a] = y
      /\ \A b \in Applications : b # a => app'[b] = app[b]
  BY <1>1, <1>4, <1>5 DEF ApplyTypes, AppStates
<1>7. ThreadInv(a, y, Same(rows))
  BY <1>1, <1>3, <1>5 DEF AppInv, ThreadInv
<1>8. TraceInv(a, y, status[a], excuse[a], rows, role)
  BY <1>1, <1>5, TraceMoves DEF AppInv, Pending
<1>9. MergedInv(a, y, status[a], excuse[a], rows)
  <2>1. x.t # 1 => \/ Head(x.todo) \in Unfit[a]
                   \/ \E r \in rows : r.name = Head(x.todo) /\ r.by \in {a, "same"}
    BY DEF Same
  <2> SUFFICES ASSUME "prefix" \notin excuse[a], NEW s \in 2..5, NEW n \in Range(Records[s])
               PROVE  \/ s > x.t \/ (s = x.t /\ n \in Range(Tail(x.todo)))
                      \/ n \in Unfit[a]
                      \/ \E r \in rows : r.name = n /\ r.by \in {a, "same"}
    BY <1>5 DEF MergedInv
  <2>2. \/ s > x.t \/ (s = x.t /\ n \in Range(x.todo))
        \/ n \in Unfit[a]
        \/ \E r \in rows : r.name = n /\ r.by \in {a, "same"}
    BY <1>1 DEF AppInv, MergedInv
  <2>3. s # 1
    OBVIOUS
  <2> QED
    BY <1>3, <2>1, <2>2, <2>3
<1>10. AppInv(a, y, status[a], excuse[a], rows, role, temp)
  BY <1>5, <1>7, <1>8, <1>9 DEF AppInv, TempInv
<1> QED
  BY <1>1, <1>6, <1>10, QuietStep DEF ApplyTypes

\* The thread has resolved a record, and is about to write it.
LEMMA ResolvedStep ==
    ASSUME ApplyInv, NEW a \in Applications, app[a].at = "resolve", app[a].todo # <<>>,
           NEW target, app' = [app EXCEPT ![a].at = "write", ![a].target = target],
           UNCHANGED <<rows, role, used, status, temp, excuse, faults, events>>,
           app[a].t = 1 => target \in Roles /\ Head(app[a].todo) \in Users,
           app[a].t # 1 => target \in {a, None} /\ Head(app[a].todo) \notin Same(rows)
    PROVE  ApplyInv'
<1> DEFINE x == app[a]
           y == [x EXCEPT !.at = "write", !.target = target]
<1>1. ApplyTypes /\ AppInv(a, x, status[a], excuse[a], rows, role, temp) /\ x.at = "resolve"
  BY DEF ApplyInv
<1>2. x \in Merging /\ x.t \in 1..5
  BY MergeForm
<1>3. target \in Roles \cup Applications \cup {None}
  OBVIOUS
<1>4. app' = [app EXCEPT ![a] = y]
  BY <1>1 DEF ApplyTypes
<1>5. /\ y \in Merging /\ y.at = "write" /\ y.t = x.t /\ y.todo = x.todo
      /\ y.mine = x.mine /\ y.deltas = x.deltas /\ y.target = target
  BY <1>2, <1>3 DEF Merging
<1> HIDE DEF y
<1>6. /\ app' \in [Applications -> AppStates] /\ app'[a] = y
      /\ \A b \in Applications : b # a => app'[b] = app[b]
  BY <1>1, <1>4, <1>5 DEF ApplyTypes, AppStates
<1>7. ThreadInv(a, y, Same(rows))
  BY <1>1, <1>5 DEF AppInv, ThreadInv
<1>8. TraceInv(a, y, status[a], excuse[a], rows, role)
  BY <1>1, <1>5, TraceMoves DEF AppInv, Pending
<1>9. MergedInv(a, y, status[a], excuse[a], rows)
  BY <1>1, <1>5 DEF AppInv, MergedInv
<1>10. AppInv(a, y, status[a], excuse[a], rows, role, temp)
  BY <1>5, <1>7, <1>8, <1>9 DEF AppInv, TempInv
<1> QED
  BY <1>1, <1>6, <1>10, QuietStep DEF ApplyTypes

\* resolve_record and its counterpart of the users.
LEMMA ResolveStep ==
    ASSUME ApplyInv, NEW a \in Applications, Resolve(a)
    PROVE  ApplyInv'
<1> DEFINE n == Head(app[a].todo)
<1>1. /\ ApplyTypes /\ app[a].at = "resolve" /\ app[a].todo # <<>>
      /\ UNCHANGED <<rows, role, used, status, temp, excuse, faults, events>>
  BY DEF ApplyInv, Resolve, environmentVars
<1>2. app[a].t \in 1..5 /\ app[a].todo \in Seq(Range(Records[app[a].t]))
  BY <1>1, MergeForm
<1>3. n \in Range(Records[app[a].t])
  BY <1>1, <1>2, HeadOrTail
<1>4. CASE app[a].t = 1
  <2>1. CASE Skip(a)
    BY <1>1, <1>4, <2>1, SkipStep
  <2>2. CASE n \in Users /\ app' = [app EXCEPT ![a].at = "write", ![a].target = role[n]]
    <3>1. role[n] \in Roles
      BY <1>1, <2>2 DEF ApplyTypes
    <3> QED
      BY <1>1, <1>4, <2>2, <3>1, ResolvedStep
  <2> QED
    BY <1>4, <2>1, <2>2 DEF Resolve, ResolveUser
<1>5. CASE app[a].t # 1
  <2>1. CASE Skip(a) /\ (n \in Unfit[a] \/ \E r \in rows : r.name = n /\ r.by = "same")
    <3>1. n \in Same(rows) \cup Unfit[a]
      BY <2>1 DEF Same
    <3> QED
      BY <1>1, <2>1, <3>1, SkipStep
  <2> DEFINE target == IF Taken(n, None) THEN a ELSE None
  <2>2. CASE /\ ~\E r \in rows : r.name = n /\ r.by = "same"
             /\ app' = [app EXCEPT ![a].at = "write", ![a].target = target]
    <3>1. target \in {a, None} /\ n \notin Same(rows)
      BY <2>2 DEF Same
    <3> HIDE DEF target
    <3> QED
      BY <1>1, <1>5, <2>2, <3>1, ResolvedStep
  <2> QED
    BY <1>5, <2>1, <2>2 DEF Resolve, ResolveRecord
<1> QED
  BY <1>4, <1>5

\* A table is merged, and the next one follows, if there is one.
LEMMA NextTableStep ==
    ASSUME ApplyInv, NEW a \in Applications, NextTable(a)
    PROVE  ApplyInv'
<1> DEFINE x == app[a]
<1>1. /\ ApplyTypes /\ AppInv(a, x, status[a], excuse[a], rows, role, temp)
      /\ x.at = "resolve" /\ x.todo = <<>>
      /\ UNCHANGED <<rows, role, used, status, temp, excuse, faults, events>>
  BY DEF ApplyInv, NextTable, environmentVars
<1>2. /\ x \in Merging /\ x.t \in 1..5 /\ x.todo \in Seq(Names)
      /\ x.mine \in Seq(DeltasOf(a, x.t, Same(rows))) /\ x.mine \in Seq(Deltas)
      /\ \A s \in 1..5 : x.deltas[s] \in Seq(DeltasOf(a, s, Same(rows)))
      /\ x.deltas \in [1..5 -> Seq(Deltas)]
      /\ \A s \in 1..5 : s >= x.t => x.deltas[s] = <<>>
  BY <1>1, MergeForm
<1>t. x.t \in 1..5
  BY <1>2
<1> DEFINE at == IF x.t = 5 THEN "complete" ELSE "resolve"
           t == IF x.t = 5 THEN 5 ELSE x.t + 1
           todo == IF x.t = 5 THEN <<>> ELSE Records[x.t + 1]
           deltas == [x.deltas EXCEPT ![x.t] = x.mine]
           none == <<>>
           y == [x EXCEPT !.deltas = deltas, !.mine = none, !.at = at, !.t = t, !.todo = todo]
<1>3. app' = [app EXCEPT ![a] = y]
  <2>1. app \in [Applications -> AppStates]
    BY <1>1 DEF ApplyTypes
  <2>2. app' = [app EXCEPT ![a].deltas[x.t] = x.mine, ![a].mine = <<>>,
                           ![a].at = IF x.t = 5 THEN "complete" ELSE @,
                           ![a].t = IF x.t = 5 THEN @ ELSE x.t + 1,
                           ![a].todo = IF x.t = 5 THEN @ ELSE Records[x.t + 1]]
    BY ApplyFacts DEF NextTable
  <2>3. app' = [app EXCEPT ![a].deltas[x.t] = x.mine, ![a].mine = none,
                           ![a].at = at, ![a].t = t, ![a].todo = todo]
    <3>1. CASE x.t = 5
      <4>1. app' = [app EXCEPT ![a].deltas[x.t] = x.mine, ![a].mine = <<>>, ![a].at = "complete",
                               ![a].t = @, ![a].todo = @]
        BY <2>2, <3>1
      <4> QED
        BY <1>1, <1>2, <2>1, <3>1, <4>1
    <3>2. CASE x.t # 5
      <4>1. app' = [app EXCEPT ![a].deltas[x.t] = x.mine, ![a].mine = <<>>, ![a].at = @,
                               ![a].t = x.t + 1, ![a].todo = Records[x.t + 1]]
        BY <2>2, <3>2
      <4> QED
        BY <1>1, <1>2, <2>1, <3>2, <4>1
    <3> QED
      BY <3>1, <3>2
  <2> HIDE DEF none, at, t, todo
  <2> QED
    BY <2>1, <2>3
<1>4. /\ at \in {"complete", "resolve"} /\ t \in 0..5 /\ deltas \in [1..5 -> Seq(Deltas)]
      /\ none \in Seq(Deltas)
  <2>1. at \in {"complete", "resolve"} /\ t \in 0..5
    BY <1>t
  <2>2. deltas \in [1..5 -> Seq(Deltas)]
    BY <1>2
  <2>3. none \in Seq(Deltas)
    BY EmptySeq
  <2> QED
    BY <2>1, <2>2, <2>3
<1>5. todo \in Seq(Names) /\ (at = "resolve" => t \in 1..5 /\ t = x.t + 1 /\ todo = Records[t] /\ todo \in Seq(Range(Records[t])))
  <2>1. CASE x.t = 5
    BY <2>1, EmptySeq
  <2>2. CASE x.t # 5
    <3>1. x.t + 1 \in 1..5
      BY <1>t, <2>2
    <3>2. Records[x.t + 1] \in Seq(Range(Records[x.t + 1])) /\ Range(Records[x.t + 1]) \subseteq Names
      BY <3>1, ApplyFacts
    <3>3. Records[x.t + 1] \in Seq(Names)
      BY <3>2, SeqMonotonic
    <3> QED
      BY <2>2, <3>1, <3>2, <3>3
  <2> QED
    BY <2>1, <2>2
<1>6. /\ deltas[x.t] = x.mine /\ \A s \in 1..5 : s # x.t => deltas[s] = x.deltas[s]
      /\ none = <<>> /\ (at = "complete" => x.t = 5)
  BY <1>2
<1> HIDE DEF at, t, todo, deltas, none
<1>7. /\ y \in Merging /\ y.at = at /\ y.t = t /\ y.todo = todo /\ y.mine = none /\ y.deltas = deltas
  BY <1>2, <1>4, <1>5 DEF Merging
<1> HIDE DEF y
<1>8. /\ app' \in [Applications -> AppStates] /\ app'[a] = y
      /\ \A b \in Applications : b # a => app'[b] = app[b]
  <2>1. y \in AppStates
    BY <1>7 DEF AppStates
  <2>2. app \in [Applications -> AppStates]
    BY <1>1 DEF ApplyTypes
  <2>3. app' = [app EXCEPT ![a] = y]
    BY <1>3
  <2> QED
    BY <2>1, <2>2, <2>3
<1>9. ThreadInv(a, y, Same(rows))
  <2>1. \A s \in 1..5 : deltas[s] \in Seq(DeltasOf(a, s, Same(rows)))
    BY <1>2, <1>6
  <2>2. <<>> \in Seq(DeltasOf(a, t, Same(rows)))
    BY EmptySeq
  <2>3. at = "resolve" => \A s \in 1..5 : s >= t => deltas[s] = <<>>
    <3>1. ASSUME at = "resolve", NEW s \in 1..5, s >= t
          PROVE  deltas[s] = <<>>
      <4>1. t = x.t + 1
        BY <1>5, <3>1
      <4>2. s # x.t /\ s >= x.t
        BY <1>t, <3>1, <4>1
      <4> QED
        BY <1>2, <1>6, <4>2
    <3> QED
      BY <3>1
  <2> QED
    BY <1>4, <1>5, <1>6, <1>7, <2>1, <2>2, <2>3 DEF ThreadInv
<1>10. TraceInv(a, y, status[a], excuse[a], rows, role)
  <2>1. CASE at = "complete"
    BY <1>7, <2>1 DEF TraceInv
  <2>2. CASE at = "resolve"
    <3>1. \A s \in 1..5 : Pending(x, s) \subseteq Pending(y, s)
      <4>1. \A s \in 1..5 : Pending(x, s) = Range(deltas[s])
        BY <1>1, <1>6 DEF Pending
      <4>2. Range(deltas[t]) = {}
        <5>1. t \in 1..5 /\ t >= x.t /\ t # x.t
          BY <1>t, <1>5, <2>2
        <5>2. deltas[t] = <<>>
          BY <1>2, <1>6, <5>1
        <5> QED
          BY <5>2 DEF Range
      <4>3. \A s \in 1..5 : s # t => Pending(y, s) = Range(deltas[s])
        BY <1>7, <2>2 DEF Pending
      <4> QED
        BY <4>1, <4>2, <4>3
    <3> QED
      BY <1>1, <3>1, TraceMoves DEF AppInv
  <2> QED
    BY <1>4, <2>1, <2>2
<1>11. MergedInv(a, y, status[a], excuse[a], rows)
  <2> SUFFICES ASSUME "prefix" \notin excuse[a], NEW s \in 2..5, NEW n \in Range(Records[s])
               PROVE  \/ y.at = "resolve" /\ (s > y.t \/ (s = y.t /\ n \in Range(y.todo)))
                      \/ n \in Unfit[a]
                      \/ \E r \in rows : r.name = n /\ r.by \in {a, "same"}
    BY <1>4, <1>7 DEF MergedInv
  <2>1. Range(x.todo) = {}
    BY <1>1 DEF Range
  <2>2. s > x.t \/ n \in Unfit[a] \/ \E r \in rows : r.name = n /\ r.by \in {a, "same"}
    BY <1>1, <2>1 DEF AppInv, MergedInv
  <2>3. s > x.t => at = "resolve" /\ (s > t \/ s = t)
    <3>1. CASE at = "complete"
      BY <1>6, <3>1
    <3>2. CASE at = "resolve"
      BY <1>t, <1>5, <3>2
    <3> QED
      BY <1>4, <3>1, <3>2
  <2> QED
    BY <1>5, <1>7, <2>2, <2>3
<1>12. AppInv(a, y, status[a], excuse[a], rows, role, temp)
  BY <1>4, <1>7, <1>9, <1>10, <1>11 DEF AppInv, TempInv
<1> QED
  BY <1>1, <1>8, <1>12, QuietStep DEF ApplyTypes

\* The row that the thread is about to write is its own, and has a name of
\* which no row of the very content is there.
LEMMA WrittenRow ==
    ASSUME ApplyInv, NEW a \in Applications, app[a].at = "write", app[a].t # 1
    PROVE  /\ Written(a) \in RowsOf(Names) /\ Written(a).by = a
           /\ Written(a).name = Head(app[a].todo) /\ Written(a).name \notin Same(rows)
           /\ Written(a) \in DeltasOf(a, app[a].t, Same(rows))
<1>1. /\ app[a].t \in 1..5 /\ app[a].todo \in Seq(Names)
  BY MergeForm
<1>2. app[a].todo # <<>> /\ app[a].target \in {a, None} /\ Head(app[a].todo) \notin Same(rows)
  BY DEF ApplyInv, AppInv, ThreadInv
<1>3. Head(app[a].todo) \in Names
  BY <1>1, <1>2, HeadOrTail
<1>4. app[a].t \in 2..5
  BY <1>1
<1>5. /\ Written(a) \in RowsOf(Names) /\ Written(a).by = a /\ Written(a).name = Head(app[a].todo)
  BY <1>2, <1>3, <1>4 DEF Written, RowsOf
<1> QED
  BY <1>2, <1>5 DEF DeltasOf

\* The merger returns, and the deltas are kept.
LEMMA Returns ==
    ASSUME ApplyInv, NEW a \in Applications, app[a].at \in {"resolve", "write"}, Return(a)
    PROVE  /\ app' \in [Applications -> AppStates] /\ app'[a].at = "announce"
           /\ \A b \in Applications : b # a => app'[b] = app[b]
           /\ ThreadInv(a, app'[a], Same(rows))
           /\ \A s \in 1..5 : Pending(app[a], s) \subseteq Pending(app'[a], s)
<1> DEFINE x == app[a]
           deltas == [x.deltas EXCEPT ![x.t] = x.mine]
           y == [x EXCEPT !.at = "announce", !.deltas = deltas]
<1>1. app \in [Applications -> AppStates]
  BY DEF ApplyInv, ApplyTypes
<1>2. /\ x \in Merging /\ x.t \in 1..5
      /\ x.mine \in Seq(DeltasOf(a, x.t, Same(rows))) /\ x.mine \in Seq(Deltas)
      /\ \A s \in 1..5 : x.deltas[s] \in Seq(DeltasOf(a, s, Same(rows)))
      /\ x.deltas \in [1..5 -> Seq(Deltas)]
  BY MergeForm
<1>3. app' = [app EXCEPT ![a] = y]
  BY <1>1 DEF Return
<1>4. /\ deltas \in [1..5 -> Seq(Deltas)] /\ deltas[x.t] = x.mine
      /\ \A s \in 1..5 : s # x.t => deltas[s] = x.deltas[s]
  BY <1>2
<1> HIDE DEF deltas
<1>5. y \in Merging /\ y.at = "announce" /\ y.deltas = deltas
  BY <1>2, <1>4 DEF Merging
<1> HIDE DEF y
<1>6. /\ app' \in [Applications -> AppStates] /\ app'[a] = y
      /\ \A b \in Applications : b # a => app'[b] = app[b]
  BY <1>1, <1>3, <1>5 DEF AppStates
<1>7. ThreadInv(a, y, Same(rows))
  <2>1. \A s \in 1..5 : deltas[s] \in Seq(DeltasOf(a, s, Same(rows)))
    BY <1>2, <1>4
  <2> QED
    BY <1>5, <2>1 DEF ThreadInv
<1>8. \A s \in 1..5 : Pending(x, s) \subseteq Pending(y, s)
  BY <1>4, <1>5 DEF Pending
<1> QED
  BY <1>5, <1>6, <1>7, <1>8

\* The merger raises, and only the deltas of the tables before are kept.
LEMMA RaisesAll ==
    ASSUME ApplyInv, NEW a \in Applications, app[a].at \in {"resolve", "write"}, Raise(a)
    PROVE  /\ app' \in [Applications -> AppStates] /\ app'[a].at = "announce"
           /\ \A b \in Applications : b # a => app'[b] = app[b]
           /\ ThreadInv(a, app'[a], Same(rows))
           /\ app[a].mine = <<>> => \A s \in 1..5 : Pending(app[a], s) \subseteq Pending(app'[a], s)
<1>1. /\ ApplyTypes /\ app[a] \in Merging /\ app[a] \notin Brief
      /\ \A s \in 1..5 : app[a].deltas[s] \in Seq(DeltasOf(a, s, Same(rows)))
  BY MergeForm DEF ApplyInv
<1>2. /\ app' \in [Applications -> AppStates] /\ app'[a].at = "announce" /\ app'[a].deltas = app[a].deltas
      /\ \A b \in Applications : b # a => app'[b] = app[b]
  BY <1>1, Goes DEF Raise
<1>3. ThreadInv(a, app'[a], Same(rows))
  BY <1>1, <1>2 DEF ThreadInv
<1>4. app[a].mine = <<>> => Range(app[a].mine) = {}
  BY DEF Range
<1>5. app[a].mine = <<>> => \A s \in 1..5 : Pending(app[a], s) \subseteq Pending(app'[a], s)
  BY <1>2, <1>4 DEF Pending
<1> QED
  BY <1>2, <1>3, <1>5

\* The merge ends early: what can no longer be undone is noted.
LEMMA GiveUpStep ==
    ASSUME ApplyInv, NEW a \in Applications, app[a].at \in {"resolve", "write"},
           UNCHANGED <<role, used, status, temp, events>>, faults' \in 0..MaxFaults,
           NEW labels \in SUBSET {"overlap", "escaped", "halfway", "abandoned", "prefix", "undeleted"},
           Note(a, labels),
           Return(a) \/ (Raise(a) /\ (app[a].mine # <<>> => "escaped" \in labels)),
           \/ rows' = rows
           \/ /\ rows' = rows \cup {Written(a)} /\ app[a].at = "write" /\ app[a].t # 1
              /\ Head(app[a].todo) \notin Unfit[a] /\ "halfway" \in labels
    PROVE  ApplyInv'
<1>1. ApplyTypes /\ AppInv(a, app[a], status[a], excuse[a], rows, role, temp)
  BY DEF ApplyInv
<1>2. /\ excuse' \in [Applications -> SUBSET {"overlap", "escaped", "halfway", "abandoned", "prefix", "undeleted"}]
      /\ excuse'[a] = excuse[a] \cup labels
      /\ \A b \in Applications : b # a => excuse'[b] = excuse[b]
  BY <1>1, Notes
<1>3. /\ app' \in [Applications -> AppStates] /\ app'[a].at = "announce"
      /\ \A b \in Applications : b # a => app'[b] = app[b]
      /\ ThreadInv(a, app'[a], Same(rows))
      /\ \/ "escaped" \in labels
         \/ \A s \in 1..5 : Pending(app[a], s) \subseteq Pending(app'[a], s)
  BY Returns, RaisesAll
<1>4. /\ rows \subseteq rows' /\ rows' \subseteq RowsOf(Names)
      /\ \A r \in rows' : r \in rows \/ (r.by = a /\ r.name \notin Same(rows) \cup Unfit[a])
  BY <1>1, WrittenRow DEF ApplyTypes
<1>5. Same(rows') = Same(rows)
  BY <1>4, SameForGood, ApplyFacts
<1>6. ApplyTypes'
  BY <1>1, <1>2, <1>3, <1>4 DEF ApplyTypes
<1>7. TraceInv(a, app'[a], status[a], excuse'[a], rows', role)
  <2>1. CASE "escaped" \in labels \/ "halfway" \in labels
    BY <1>2, <2>1 DEF TraceInv
  <2>2. CASE ~("escaped" \in labels \/ "halfway" \in labels)
    BY <1>1, <1>2, <1>3, <2>2, TraceMoves DEF AppInv
  <2> QED
    BY <2>1, <2>2
<1>8. AppInv(a, app'[a], status'[a], excuse'[a], rows', role', temp')
  BY <1>3, <1>5, <1>7 DEF AppInv, MergedInv, TempInv
<1> QED
  BY <1>2, <1>3, <1>4, <1>6, <1>8, ApplyStep

\* A row is written and remembered.
LEMMA CreateStep ==
    ASSUME ApplyInv, NEW a \in Applications, app[a].at = "write", app[a].t # 1, Create(a),
           Head(app[a].todo) \notin Unfit[a],
           UNCHANGED <<role, used, status, temp, faults, events>>,
           NEW labels \in SUBSET {"escaped"}, Note(a, labels)
    PROVE  ApplyInv'
<1> DEFINE x == app[a]
           w == Written(a)
           mine == Append(x.mine, w)
<1>1. ApplyTypes /\ AppInv(a, x, status[a], excuse[a], rows, role, temp) /\ x.at = "write"
  BY DEF ApplyInv
<1>2. /\ x \in Merging /\ x.t \in 1..5 /\ x.mine \in Seq(DeltasOf(a, x.t, Same(rows)))
      /\ x.todo \in Seq(Range(Records[x.t])) /\ x.todo \in Seq(Names)
  BY MergeForm
<1>3. x.todo # <<>>
  BY <1>1 DEF AppInv, ThreadInv
<1>4. /\ Tail(x.todo) \in Seq(Range(Records[x.t])) /\ Tail(x.todo) \in Seq(Names)
      /\ \A n \in Range(x.todo) : n = Head(x.todo) \/ n \in Range(Tail(x.todo))
  BY <1>2, <1>3, HeadOrTail
<1>5. /\ w \in RowsOf(Names) /\ w.by = a /\ w.name = Head(x.todo) /\ w.name \notin Same(rows)
      /\ w \in DeltasOf(a, x.t, Same(rows))
  BY WrittenRow
<1> HIDE DEF w
<1>6. /\ mine \in Seq(DeltasOf(a, x.t, Same(rows))) /\ Range(x.mine) \subseteq Range(mine) /\ w \in Range(mine)
  BY <1>2, <1>5, AppendRange
<1>7. mine \in Seq(Deltas)
  BY <1>2, <1>6, DeltasTyped, SeqMonotonic
<1>8. /\ app' = [app EXCEPT ![a].at = "resolve", ![a].todo = Tail(x.todo), ![a].mine = mine]
      /\ rows' = rows \cup {w}
  BY DEF Create, w
<1> HIDE DEF mine
<1>9. /\ app' \in [Applications -> AppStates]
      /\ app'[a].at = "resolve" /\ app'[a].t = x.t /\ app'[a].todo = Tail(x.todo)
      /\ app'[a].mine = mine /\ app'[a].deltas = x.deltas
      /\ \A b \in Applications : b # a => app'[b] = app[b]
  BY <1>1, <1>2, <1>4, <1>7, <1>8, NextRecord
<1>10. /\ excuse' \in [Applications -> SUBSET {"overlap", "escaped", "halfway", "abandoned", "prefix", "undeleted"}]
       /\ excuse'[a] = excuse[a] \cup labels
       /\ \A b \in Applications : b # a => excuse'[b] = excuse[b]
  BY <1>1, Notes
<1>11. Same(rows') = Same(rows)
  BY <1>5, <1>8, SameForGood, ApplyFacts
<1>12. ApplyTypes'
  BY <1>1, <1>5, <1>8, <1>9, <1>10 DEF ApplyTypes
<1> DEFINE y == app'[a]
<1> HIDE DEF y
<1>13. /\ y.at = "resolve" /\ y.t = x.t /\ y.todo = Tail(x.todo) /\ y.mine = mine /\ y.deltas = x.deltas
  BY <1>9 DEF y
<1>14. ThreadInv(a, y, Same(rows'))
  BY <1>1, <1>4, <1>6, <1>11, <1>13 DEF AppInv, ThreadInv
<1>15. TraceInv(a, y, status[a], excuse'[a], rows', role)
  <2>1. \A s \in 1..5 : Pending(x, s) \subseteq Pending(y, s)
    BY <1>1, <1>6, <1>13 DEF Pending
  <2>2. x.t \in 2..5 /\ w \in Pending(y, x.t)
    BY <1>2, <1>6, <1>13 DEF Pending
  <2>3. TraceInv(a, y, status[a], excuse'[a], rows, role)
    BY <1>1, <1>10, <2>1, TraceMoves DEF AppInv
  <2> QED
    BY <1>8, <1>13, <2>2, <2>3 DEF TraceInv
<1>16. MergedInv(a, y, status[a], excuse'[a], rows')
  <2> SUFFICES ASSUME "prefix" \notin excuse'[a], NEW s \in 2..5, NEW n \in Range(Records[s])
               PROVE  \/ s > x.t \/ (s = x.t /\ n \in Range(Tail(x.todo)))
                      \/ n \in Unfit[a]
                      \/ \E r \in rows' : r.name = n /\ r.by \in {a, "same"}
    BY <1>13 DEF MergedInv
  <2>1. \/ s > x.t \/ (s = x.t /\ n \in Range(x.todo))
        \/ n \in Unfit[a]
        \/ \E r \in rows : r.name = n /\ r.by \in {a, "same"}
    BY <1>1, <1>10 DEF AppInv, MergedInv
  <2> QED
    BY <1>4, <1>5, <1>8, <2>1
<1>17. AppInv(a, app'[a], status'[a], excuse'[a], rows', role', temp')
  BY <1>13, <1>14, <1>15, <1>16 DEF AppInv, TempInv, y
<1>18. \A r \in rows' : r \in rows \/ (r.by = a /\ r.name \notin Same(rows) \cup Unfit[a])
  BY <1>5, <1>8
<1>19. \A b \in Applications : b # a =>
        /\ app'[b] = app[b] /\ status'[b] = status[b] /\ excuse[b] \subseteq excuse'[b]
        /\ b \in temp' => b \in temp
        /\ \A r \in rows : r.by = b => r \in rows'
        /\ \A u \in Users : role'[u].by = b => role[u].by = b
  BY <1>8, <1>9, <1>10
<1>20. \A r \in rows : r \in rows'
  BY <1>8
<1> HIDE DEF x
<1> QED
  BY <1>12, <1>17, <1>18, <1>19, <1>20, ApplyStep

\* The role of a user is written, and the old one remembered.
LEMMA WriteUserStep ==
    ASSUME ApplyInv, NEW a \in Applications, app[a].at = "write", app[a].t = 1, WriteUser(a),
           UNCHANGED <<used, status, temp, faults, events>>
    PROVE  ApplyInv'
<1> DEFINE x == app[a]
           u == Head(x.todo)
           d == [user |-> u, old |-> x.target]
           mine == Append(x.mine, d)
           labels == IF x.target.by \in Applications \/ role[u] # x.target THEN {"overlap"} ELSE {}
           new == [value |-> WantedRole[a], by |-> a]
<1>1. ApplyTypes /\ AppInv(a, x, status[a], excuse[a], rows, role, temp) /\ x.at = "write" /\ x.t = 1
  BY DEF ApplyInv
<1>2. /\ x \in Merging /\ 1 \in 1..5 /\ x.mine \in Seq(DeltasOf(a, 1, Same(rows)))
      /\ x.todo \in Seq(Range(Records[1])) /\ x.todo \in Seq(Names)
  BY <1>1, MergeForm
<1>3. x.todo # <<>> /\ x.target \in Roles /\ u \in Users
  BY <1>1 DEF AppInv, ThreadInv
<1>4. Tail(x.todo) \in Seq(Range(Records[1])) /\ Tail(x.todo) \in Seq(Names)
  BY <1>2, <1>3, HeadOrTail
<1>5. d \in UserDeltas /\ d.user = u
  BY <1>3 DEF UserDeltas
<1>6. new \in Roles /\ new.by = a
  BY ApplyParameters DEF Roles
<1>7. DeltasOf(a, 1, Same(rows)) = UserDeltas
  BY DEF DeltasOf
<1> HIDE DEF u, d, new
<1>8. /\ mine \in Seq(UserDeltas) /\ Range(x.mine) \subseteq Range(mine) /\ d \in Range(mine)
  BY <1>2, <1>5, <1>7, AppendRange
<1>9. mine \in Seq(Deltas)
  BY <1>2, <1>7, <1>8, DeltasTyped, SeqMonotonic
<1>10. /\ app' = [app EXCEPT ![a].at = "resolve", ![a].todo = Tail(x.todo), ![a].mine = mine]
       /\ role' = [role EXCEPT ![u] = new] /\ Note(a, labels) /\ UNCHANGED rows
  BY DEF WriteUser, u, d, new
<1> HIDE DEF mine
<1>11. /\ app' \in [Applications -> AppStates]
       /\ app'[a].at = "resolve" /\ app'[a].t = x.t /\ app'[a].todo = Tail(x.todo)
       /\ app'[a].mine = mine /\ app'[a].deltas = x.deltas
       /\ \A b \in Applications : b # a => app'[b] = app[b]
  BY <1>1, <1>2, <1>4, <1>9, <1>10, NextRecord
<1>12. labels \in SUBSET {"overlap"}
  OBVIOUS
<1> HIDE DEF labels
<1>13. /\ excuse' \in [Applications -> SUBSET {"overlap", "escaped", "halfway", "abandoned", "prefix", "undeleted"}]
       /\ excuse'[a] = excuse[a] \cup labels
       /\ \A b \in Applications : b # a => excuse'[b] = excuse[b]
  BY <1>1, <1>10, <1>12, Notes
<1>14. /\ role' \in [Users -> Roles] /\ role'[u].by = a
       /\ \A v \in Users : v # u => role'[v] = role[v]
  BY <1>1, <1>3, <1>6, <1>10 DEF ApplyTypes
<1>15. ApplyTypes'
  BY <1>1, <1>10, <1>11, <1>13, <1>14 DEF ApplyTypes
<1> DEFINE y == app'[a]
<1> HIDE DEF y
<1>16. /\ y.at = "resolve" /\ y.t = 1 /\ y.todo = Tail(x.todo) /\ y.mine = mine /\ y.deltas = x.deltas
  BY <1>1, <1>11 DEF y
<1>17. ThreadInv(a, y, Same(rows))
  BY <1>1, <1>4, <1>7, <1>8, <1>16 DEF AppInv, ThreadInv
<1>18. TraceInv(a, y, status[a], excuse'[a], rows, role')
  <2>1. \A s \in 1..5 : Pending(x, s) \subseteq Pending(y, s)
    BY <1>1, <1>8, <1>16 DEF Pending
  <2>2. d \in Pending(y, 1)
    BY <1>8, <1>16 DEF Pending
  <2>3. TraceInv(a, y, status[a], excuse'[a], rows, role)
    BY <1>1, <1>13, <2>1, TraceMoves DEF AppInv
  <2> QED
    BY <1>5, <1>14, <1>16, <2>2, <2>3 DEF TraceInv
<1>19. MergedInv(a, y, status[a], excuse'[a], rows)
  BY <1>16 DEF MergedInv
<1>20. AppInv(a, app'[a], status'[a], excuse'[a], rows', role', temp')
  BY <1>10, <1>16, <1>17, <1>18, <1>19 DEF AppInv, TempInv, y
<1>21. \A b \in Applications : b # a =>
        /\ app'[b] = app[b] /\ status'[b] = status[b] /\ excuse[b] \subseteq excuse'[b]
        /\ b \in temp' => b \in temp
        /\ \A v \in Users : role'[v].by = b => role[v].by = b
  BY <1>11, <1>13, <1>14
<1>22. rows' = rows
  BY <1>10
<1> HIDE DEF x
<1> QED
  BY <1>15, <1>20, <1>21, <1>22, ApplyStep

\* A row that is not there yet is written, unless its record cannot be taken;
\* what to do about a name that was taken meanwhile depends on the table.
LEMMA WriteStep ==
    ASSUME ApplyInv, NEW a \in Applications, Write(a)
    PROVE  ApplyInv'
<1>1. app[a].at = "write" /\ UNCHANGED <<used, status, temp, faults, events>>
  BY DEF Write
<1>2. CASE app[a].t = 1
  BY <1>1, <1>2, WriteUserStep DEF Write
<1>3. CASE app[a].t # 1
  <2> DEFINE clash == Tables[app[a].t] # "software_stacks" /\ Taken(Head(app[a].todo), app[a].target)
             labels == IF clash /\ Raises(a) /\ app[a].mine # <<>> THEN {"escaped"} ELSE {}
  <2>1. WriteRecord(a)
    BY <1>3 DEF Write
  <2>2. UNCHANGED role /\ Note(a, labels)
    BY <2>1 DEF WriteRecord
  <2>3. labels \in SUBSET {"escaped"}
    OBVIOUS
  <2>4. faults' \in 0..MaxFaults
    BY <1>1 DEF ApplyInv, ApplyTypes
  <2>5. CASE ~clash /\ Head(app[a].todo) \notin Unfit[a] /\ Create(a)
    <3> HIDE DEF labels, clash
    <3> QED
      BY <1>1, <1>3, <2>2, <2>3, <2>5, CreateStep
  <2>6. CASE clash /\ Return(a) /\ UNCHANGED rows
    <3> HIDE DEF labels, clash
    <3> QED
      BY <1>1, <2>2, <2>3, <2>4, <2>6, GiveUpStep
  <2>7. CASE clash /\ Tables[app[a].t] = "cluster_settings" /\ Raise(a) /\ UNCHANGED rows
    <3>1. app[a].mine # <<>> => "escaped" \in labels
      BY <2>7 DEF Raises
    <3> HIDE DEF labels, clash
    <3> QED
      BY <1>1, <2>2, <2>3, <2>4, <2>7, <3>1, GiveUpStep
  <2>8. CASE ~clash /\ Head(app[a].todo) \in Unfit[a] /\ Skip(a) /\ UNCHANGED rows
    <3>1. labels = {}
      BY <2>8
    <3>2. UNCHANGED excuse
      BY <2>2, <3>1 DEF Note, ApplyInv, ApplyTypes
    <3>3. app[a].todo # <<>>
      BY <1>1 DEF ApplyInv, AppInv, ThreadInv
    <3> HIDE DEF labels, clash
    <3> QED
      BY <1>1, <2>2, <2>8, <3>2, <3>3, SkipStep
  <2> QED
    BY <2>1, <2>5, <2>6, <2>7, <2>8 DEF WriteRecord
<1> QED
  BY <1>2, <1>3

\* A call fails, perhaps after it has had its effect.
LEMMA MergeFailsStep ==
    ASSUME ApplyInv, NEW a \in Applications, MergeFails(a)
    PROVE  ApplyInv'
<1> DEFINE half == IF rows' # rows THEN {"halfway"} ELSE {}
           lost == IF app[a].mine # <<>> THEN {"escaped"} ELSE {}
<1>1. /\ ApplyTypes /\ app[a].at \in {"resolve", "write"} /\ Fault
      /\ UNCHANGED <<role, used, status, temp, events>>
  BY DEF ApplyInv, MergeFails
<1>2. app[a].t \in 1..5
  BY <1>1, MergeForm
<1>3. \/ rows' = rows
      \/ /\ rows' = rows \cup {Written(a)} /\ app[a].at = "write" /\ app[a].t # 1
         /\ Head(app[a].todo) \notin Unfit[a]
  BY <1>2 DEF MergeFails
<1>4. faults' \in 0..MaxFaults
  BY <1>1, FaultsCounted
<1>5. (Return(a) /\ Note(a, half)) \/ (Raise(a) /\ Note(a, half \cup lost))
  BY DEF MergeFails
<1>6. /\ half \in SUBSET {"halfway"} /\ (rows' # rows => "halfway" \in half)
      /\ lost \in SUBSET {"escaped"} /\ (app[a].mine # <<>> => "escaped" \in lost)
  OBVIOUS
<1> HIDE DEF half, lost
<1>7. CASE Return(a) /\ Note(a, half)
  BY <1>1, <1>3, <1>4, <1>6, <1>7, GiveUpStep
<1>8. CASE Raise(a) /\ Note(a, half \cup lost)
  <2> DEFINE labels == half \cup lost
  <2>1. /\ labels \in SUBSET {"halfway", "escaped"} /\ (rows' # rows => "halfway" \in labels)
        /\ (app[a].mine # <<>> => "escaped" \in labels) /\ Note(a, labels)
    BY <1>6, <1>8
  <2> HIDE DEF labels
  <2> QED
    BY <1>1, <1>3, <1>4, <1>8, <2>1, GiveUpStep
<1> QED
  BY <1>5, <1>7, <1>8

-----------------------------------------------------------------------------
(* Every action preserves the invariant: the rollback, and meanwhile *)

\* A delta has been undone, and is forgotten.
LEMMA Forgets ==
    ASSUME ApplyInv, NEW a \in Applications, app[a].at = "rollback", app[a].t > 0,
           app[a].deltas[app[a].t] # <<>>,
           app' = [app EXCEPT ![a].deltas[app[a].t] = Tail(@)]
    PROVE  /\ app' \in [Applications -> AppStates] /\ app'[a].at = "rollback"
           /\ \A b \in Applications : b # a => app'[b] = app[b]
           /\ app[a].t \in 1..5
           /\ Head(app[a].deltas[app[a].t]) \in DeltasOf(a, app[a].t, Same(rows))
           /\ ThreadInv(a, app'[a], Same(rows))
           /\ \A s \in 1..5 : \A d \in Pending(app[a], s) :
                d \in Pending(app'[a], s) \/ (s = app[a].t /\ d = Head(app[a].deltas[s]))
<1> DEFINE x == app[a]
           old == x.deltas[x.t]
           deltas == [x.deltas EXCEPT ![x.t] = Tail(old)]
           y == [x EXCEPT !.deltas = deltas]
<1>1. ApplyTypes /\ app \in [Applications -> AppStates] /\ ThreadInv(a, x, Same(rows))
  BY DEF ApplyInv, ApplyTypes, AppInv
<1>2. x \in Merging /\ x.t \in 0..5 /\ x.deltas \in [1..5 -> Seq(Deltas)]
  BY <1>1, AppForm
<1>3. x.t \in 1..5
  BY <1>2
<1>4. \A s \in 1..5 : x.deltas[s] \in Seq(DeltasOf(a, s, Same(rows)))
  BY <1>1 DEF ThreadInv
<1>5. old \in Seq(DeltasOf(a, x.t, Same(rows))) /\ old \in Seq(Deltas)
  BY <1>2, <1>3, <1>4
<1>6. /\ Head(old) \in DeltasOf(a, x.t, Same(rows)) /\ Tail(old) \in Seq(DeltasOf(a, x.t, Same(rows)))
      /\ Tail(old) \in Seq(Deltas)
      /\ \A d \in Range(old) : d = Head(old) \/ d \in Range(Tail(old))
  <2> DEFINE S == DeltasOf(a, x.t, Same(rows))
  <2>1. old # <<>> /\ old \in Seq(S)
    BY <1>5
  <2> HIDE DEF S, old
  <2>2. Head(old) \in S /\ Tail(old) \in Seq(S) /\ \A d \in Range(old) : d = Head(old) \/ d \in Range(Tail(old))
    BY <2>1, HeadOrTail
  <2>3. Tail(old) \in Seq(Deltas)
    BY <1>5, <2>1, HeadOrTail
  <2> QED
    BY <2>2, <2>3 DEF S
<1>7. app' = [app EXCEPT ![a] = y]
  BY <1>1
<1>8. /\ deltas \in [1..5 -> Seq(Deltas)] /\ deltas[x.t] = Tail(old)
      /\ \A s \in 1..5 : s # x.t => deltas[s] = x.deltas[s]
  BY <1>2, <1>3, <1>6
<1> HIDE DEF deltas
<1>9. y \in Merging /\ y.at = x.at /\ y.t = x.t /\ y.deltas = deltas
  BY <1>2, <1>8 DEF Merging
<1> HIDE DEF y
<1>10. /\ app' \in [Applications -> AppStates] /\ app'[a] = y
       /\ \A b \in Applications : b # a => app'[b] = app[b]
  BY <1>1, <1>7, <1>9 DEF AppStates
<1>11. ThreadInv(a, y, Same(rows))
  <2>1. \A s \in 1..5 : deltas[s] \in Seq(DeltasOf(a, s, Same(rows)))
    BY <1>4, <1>6, <1>8
  <2> QED
    BY <1>9, <2>1 DEF ThreadInv
<1>12. ASSUME NEW s \in 1..5, NEW d \in Pending(x, s)
       PROVE  d \in Pending(y, s) \/ (s = x.t /\ d = Head(x.deltas[s]))
  <2>1. s <= x.t /\ d \in Range(x.deltas[s])
    BY <1>12 DEF Pending
  <2>2. d \in Range(deltas[s]) \/ (s = x.t /\ d = Head(x.deltas[s]))
    BY <1>6, <1>8, <2>1
  <2>3. Pending(y, s) = Range(deltas[s])
    BY <1>9, <2>1 DEF Pending
  <2> QED
    BY <2>2, <2>3
<1> QED
  BY <1>3, <1>6, <1>9, <1>10, <1>11, <1>12

\* The tables that follow that of the users.
LEMMA LaterTables == 1 \in 1..5 /\ \A s \in 2..5 : s \in 1..5 /\ s # 1
  OBVIOUS

\* The role of a user is put back.
LEMMA UndoRoleStep ==
    ASSUME ApplyInv, NEW a \in Applications, Undo(a), app[a].t = 1, NoFault,
           role' = [role EXCEPT ![Head(app[a].deltas[1]).user] = Head(app[a].deltas[1]).old],
           app' = [app EXCEPT ![a].deltas[app[a].t] = Tail(@)],
           excuse' = [b \in Applications |-> excuse[b] \cup
                        IF \/ Head(app[a].deltas[1]).old.by = b
                           \/ b = a /\ role[Head(app[a].deltas[1]).user].by # a
                        THEN {"overlap"} ELSE {}],
           UNCHANGED <<rows, status>>
    PROVE  ApplyInv'
<1> DEFINE d == Head(app[a].deltas[1])
<1>1. /\ ApplyTypes /\ AppInv(a, app[a], status[a], excuse[a], rows, role, temp)
      /\ UNCHANGED <<used, temp, events>> /\ app[a].at = "rollback" /\ app[a].t > 0
      /\ app[a].deltas[app[a].t] # <<>>
  BY DEF ApplyInv, Undo
<1>2. /\ app' \in [Applications -> AppStates] /\ app'[a].at = "rollback"
      /\ \A b \in Applications : b # a => app'[b] = app[b]
      /\ d \in DeltasOf(a, 1, Same(rows))
      /\ ThreadInv(a, app'[a], Same(rows))
      /\ \A s \in 1..5 : \A e \in Pending(app[a], s) : e \in Pending(app'[a], s) \/ (s = 1 /\ e = d)
  <2>1. /\ app' \in [Applications -> AppStates] /\ app'[a].at = "rollback"
        /\ \A b \in Applications : b # a => app'[b] = app[b]
        /\ ThreadInv(a, app'[a], Same(rows))
    BY <1>1, Forgets
  <2>2. Head(app[a].deltas[app[a].t]) \in DeltasOf(a, app[a].t, Same(rows))
    BY <1>1, Forgets
  <2>3. \A s \in 1..5 : \A e \in Pending(app[a], s) :
           e \in Pending(app'[a], s) \/ (s = app[a].t /\ e = Head(app[a].deltas[s]))
    BY <1>1, Forgets
  <2> QED
    BY <2>1, <2>2, <2>3
<1>3. d.user \in Users /\ d.old \in Roles
  BY <1>2 DEF DeltasOf, UserDeltas
<1>4. /\ role' = [role EXCEPT ![d.user] = d.old]
      /\ \A b \in Applications : excuse'[b] = excuse[b] \cup
            IF d.old.by = b \/ (b = a /\ role[d.user].by # a) THEN {"overlap"} ELSE {}
  OBVIOUS
<1>5. excuse' \in [Applications -> SUBSET {"overlap", "escaped", "halfway", "abandoned", "prefix", "undeleted"}]
  <2>1. \A b \in Applications : excuse'[b] \in SUBSET {"overlap", "escaped", "halfway", "abandoned", "prefix", "undeleted"}
    BY <1>1, <1>4 DEF ApplyTypes
  <2>2. excuse' = [b \in Applications |-> excuse'[b]]
    OBVIOUS
  <2> QED
    BY <2>1, <2>2
<1> HIDE DEF d
<1>6. /\ role' \in [Users -> Roles] /\ role'[d.user] = d.old
      /\ \A u \in Users : u # d.user => role'[u] = role[u]
  BY <1>1, <1>3, <1>4 DEF ApplyTypes
<1>7. faults' \in 0..MaxFaults
  BY <1>1, FaultsCounted
<1>8. ApplyTypes'
  BY <1>1, <1>2, <1>5, <1>6, <1>7 DEF ApplyTypes
<1>9. \A b \in Applications : /\ excuse[b] \subseteq excuse'[b]
                              /\ d.old.by = b => "overlap" \in excuse'[b]
                              /\ "prefix" \in excuse'[b] => "prefix" \in excuse[b]
  BY <1>4
<1>10. TraceInv(a, app'[a], status[a], excuse'[a], rows, role')
  <2> SUFFICES ASSUME excuse'[a] \cap {"escaped", "halfway", "abandoned", "overlap"} = {}
               PROVE  /\ \A r \in rows : r.by = a => \E s \in 2..5 : r \in Pending(app'[a], s)
                      /\ \A u \in Users : role'[u].by = a => \E e \in Pending(app'[a], 1) : e.user = u
    BY DEF TraceInv
  <2>1. /\ \A r \in rows : r.by = a => \E s \in 2..5 : r \in Pending(app[a], s)
        /\ \A u \in Users : role[u].by = a => \E e \in Pending(app[a], 1) : e.user = u
    BY <1>1, <1>9 DEF AppInv, TraceInv
  <2>2. d.old.by # a
    BY <1>9
  <2>3. \A r \in rows : r.by = a => \E s \in 2..5 : r \in Pending(app'[a], s)
    BY <1>2, <2>1, LaterTables
  <2>4. ASSUME NEW u \in Users, role'[u].by = a
        PROVE  \E e \in Pending(app'[a], 1) : e.user = u
    <3>1. u # d.user /\ role[u].by = a
      BY <1>6, <2>2, <2>4
    <3>2. PICK e \in Pending(app[a], 1) : e.user = u
      BY <2>1, <3>1
    <3>3. e # d
      BY <3>1, <3>2
    <3> QED
      BY <1>2, <3>2, <3>3, LaterTables
  <2> QED
    BY <2>3, <2>4
<1>11. AppInv(a, app'[a], status'[a], excuse'[a], rows', role', temp')
  BY <1>1, <1>2, <1>10 DEF AppInv, MergedInv, TempInv
<1>12. \A b \in Applications : b # a =>
        /\ app'[b] = app[b] /\ status'[b] = status[b] /\ excuse[b] \subseteq excuse'[b]
        /\ b \in temp' => b \in temp
        /\ \A r \in rows : r.by = b => r \in rows' \/ "prefix" \in excuse'[b]
        /\ \A u \in Users : role'[u].by = b => role[u].by = b \/ "overlap" \in excuse'[b]
  BY <1>1, <1>2, <1>6, <1>9
<1>13. /\ \A r \in rows' : r \in rows \/ (r.by = a /\ r.name \notin Same(rows) \cup Unfit[a])
       /\ \A r \in rows : r.by = "same" => r \in rows'
  OBVIOUS
<1> QED
  BY ONLY ApplyInv, a \in Applications, <1>8, <1>11, <1>12, <1>13, ApplyStep

\* A row is deleted, and with it perhaps rows of others, which is noted.
LEMMA UndoRowStep ==
    ASSUME ApplyInv, NEW a \in Applications, Undo(a), app[a].t # 1, NoFault,
           rows' = rows \ Deleted(Head(app[a].deltas[app[a].t])),
           app' = [app EXCEPT ![a].deltas[app[a].t] = Tail(@)],
           excuse' = [b \in Applications |-> excuse[b] \cup
                        IF \E r \in Deleted(Head(app[a].deltas[app[a].t])) \ {Head(app[a].deltas[app[a].t])} : r.by = b
                        THEN {"prefix"} ELSE {}],
           UNCHANGED <<role, status>>
    PROVE  ApplyInv'
<1> DEFINE t == app[a].t
           d == Head(app[a].deltas[t])
<1>1. /\ ApplyTypes /\ AppInv(a, app[a], status[a], excuse[a], rows, role, temp)
      /\ UNCHANGED <<used, temp, events>> /\ app[a].at = "rollback" /\ app[a].t > 0
      /\ app[a].deltas[app[a].t] # <<>>
  BY DEF ApplyInv, Undo
<1>2. /\ app' \in [Applications -> AppStates] /\ app'[a].at = "rollback"
      /\ \A b \in Applications : b # a => app'[b] = app[b]
      /\ t \in 1..5 /\ d \in DeltasOf(a, t, Same(rows))
      /\ ThreadInv(a, app'[a], Same(rows))
      /\ \A s \in 1..5 : \A e \in Pending(app[a], s) : e \in Pending(app'[a], s) \/ (s = t /\ e = d)
  BY <1>1, Forgets
<1>3. d \in RowsOf(Names) /\ d.by = a /\ d.name \notin Same(rows)
  BY <1>2 DEF DeltasOf
<1>4. /\ rows' = rows \ Deleted(d)
      /\ \A b \in Applications : excuse'[b] = excuse[b] \cup
            IF \E r \in Deleted(d) \ {d} : r.by = b THEN {"prefix"} ELSE {}
  OBVIOUS
<1>5. excuse' \in [Applications -> SUBSET {"overlap", "escaped", "halfway", "abandoned", "prefix", "undeleted"}]
  <2>1. \A b \in Applications : excuse'[b] \in SUBSET {"overlap", "escaped", "halfway", "abandoned", "prefix", "undeleted"}
    BY <1>1, <1>4 DEF ApplyTypes
  <2>2. excuse' = [b \in Applications |-> excuse'[b]]
    OBVIOUS
  <2> QED
    BY <2>1, <2>2
<1> HIDE DEF d, t
<1>6. \A r \in Deleted(d) : r = d \/ r.name = d.name
  BY DEF Deleted, Prefixed
<1>7. d \notin rows'
  BY <1>4 DEF Deleted, Prefixed
<1>8. \A r \in rows : r.by = "same" => r \in rows'
  <2>1. \A r \in rows : r.by = "same" => r.name \in Same(rows)
    BY DEF Same
  <2>2. a # "same"
    BY ApplyFacts
  <2> QED
    BY <1>3, <1>4, <1>6, <2>1, <2>2
<1>9. Same(rows') = Same(rows)
  BY <1>4, <1>8, SameForGood
<1>10. \A b \in Applications : excuse[b] \subseteq excuse'[b]
  BY <1>4
<1>11. \A b \in Applications : b # a => \A r \in rows : r.by = b => r \in rows' \/ "prefix" \in excuse'[b]
  BY <1>3, <1>4
<1>12. faults' \in 0..MaxFaults
  BY <1>1, FaultsCounted
<1>13. ApplyTypes'
  BY <1>1, <1>2, <1>4, <1>5, <1>12 DEF ApplyTypes
<1>14. TraceInv(a, app'[a], status[a], excuse'[a], rows', role)
  <2> SUFFICES ASSUME excuse'[a] \cap {"escaped", "halfway", "abandoned", "overlap"} = {}
               PROVE  /\ \A r \in rows' : r.by = a => \E s \in 2..5 : r \in Pending(app'[a], s)
                      /\ \A u \in Users : role[u].by = a => \E e \in Pending(app'[a], 1) : e.user = u
    BY DEF TraceInv
  <2>1. /\ \A r \in rows : r.by = a => \E s \in 2..5 : r \in Pending(app[a], s)
        /\ \A u \in Users : role[u].by = a => \E e \in Pending(app[a], 1) : e.user = u
    BY <1>1, <1>10 DEF AppInv, TraceInv
  <2>2. /\ \A s \in 2..5 : s \in 1..5
        /\ 1 \in 1..5
    OBVIOUS
  <2>3. \A r \in rows' : r.by = a => \E s \in 2..5 : r \in Pending(app'[a], s)
    BY <1>2, <1>4, <1>7, <2>1, <2>2
  <2>4. 1 # t
    BY DEF t
  <2>5. \A u \in Users : role[u].by = a => \E e \in Pending(app'[a], 1) : e.user = u
    BY <1>2, <2>1, <2>2, <2>4
  <2> QED
    BY <2>3, <2>5
<1>15. AppInv(a, app'[a], status'[a], excuse'[a], rows', role', temp')
  BY <1>1, <1>2, <1>9, <1>14 DEF AppInv, MergedInv, TempInv
<1>16. \A b \in Applications : b # a =>
        /\ app'[b] = app[b] /\ status'[b] = status[b] /\ excuse[b] \subseteq excuse'[b]
        /\ b \in temp' => b \in temp
        /\ \A r \in rows : r.by = b => r \in rows' \/ "prefix" \in excuse'[b]
        /\ \A u \in Users : role'[u].by = b => role[u].by = b \/ "overlap" \in excuse'[b]
  BY <1>1, <1>2, <1>10, <1>11
<1>17. \A r \in rows' : r \in rows \/ (r.by = a /\ r.name \notin Same(rows) \cup Unfit[a])
  BY <1>4
<1> QED
  BY ONLY ApplyInv, a \in Applications, <1>8, <1>13, <1>15, <1>16, <1>17, ApplyStep

\* A delta is undone, or the rollback fails.
LEMMA UndoStep ==
    ASSUME ApplyInv, NEW a \in Applications, Undo(a)
    PROVE  ApplyInv'
<1> DEFINE d == Head(app[a].deltas[app[a].t])
<1>1. /\ ApplyTypes /\ AppInv(a, app[a], status[a], excuse[a], rows, role, temp)
      /\ UNCHANGED <<used, temp, events>> /\ app[a].at = "rollback"
  BY DEF ApplyInv, Undo
<1>2. CASE /\ NoFault /\ app[a].t = 1 /\ role' = [role EXCEPT ![d.user] = d.old]
           /\ app' = [app EXCEPT ![a].deltas[app[a].t] = Tail(@)]
           /\ excuse' = [b \in Applications |-> excuse[b] \cup
                            IF d.old.by = b \/ (b = a /\ role[d.user].by # a) THEN {"overlap"} ELSE {}]
           /\ UNCHANGED <<rows, status>>
  BY <1>2, UndoRoleStep
<1>3. CASE /\ NoFault /\ app[a].t # 1 /\ rows' = rows \ Deleted(d)
           /\ app' = [app EXCEPT ![a].deltas[app[a].t] = Tail(@)]
           /\ excuse' = [b \in Applications |-> excuse[b] \cup
                            IF \E r \in Deleted(d) \ {d} : r.by = b THEN {"prefix"} ELSE {}]
           /\ UNCHANGED <<role, status>>
  BY <1>3, UndoRowStep
<1>4. CASE /\ (Fault \/ NoFault) /\ SetStatus(a, "ROLLBACK_FAILED") /\ Goto(a, "cleanup")
           /\ UNCHANGED <<rows, role, excuse>>
  <2>1. app[a] \in Merging /\ app[a] \notin Brief
    BY <1>1, AppForm
  <2>2. /\ app' \in [Applications -> AppStates] /\ app'[a].at = "cleanup"
        /\ \A b \in Applications : b # a => app'[b] = app[b]
    BY <1>1, <1>4, <2>1, Goes
  <2>3. /\ status' \in [Applications -> Statuses] /\ status'[a] = "ROLLBACK_FAILED"
        /\ \A b \in Applications : b # a => status'[b] = status[b]
    <3>1. "ROLLBACK_FAILED" \in Statuses
      BY DEF Statuses
    <3> QED
      BY <1>1, <1>4, <3>1, Marks
  <2>4. faults' \in 0..MaxFaults
    BY <1>1, <1>4, FaultsCounted
  <2>5. AppInv(a, app'[a], status'[a], excuse[a], rows, role, temp)
    BY <2>2, <2>3 DEF AppInv, ThreadInv, TraceInv, MergedInv, TempInv
  <2> QED
    BY <1>1, <1>4, <2>2, <2>3, <2>4, <2>5, QuietStep DEF ApplyTypes
<1>5. app[a].t \in 0..5
  BY <1>1, AppForm
<1>6. app[a].t > 1 => app[a].t # 1
  BY <1>5
<1> QED
  BY <1>2, <1>3, <1>4, <1>6 DEF Undo

-----------------------------------------------------------------------------
(* Meanwhile, and all together *)

\* An administrator changes a role: it is nobody's trace any more.
LEMMA ChangeRoleStep ==
    ASSUME ApplyInv, NEW u \in Users, NEW v \in {"user", "admin"}, ChangeRole(u, v)
    PROVE  ApplyInv'
<1> DEFINE new == [value |-> v, by |-> "admin"]
<1>1. /\ ApplyTypes /\ UNCHANGED <<rows, used, status, app, temp, excuse, faults>>
      /\ role' = [role EXCEPT ![u] = new] /\ events < MaxEvents /\ events' = events + 1
  BY DEF ApplyInv, ChangeRole, Event
<1>2. new \in Roles /\ new.by = "admin"
  BY DEF Roles
<1> HIDE DEF new
<1>3. /\ role' \in [Users -> Roles] /\ role'[u] = new
      /\ \A w \in Users : w # u => role'[w] = role[w]
  BY <1>1, <1>2 DEF ApplyTypes
<1>4. events' \in 0..MaxEvents
  BY <1>1, ApplyParameters DEF ApplyTypes
<1>5. ApplyTypes'
  BY <1>1, <1>3, <1>4 DEF ApplyTypes
<1>6. ASSUME NEW a \in Applications
      PROVE  AppInv(a, app[a], status[a], excuse[a], rows, role', temp)
  <2>1. AppInv(a, app[a], status[a], excuse[a], rows, role, temp) /\ a # "admin"
    BY ApplyFacts DEF ApplyInv
  <2>2. \A w \in Users : role'[w].by = a => role[w].by = a
    BY <1>2, <1>3, <2>1
  <2> QED
    BY <2>1, <2>2, OthersKeep
<1>7. \A r \in rows : r.by \in Applications => r.name \notin Same(rows) \cup Unfit[r.by]
  BY DEF ApplyInv
<1> QED
  BY <1>1, <1>5, <1>6, <1>7 DEF ApplyInv

\* A session uses a row.
LEMMA StartSessionStep ==
    ASSUME ApplyInv, NEW row \in rows, StartSession(row)
    PROVE  ApplyInv'
<1>1. /\ ApplyTypes /\ UNCHANGED <<rows, role, status, app, temp, excuse, faults>>
      /\ used' = used \cup {row} /\ events < MaxEvents /\ events' = events + 1
  BY DEF ApplyInv, StartSession, Event
<1>2. events' \in 0..MaxEvents
  BY <1>1, ApplyParameters DEF ApplyTypes
<1>3. ApplyTypes'
  BY <1>1, <1>2 DEF ApplyTypes
<1> QED
  BY <1>1, <1>3 DEF ApplyInv

\* The cluster manager dies, and nobody resumes an application.
LEMMA CrashThreadsStep ==
    ASSUME ApplyInv, CrashThreads
    PROVE  ApplyInv'
<1> DEFINE dead == [at |-> "dead"]
<1>1. /\ ApplyTypes /\ UNCHANGED <<rows, role, used, status, temp, excuse, events>> /\ Fault
      /\ app' = [a \in Applications |-> IF Running(a) THEN dead ELSE app[a]]
  BY DEF ApplyInv, CrashThreads, environmentVars
<1>2. dead \in AppStates /\ dead.at = "dead"
  BY DEF AppStates, Brief
<1> HIDE DEF dead
<1>3. \A a \in Applications : app'[a] = app[a] \/ app'[a] = dead
  BY <1>1
<1>4. app' \in [Applications -> AppStates]
  BY <1>1, <1>2 DEF ApplyTypes
<1>5. faults' \in 0..MaxFaults
  BY <1>1, FaultsCounted
<1>6. ApplyTypes'
  BY <1>1, <1>4, <1>5 DEF ApplyTypes
<1>7. ASSUME NEW a \in Applications
      PROVE  AppInv(a, app'[a], status[a], excuse[a], rows, role, temp)
  <2>1. CASE app'[a] = app[a]
    BY <2>1 DEF ApplyInv
  <2>2. CASE app'[a] = dead
    <3>1. app'[a].at = "dead"
      BY <1>2, <2>2
    <3> QED
      BY <3>1 DEF AppInv, ThreadInv, TraceInv, MergedInv, TempInv
  <2> QED
    BY <1>3, <2>1, <2>2
<1>8. \A r \in rows : r.by \in Applications => r.name \notin Same(rows) \cup Unfit[r.by]
  BY DEF ApplyInv
<1> QED
  BY <1>1, <1>6, <1>7, <1>8 DEF ApplyInv

\* Nothing has been applied yet.
LEMMA ApplyStarts == ApplyInit => ApplyInv
<1> SUFFICES ASSUME ApplyInit PROVE ApplyInv
  OBVIOUS
<1>1. /\ rows \subseteq RowsOf(Names) /\ \A r \in rows : r.by \notin Applications
  BY ApplyParameters DEF ApplyInit
<1>2. role \in [Users -> Roles] /\ \A u \in Users : role[u].by = "env"
  BY DEF ApplyInit, Roles
<1>3. app \in [Applications -> AppStates] /\ \A a \in Applications : app[a].at = "none"
  <2>1. Waiting \in AppStates /\ Waiting.at = "none"
    BY DEF Waiting, AppStates, Brief
  <2> QED
    BY <2>1 DEF ApplyInit
<1>4. /\ status \in [Applications -> Statuses]
      /\ excuse \in [Applications -> SUBSET {"overlap", "escaped", "halfway", "abandoned", "prefix", "undeleted"}]
  BY DEF ApplyInit, Statuses
<1>5. used = {} /\ temp = {} /\ faults \in 0..MaxFaults /\ events \in 0..MaxEvents
  BY ApplyParameters DEF ApplyInit
<1>6. ApplyTypes
  BY <1>1, <1>2, <1>3, <1>4, <1>5 DEF ApplyTypes
<1>7. ASSUME NEW a \in Applications
      PROVE  AppInv(a, app[a], status[a], excuse[a], rows, role, temp)
  <2>1. a # "env"
    BY ApplyFacts
  <2>2. TraceInv(a, app[a], status[a], excuse[a], rows, role)
    BY <1>1, <1>2, <2>1 DEF TraceInv
  <2>3. app[a].at = "none"
    BY <1>3
  <2> QED
    BY <1>5, <2>2, <2>3 DEF AppInv, ThreadInv, MergedInv, TempInv
<1> QED
  BY <1>1, <1>6, <1>7 DEF ApplyInv

\* Any step of the applications and their environment.
LEMMA ApplyPreserves ==
    ASSUME ApplyInv, ApplyNext
    PROVE  ApplyInv'
<1>1. ASSUME NEW a \in Applications, Apply(a)
      PROVE  ApplyInv'
  BY <1>1, InitializeStep, ImportAllTablesStep, ReadTablesStep, ResolveStep, WriteStep, MergeFailsStep,
     SettingsFailStep, NextTableStep, CompleteStep, AnnounceStep, UndoStep, RollbackTableStep,
     RollbackCompleteStep, CleanupStep DEF Apply
<1> QED
  BY <1>1, ChangeRoleStep, StartSessionStep, CrashThreadsStep DEF ApplyNext

\* The deployment that is not followed stands still.
LEMMA ApplyStutters ==
    ASSUME ApplyInv, UNCHANGED applyVars
    PROVE  ApplyInv'
  BY DEF applyVars, ApplyInv, ApplyTypes

-----------------------------------------------------------------------------
(* The theorems *)

\* The inductive invariant of the applications holds of apply_snapshot_main and
\* the table mergers, however applications overlap and wherever they fail.
THEOREM ApplyInvariant == Spec => []ApplyInv
<1>1. Init => ApplyInv
  BY ApplyStarts DEF Init
<1>2. ApplyInv /\ [Next]_vars => ApplyInv'
  <2> SUFFICES ASSUME ApplyInv, [Next]_vars PROVE ApplyInv'
    OBVIOUS
  <2>1. UNCHANGED applyVars \/ ApplyNext
    BY DEF Next, Finished, vars
  <2> QED
    BY <2>1, ApplyPreserves, ApplyStutters
<1> QED
  BY <1>1, <1>2, PTL DEF Spec

\* When an application has ended, its record says what became of it
\* (ApplyStatusIsTrue): every record that fits the environment has been merged,
\* and no other, or nothing is left, except where one of the known exceptions
\* has been met.
THEOREM ApplyStatusHolds == Spec => []ApplyStatusIsTrue
<1>1. ApplyInv => ApplyStatusIsTrue
  <2> SUFFICES ASSUME ApplyInv, NEW a \in Applications, app[a].at = "done"
               PROVE  /\ status[a] = "COMPLETED" /\ "prefix" \notin excuse[a] => Merged(a)
                      /\ status[a] \in {"ROLLBACK_COMPLETE", "FAILED"}
                         /\ excuse[a] \cap {"escaped", "halfway", "abandoned", "overlap"} = {} => Traces(a) = {}
                      /\ a \in temp => "undeleted" \in excuse[a]
    BY DEF ApplyStatusIsTrue
  <2>1. /\ TraceInv(a, app[a], status[a], excuse[a], rows, role)
        /\ MergedInv(a, app[a], status[a], excuse[a], rows)
        /\ TempInv(a, app[a], excuse[a], temp)
    BY DEF ApplyInv, AppInv
  <2>2. ASSUME status[a] = "COMPLETED", "prefix" \notin excuse[a]
        PROVE  Merged(a)
    <3>1. \A s \in 2..5 : \A n \in Range(Records[s]) :
             n \in Unfit[a] \/ \E r \in rows : r.name = n /\ r.by \in {a, "same"}
      BY <2>1, <2>2 DEF MergedInv
    <3>2. \A s \in 2..5 : \A i \in DOMAIN Records[s] : Records[s][i] \in Range(Records[s])
      BY DEF Range
    <3>3. \A s \in 2..5 : \A i \in DOMAIN Records[s] :
             \/ Records[s][i] \in Unfit[a]
             \/ \E r \in rows : r.name = Records[s][i] /\ r.by \in {a, "same"}
      BY <3>1, <3>2, Zenon
    <3>4. Len(Tables) = 5
      BY ApplyFacts
    <3>5. \A r \in rows : r.by = a => r.name \notin Unfit[a]
      BY DEF ApplyInv
    <3> QED
      BY <3>3, <3>4, <3>5 DEF Merged
  <2>3. ASSUME status[a] \in {"ROLLBACK_COMPLETE", "FAILED"},
               excuse[a] \cap {"escaped", "halfway", "abandoned", "overlap"} = {}
        PROVE  Traces(a) = {}
    <3>1. \A s : Pending(app[a], s) = {}
      BY DEF Pending
    <3>2. /\ \A r \in rows : r.by # a
          /\ \A u \in Users : role[u].by # a
      BY <2>1, <2>3, <3>1 DEF TraceInv
    <3> QED
      BY <3>2 DEF Traces
  <2>4. a \in temp => "undeleted" \in excuse[a]
    BY <2>1 DEF TempInv
  <2> QED
    BY <2>2, <2>3, <2>4
<1> QED
  BY <1>1, ApplyInvariant, PTL

\* Every variable has its type: among them, the table that a rollback has
\* reached stays within the list, and a record that is written is there.
THEOREM TypeCorrect == Spec => []TypeOK
<1>1. Init => deployment \in {"old", "new"}
  BY DEF Init
<1>2. deployment \in {"old", "new"} /\ [Next]_vars => (deployment \in {"old", "new"})'
  BY DEF Next, Finished, vars
<1>3. ExportInv => ExportTypeOK
  <2> SUFFICES ASSUME ExportInv PROVE ExportTypeOK
    OBVIOUS
  <2>1. ExportTypes
    BY DEF ExportInv
  <2>2. \A c \in Creators : creator[c].at \in {"idle", "metadata", "row", "failed", "done"}
    BY <2>1 DEF ExportTypes, Creating
  <2>3. \A l \in Listers : lister[l].at \in {"idle", "get", "describe", "update", "failed"}
    BY <2>1 DEF ExportTypes, ListerStates, Listing, Idle
  <2> QED
    BY <2>1, <2>2, <2>3 DEF ExportTypes, ExportTypeOK
<1>4. ApplyInv => ApplyTypeOK
  <2> SUFFICES ASSUME ApplyInv PROVE ApplyTypeOK
    OBVIOUS
  <2>1. ApplyTypes
    BY DEF ApplyInv
  <2>2. ASSUME NEW a \in Applications
        PROVE  /\ app[a].at = "rollback" => app[a].t \in 0..Len(Tables)
               /\ app[a].at = "write" => app[a].todo # <<>> /\ (app[a].t = 1 => app[a].target \in Roles)
    <3>1. app[a].at = "rollback" => app[a].t \in 0..Len(Tables)
      BY <2>1, AppForm, ApplyFacts
    <3>2. ThreadInv(a, app[a], Same(rows))
      BY DEF ApplyInv, AppInv
    <3> QED
      BY <3>1, <3>2 DEF ThreadInv
  <2> QED
    BY <2>1, <2>2 DEF ApplyTypes, ApplyTypeOK
<1> QED
  BY <1>1, <1>2, <1>3, <1>4, ExportInvariant, ApplyInvariant, PTL DEF Spec, TypeOK

=============================================================================
