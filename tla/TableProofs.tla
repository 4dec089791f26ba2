---------------------------- MODULE TableProofs -----------------------------
(***************************************************************************)
(* The front ends of Xen connect and disconnect in step with a back end    *)
(* that closes any number of times.  Two tables whose entries are handed   *)
(* out: the bitmap of the descriptor table is exact, and without dup3 no   *)
(* file is freed under a descriptor or a call that refers to it; the       *)
(* entries of the grant table are owned by one caller at a time, for every *)
(* table size and every set of callers, whatever the peer does to the      *)
(* flags.                                                                  *)
(***************************************************************************)
EXTENDS Xenbus, FdTable, Gnttab, TLAPS

-----------------------------------------------------------------------------
(* The connection of front end drivers, for both drivers.                  *)

USE DEF Initialising, InitWait, Initialised, Connected, Closing, Closed, Gone

LEMMA InitHolds == BusInit => BusInv
BY XenbusAssumption DEF BusInit, BusInv, BusTypeOK, Watched, StageTells, Announced,
   NoChangeMissed, RingsWhileConnected, UpMeansConnected

LEMMA BackKeeps ==
  ASSUME BusInv, NEW s \in {InitWait, Connected, Closing, Closed, Gone}, BackTo(s),
         closes' \in 0..MaxCloses, driver' = driver,
         s = InitWait => back = Initialising \/ (back = Closed /\ front = Initialising),
         s = Connected => back = InitWait /\ front \in {Initialised, Connected} /\ rings = "published"
  PROVE  BusInv'
BY DEF BusInv, BusTypeOK, Watched, StageTells, Announced, NoChangeMissed,
       RingsWhileConnected, UpMeansConnected, BackTo

\* A disconnecting driver goes on only when the back end is closing at least.
LEMMA SeenClosing ==
  ASSUME BusTypeOK, stage = "closing", ~WaitOn(back) PROVE back \in {Closing, Closed, Gone}
<1>1. ~(back < Closing)
  BY DEF WaitOn
<1> QED
  BY <1>1 DEF BusTypeOK

LEMMA StepKeeps == BusInv /\ [BusNext]_busVars => BusInv'
<1> SUFFICES ASSUME BusInv, [BusNext]_busVars PROVE BusInv'
  OBVIOUS
<1>0. driver' = driver /\ closes \in 0..MaxCloses
  BY DEF BusNext, busVars, BusInv, BusTypeOK
<1> USE <1>0 DEF BusInv, BusTypeOK, Watched, StageTells, Announced, NoChangeMissed,
                 RingsWhileConnected, UpMeansConnected
<1>1. CASE Deliver
  BY <1>1 DEF Deliver
<1>2. CASE ReadFails /\ pc \in {"first", "read"}
  BY <1>2 DEF ReadFails, DropWatch
<1>3. CASE FirstRead
  BY <1>3, SeenClosing DEF FirstRead, Looked
<1>4. CASE LocalWatch
  BY <1>4 DEF LocalWatch, SetWatch
<1>5. CASE Read
  BY <1>5, SeenClosing DEF Read, Looked, DropWatch
<1>6. CASE WaitEvent
  BY <1>6 DEF WaitEvent
<1>7. CASE Publish
  BY <1>7 DEF Publish
<1>8. CASE Published
  BY <1>8 DEF Published, SetWatch
<1>9. CASE Decide9p
  BY <1>9 DEF Decide9p, DropWatch
<1>10. CASE DecideBlk
  BY <1>10 DEF DecideBlk
<1>11. CASE Disconnect
  BY <1>11 DEF Disconnect
<1>12. CASE Advance("closing", "closed", Closed)
  BY <1>12 DEF Advance
<1>13. CASE Advance("closed", "initwait", Initialising)
  BY <1>13 DEF Advance
<1>14. CASE DeleteRings
  BY <1>14, SMTT(40) DEF DeleteRings
<1>15. CASE Back \/ BackVanishes
  BY <1>15, BackKeeps, SMTT(40) DEF Back, BackVanishes, Answers
<1>16. CASE BackCloses
  <2>1. closes' \in 0..MaxCloses
    BY <1>16, XenbusAssumption DEF BackCloses
  <2> QED
    BY <1>16, <2>1, BackKeeps DEF BackCloses
<1>17. CASE UNCHANGED busVars
  BY <1>17 DEF busVars
<1> QED
  BY <1>1, <1>2, <1>3, <1>4, <1>5, <1>6, <1>7, <1>8, <1>9, <1>10, <1>11, <1>12, <1>13,
     <1>14, <1>15, <1>16, <1>17, Zenon DEF BusNext, Driving

\* However often and in whatever order the back end changes its state: a driver that sleeps
\* in xenbus_wait_for_state_change has seen it or has an event on its way;
\* blkfront_xb_disconnect and the failed connections of 9pfront never take the references of
\* the rings out of the store while the back end is connected; and blkfront_xb_connect
\* returns 0 only when the driver has seen the back end connected and has announced itself.
THEOREM BusInvariance == BusSpec => []BusInv
BY InitHolds, StepKeeps, PTL DEF BusSpec

HIDE DEF Initialising, InitWait, Initialised, Connected, Closing, Closed, Gone

-----------------------------------------------------------------------------
(* The descriptor table.                                                   *)

LEMMA NoFdIsNone == NoFd \notin Fd
BY FdAssumption DEF NoFd, Fd

LEMMA CountTypes ==
  ASSUME NEW c \in [File -> Int], NEW f \in File
  PROVE  Fhold(c, f) \in [File -> Int] /\ Fdrop(c, f) \in [File -> Int]
BY DEF Fhold, Fdrop

\* fdalloc keeps the types and, with the descriptors reserved as they are, the bitmap.
LEMMA FdallocInv ==
  ASSUME BitmapInv, NEW c \in [File -> Int], NEW f \in File, Fdalloc(c, f),
         UNCHANGED <<hold, reserved>>
  PROVE  BitmapInv'
<1> USE NoFdIsNone, FdAssumption
<1>1. CASE Full /\ f_count' = Fhold(c, f) /\ UNCHANGED <<bitmap, files>>
  BY <1>1, CountTypes DEF BitmapInv, FdTypeOK, BitmapExact
<1>2. ASSUME NEW d \in Fd, FirstFree(d), bitmap' = bitmap \cup {d},
             files' = Installed(d, f), f_count' = AfterInstall(Fhold(c, f), d)
      PROVE  BitmapInv'
  <2>1. d \notin bitmap /\ files[d] = NoFile
    BY <1>2 DEF FirstFree, BitmapInv, BitmapExact
  <2>2. FdTypeOK'
    BY <1>2, <2>1, CountTypes DEF BitmapInv, FdTypeOK, Installed, AfterInstall
  <2>3. \A t \in Task : reserved[t] # d
    BY <2>1 DEF BitmapInv, BitmapExact, FdTypeOK
  <2>4. \A e \in Fd : files'[e] = IF e = d THEN f ELSE files[e]
    BY <1>2 DEF Installed, BitmapInv, FdTypeOK
  <2>5. bitmap' = {e \in Fd : files'[e] # NoFile}
                    \cup ({reserved'[t] : t \in Task} \ {NoFd})
    BY <1>2, <2>4 DEF BitmapInv, BitmapExact, FdTypeOK
  <2> QED BY <2>2, <2>3, <2>4, <2>5, SMTT(30) DEF BitmapInv, BitmapExact, FdTypeOK
<1> QED BY <1>1, <1>2 DEF Fdalloc

LEMMA BitmapInit == FdInit => BitmapInv
BY NoFdIsNone DEF FdInit, BitmapInv, FdTypeOK, BitmapExact

LEMMA BitmapStep == BitmapInv /\ [FdNext]_fdVars => BitmapInv'
<1> SUFFICES ASSUME BitmapInv, [FdNext]_fdVars PROVE BitmapInv'
  OBVIOUS
<1> USE NoFdIsNone, FdAssumption
<1>1. ASSUME NEW t \in Task, NEW f \in File, Open(t, f) PROVE BitmapInv'
  BY <1>1, FdallocInv DEF Open, BitmapInv, FdTypeOK
<1>2. ASSUME NEW t \in Task, NEW f \in File, Install(t, f) PROVE BitmapInv'
  <2> DEFINE d == reserved[t]
  <2>1. d \in Fd /\ d \in bitmap /\ files[d] = NoFile
    BY <1>2 DEF Install, BitmapInv, BitmapExact, FdTypeOK
  <2>2. FdTypeOK'
    BY <1>2, <2>1, CountTypes DEF Install, BitmapInv, FdTypeOK, Installed, AfterInstall
  <2>3. \A e \in Fd : files'[e] = IF e = d THEN f ELSE files[e]
    BY <1>2 DEF Install, Installed, BitmapInv, FdTypeOK
  <2>4. \A u \in Task : reserved'[u] = IF u = t THEN NoFd ELSE reserved[u]
    BY <1>2 DEF Install, BitmapInv, FdTypeOK
  <2>5. \A u \in Task : u # t => reserved[u] # d
    BY <2>1 DEF BitmapInv, BitmapExact
  <2>6. bitmap' = bitmap
    BY <1>2 DEF Install
  <2>7. \A e \in bitmap' : files'[e] # NoFile \/ \E u \in Task : reserved'[u] = e /\ e # NoFd
    BY <2>1, <2>3, <2>4, <2>6 DEF BitmapInv, BitmapExact
  <2>8. \A e \in Fd : files'[e] # NoFile => e \in bitmap'
    BY <2>1, <2>3, <2>6 DEF BitmapInv, BitmapExact
  <2>9. \A u \in Task : reserved'[u] # NoFd =>
          reserved'[u] \in bitmap' /\ reserved'[u] \in Fd /\ files'[reserved'[u]] = NoFile
    BY <2>3, <2>4, <2>5, <2>6 DEF BitmapInv, BitmapExact, FdTypeOK
  <2>10. \A u, v \in Task : reserved'[u] = reserved'[v] /\ reserved'[u] # NoFd => u = v
    BY <2>4 DEF BitmapInv, BitmapExact
  <2>11. bitmap' \subseteq Fd
    BY <2>2 DEF FdTypeOK
  <2>12. bitmap' = {e \in Fd : files'[e] # NoFile} \cup ({reserved'[u] : u \in Task} \ {NoFd})
    BY <2>7, <2>8, <2>9, <2>11
  <2> QED BY <2>2, <2>9, <2>10, <2>12 DEF BitmapInv, BitmapExact
<1>3. ASSUME NEW t \in Task, NEW d \in Fd, Get(t, d) PROVE BitmapInv'
  BY <1>3, CountTypes DEF Get, BitmapInv, FdTypeOK, BitmapExact
<1>4. ASSUME NEW t \in Task, NEW d \in Fd, GetNull(t, d) PROVE BitmapInv'
  BY <1>4 DEF GetNull, BitmapInv, FdTypeOK, BitmapExact
<1>5. ASSUME NEW t \in Task, NEW d \in Fd, Close(t, d) PROVE BitmapInv'
  <2>1. FdTypeOK'
    BY <1>5, CountTypes DEF Close, BitmapInv, FdTypeOK, Installed
  <2>2. \A e \in Fd : files'[e] = IF e = d THEN NoFile ELSE files[e]
    BY <1>5 DEF Close, Installed, BitmapInv, FdTypeOK
  <2>3. \A u \in Task : reserved[u] # d
    BY <1>5 DEF Close, BitmapInv, BitmapExact
  <2>4. bitmap' = bitmap \ {d} /\ reserved' = reserved
    BY <1>5 DEF Close
  <2> QED BY <2>1, <2>2, <2>3, <2>4 DEF BitmapInv, BitmapExact, FdTypeOK
<1>6. ASSUME NEW t \in Task, NEW d \in Fd, Reserve(t, d) PROVE BitmapInv'
  <2>1. FdTypeOK'
    BY <1>6 DEF Reserve, BitmapInv, FdTypeOK
  <2>2. d \notin bitmap /\ reserved[t] = NoFd
    BY <1>6 DEF Reserve, FirstFree, Idle
  <2>3. \A u \in Task : reserved'[u] = IF u = t THEN d ELSE reserved[u]
    BY <1>6 DEF Reserve, BitmapInv, FdTypeOK
  <2>4. bitmap' = bitmap \cup {d} /\ files' = files
    BY <1>6 DEF Reserve
  <2> QED BY <2>1, <2>2, <2>3, <2>4 DEF BitmapInv, BitmapExact, FdTypeOK
<1>7. ASSUME NEW t \in Task, NEW d \in Fd, NEW b \in BOOLEAN, Dup(t, d, b)
      PROVE  BitmapInv'
  <2>1. files[d] \in File
    BY <1>7 DEF Dup, BitmapInv, FdTypeOK
  <2>2. (IF b /\ Full THEN Fhold(f_count, files[d]) ELSE f_count) \in [File -> Int]
    BY <2>1, CountTypes DEF BitmapInv, FdTypeOK
  <2> QED BY <1>7, <2>1, <2>2, FdallocInv DEF Dup
<1>8. ASSUME NEW t \in Task, NEW d \in Fd, NEW e \in Fd, Dup3(t, d, e) PROVE BitmapInv'
  <2>1. files[d] \in File
    BY <1>8 DEF Dup3, BitmapInv, FdTypeOK
  <2>2. e \in bitmap => files[e] \in File
    BY <1>8 DEF Dup3, BitmapInv, FdTypeOK
  <2>3. FdTypeOK'
    BY <1>8, <2>1, <2>2, CountTypes, ZenonT(30) DEF Dup3, BitmapInv, FdTypeOK, Installed
  <2>4. \A x \in Fd : files'[x] = IF x = e THEN files[d] ELSE files[x]
    BY <1>8 DEF Dup3, Installed, BitmapInv, FdTypeOK
  <2>5. bitmap' = bitmap \cup {e} /\ reserved' = reserved
    BY <1>8 DEF Dup3
  <2>6. \A u \in Task : reserved[u] # e
    BY <1>8, <2>2 DEF Dup3, BitmapInv, BitmapExact, FdTypeOK
  <2> QED BY <2>1, <2>3, <2>4, <2>5, <2>6 DEF BitmapInv, BitmapExact, FdTypeOK
<1>9. ASSUME NEW t \in Task, Put(t) PROVE BitmapInv'
  BY <1>9, CountTypes DEF Put, BitmapInv, FdTypeOK, BitmapExact
<1>10. ASSUME NEW t \in Task, Cancel(t) PROVE BitmapInv'
  <2>1. FdTypeOK'
    BY <1>10 DEF Cancel, BitmapInv, FdTypeOK
  <2>2. files[reserved[t]] = NoFile /\ \A u \in Task : u # t => reserved[u] # reserved[t]
    BY <1>10 DEF Cancel, BitmapInv, BitmapExact
  <2>3. \A u \in Task : reserved'[u] = IF u = t THEN NoFd ELSE reserved[u]
    BY <1>10 DEF Cancel, BitmapInv, FdTypeOK
  <2>4. bitmap' = bitmap \ {reserved[t]} /\ files' = files
    BY <1>10 DEF Cancel
  <2> QED BY <2>1, <2>2, <2>3, <2>4 DEF BitmapInv, BitmapExact, FdTypeOK
<1>11. ASSUME NEW t \in Task, PipeFails(t) PROVE BitmapInv'
  BY <1>11 DEF PipeFails, BitmapInv, FdTypeOK, BitmapExact
<1>12. CASE UNCHANGED fdVars
  BY <1>12 DEF fdVars, BitmapInv, FdTypeOK, BitmapExact
<1> QED
  BY <1>1, <1>2, <1>3, <1>4, <1>5, <1>6, <1>7, <1>8, <1>9, <1>10, <1>11, <1>12, ZenonT(30) DEF FdNext

\* The bitmap has exactly the descriptors that are open or reserved, for any number of
\* threads, files and descriptors, dup3 included: fdalloc never returns a descriptor that
\* is in use.
THEOREM BitmapIsExact == FdSpec => []BitmapInv
BY BitmapInit, BitmapStep, PTL DEF FdSpec

-----------------------------------------------------------------------------
INSTANCE FiniteSetTheorems

(* References to files.                                                   *)

\* Where a function has the value f.
Places(S, fn, f) == {s \in S : fn[s] = f}

LEMMA PlacesFinite ==
  ASSUME NEW S, IsFiniteSet(S), NEW fn, NEW f
  PROVE  IsFiniteSet(Places(S, fn, f)) /\ Cardinality(Places(S, fn, f)) \in Nat
<1>1. Places(S, fn, f) \subseteq S
  BY DEF Places
<1> QED BY <1>1, FS_Subset, FS_CardinalityType

LEMMA FdFinite == IsFiniteSet(Fd) /\ IsFiniteSet(Task)
BY FS_Interval, FdAssumption, SMTT(30) DEF Fd

\* The number of entries, and of calls, that refer to f.
EntriesOf(f) == Cardinality(Places(Fd, files, f))
Holders(f) == Cardinality(Places(Task, hold, f))

LEMMA RefsAreNumbers ==
  ASSUME NEW f
  PROVE  /\ EntriesOf(f) \in Nat /\ EntriesOf(f)' \in Nat
         /\ Holders(f) \in Nat /\ Holders(f)' \in Nat
         /\ Refs(f) = EntriesOf(f) + Holders(f)
         /\ Refs(f)' = EntriesOf(f)' + Holders(f)'
<1>1. IsFiniteSet(Fd) /\ IsFiniteSet(Task)
  BY FdFinite
<1>2. EntriesOf(f) \in Nat /\ Holders(f) \in Nat
  BY <1>1, PlacesFinite DEF EntriesOf, Holders
<1>3. Cardinality(Places(Fd, files', f)) \in Nat
      /\ Cardinality(Places(Task, hold', f)) \in Nat
  BY <1>1, PlacesFinite
<1> QED BY <1>2, <1>3 DEF EntriesOf, Holders, Refs, Places

\* An entry that was empty and is set to g refers to g, and to nothing else.
LEMMA EntrySet ==
  ASSUME files \in [Fd -> File \cup {NoFile}], NEW d \in Fd, files[d] = NoFile,
         NEW g \in File, files' = [files EXCEPT ![d] = g], NEW f \in File
  PROVE  EntriesOf(f)' = IF f = g THEN EntriesOf(f) + 1 ELSE EntriesOf(f)
<1> DEFINE P == Places(Fd, files, f)
           Q == Places(Fd, files', f)
<1>1. IsFiniteSet(P)
  BY FdFinite, PlacesFinite
<1>2. CASE f = g
  <2>1. Q = P \cup {d} /\ d \notin P
    BY <1>2, FdAssumption DEF Places
  <2>2. Cardinality(Q) = Cardinality(P) + 1
    BY <1>1, <2>1, FS_AddElement, ZenonT(30)
  <2> QED BY <1>2, <2>2 DEF EntriesOf
<1>3. CASE f # g
  <2>1. Q = P
    BY <1>3, FdAssumption DEF Places
  <2> QED BY <1>3, <2>1 DEF EntriesOf
<1> QED BY <1>2, <1>3

\* An entry that is cleared does not refer to its file any more.
LEMMA EntryCleared ==
  ASSUME files \in [Fd -> File \cup {NoFile}], NEW d \in Fd,
         files' = [files EXCEPT ![d] = NoFile], NEW f \in File
  PROVE  EntriesOf(f)' = IF f = files[d] THEN EntriesOf(f) - 1 ELSE EntriesOf(f)
<1> DEFINE P == Places(Fd, files, f)
           Q == Places(Fd, files', f)
<1>1. IsFiniteSet(P)
  BY FdFinite, PlacesFinite
<1>2. CASE f = files[d]
  <2>1. Q = P \ {d} /\ d \in P
    BY <1>2, FdAssumption DEF Places
  <2>2. Cardinality(Q) = Cardinality(P) - 1
    BY <1>1, <2>1, FS_RemoveElement, ZenonT(30)
  <2> QED BY <1>2, <2>2 DEF EntriesOf
<1>3. CASE f # files[d]
  <2>1. Q = P
    BY <1>3, FdAssumption DEF Places
  <2> QED BY <1>3, <2>1 DEF EntriesOf
<1> QED BY <1>2, <1>3

\* The same for the calls: one that begins to use g, ...
LEMMA HoldSet ==
  ASSUME hold \in [Task -> File \cup {NoFile}], NEW t \in Task, hold[t] = NoFile,
         NEW g \in File, hold' = [hold EXCEPT ![t] = g], NEW f \in File
  PROVE  Holders(f)' = IF f = g THEN Holders(f) + 1 ELSE Holders(f)
<1> DEFINE P == Places(Task, hold, f)
           Q == Places(Task, hold', f)
<1>1. IsFiniteSet(P)
  BY FdFinite, PlacesFinite
<1>2. CASE f = g
  <2>1. Q = P \cup {t} /\ t \notin P
    BY <1>2, FdAssumption DEF Places
  <2>2. Cardinality(Q) = Cardinality(P) + 1
    BY <1>1, <2>1, FS_AddElement, ZenonT(30)
  <2> QED BY <1>2, <2>2 DEF Holders
<1>3. CASE f # g
  <2>1. Q = P
    BY <1>3, FdAssumption DEF Places
  <2> QED BY <1>3, <2>1 DEF Holders
<1> QED BY <1>2, <1>3

\* ... and one that ends.
LEMMA HoldCleared ==
  ASSUME hold \in [Task -> File \cup {NoFile}], NEW t \in Task,
         hold' = [hold EXCEPT ![t] = NoFile], NEW f \in File
  PROVE  Holders(f)' = IF f = hold[t] THEN Holders(f) - 1 ELSE Holders(f)
<1> DEFINE P == Places(Task, hold, f)
           Q == Places(Task, hold', f)
<1>1. IsFiniteSet(P)
  BY FdFinite, PlacesFinite
<1>2. CASE f = hold[t]
  <2>1. Q = P \ {t} /\ t \in P
    BY <1>2, FdAssumption DEF Places
  <2>2. Cardinality(Q) = Cardinality(P) - 1
    BY <1>1, <2>1, FS_RemoveElement, ZenonT(30)
  <2> QED BY <1>2, <2>2 DEF Holders
<1>3. CASE f # hold[t]
  <2>1. Q = P
    BY <1>3, FdAssumption, SMTT(30) DEF Places
  <2> QED BY <1>3, <2>1 DEF Holders
<1> QED BY <1>2, <1>3

CoverInv == BitmapInv /\ RefsCovered

\* fdalloc counts the entry it makes, and more when the table is full.
LEMMA FdallocCovers ==
  ASSUME CoverInv, NEW c \in [File -> Int], \A f \in File : f_count[f] <= c[f],
         NEW g \in File, Fdalloc(c, g), UNCHANGED hold
  PROVE  RefsCovered'
<1> SUFFICES ASSUME NEW f \in File PROVE Refs(f)' <= f_count'[f]
  BY DEF RefsCovered
<1>0. /\ Refs(f) <= f_count[f] /\ f_count[f] <= c[f]
      /\ c[f] \in Int /\ f_count[f] \in Int
      /\ Holders(f)' = Holders(f)
  BY SMTT(30) DEF CoverInv, BitmapInv, FdTypeOK, RefsCovered, Holders
<1>1. CASE Full /\ f_count' = Fhold(c, g) /\ UNCHANGED <<bitmap, files>>
  <2>1. EntriesOf(f)' = EntriesOf(f)
    BY <1>1 DEF EntriesOf
  <2>2. f_count'[f] >= c[f] /\ f_count'[f] \in Int
    BY <1>1 DEF Fhold
  <2> QED BY <1>0, <2>1, <2>2, RefsAreNumbers
<1>2. ASSUME NEW d \in Fd, FirstFree(d), files' = Installed(d, g),
             f_count' = AfterInstall(Fhold(c, g), d)
      PROVE  Refs(f)' <= f_count'[f]
  <2>1. files[d] = NoFile /\ files \in [Fd -> File \cup {NoFile}]
    BY <1>2 DEF FirstFree, CoverInv, BitmapInv, BitmapExact, FdTypeOK
  <2>2. EntriesOf(f)' = IF f = g THEN EntriesOf(f) + 1 ELSE EntriesOf(f)
    BY <1>2, <2>1, EntrySet, ZenonT(30) DEF Installed
  <2>3. f_count'[f] = IF f = g THEN c[f] + 1 ELSE c[f]
    BY <1>2, <2>1 DEF AfterInstall, Fhold
  <2> QED BY <1>0, <2>2, <2>3, RefsAreNumbers
<1> QED BY <1>1, <1>2 DEF Fdalloc

LEMMA CoverInit == FdInit => CoverInv
<1> SUFFICES ASSUME FdInit PROVE RefsCovered
  BY BitmapInit DEF CoverInv
<1> SUFFICES ASSUME NEW f \in File PROVE Refs(f) = 0 /\ f_count[f] = 0
  BY DEF RefsCovered
<1>1. Places(Fd, files, f) = {} /\ Places(Task, hold, f) = {}
  BY FdAssumption DEF FdInit, Places
<1>2. EntriesOf(f) = 0 /\ Holders(f) = 0
  BY <1>1, FS_EmptySet DEF EntriesOf, Holders
<1> QED BY <1>2, RefsAreNumbers DEF FdInit

LEMMA CoverStep ==
  ASSUME "dup3" \notin Calls
  PROVE  CoverInv /\ [FdNext]_fdVars => CoverInv'
<1> SUFFICES ASSUME CoverInv, [FdNext]_fdVars PROVE RefsCovered'
  BY BitmapStep DEF CoverInv
<1> USE FdAssumption
<1>0. /\ files \in [Fd -> File \cup {NoFile}] /\ hold \in [Task -> File \cup {NoFile}]
      /\ f_count \in [File -> Int] /\ reserved \in [Task -> Fd \cup {NoFd}]
      /\ \A f \in File : Refs(f) <= f_count[f]
  BY DEF CoverInv, BitmapInv, FdTypeOK, RefsCovered
<1>1. ASSUME NEW t \in Task, NEW f \in File, Open(t, f) PROVE RefsCovered'
  BY <1>0, <1>1, FdallocCovers DEF Open
<1>2. ASSUME NEW t \in Task, NEW g \in File, Install(t, g) PROVE RefsCovered'
  <2> SUFFICES ASSUME NEW f \in File PROVE Refs(f)' <= f_count'[f]
    BY DEF RefsCovered
  <2>1. reserved[t] \in Fd /\ files[reserved[t]] = NoFile
    BY <1>0, <1>2 DEF Install, CoverInv, BitmapInv, BitmapExact
  <2>2. EntriesOf(f)' = IF f = g THEN EntriesOf(f) + 1 ELSE EntriesOf(f)
    BY <1>0, <1>2, <2>1, EntrySet, ZenonT(30) DEF Install, Installed
  <2>3. Holders(f)' = Holders(f)
    BY <1>2 DEF Install, Holders
  <2>4. f_count'[f] = IF f = g THEN f_count[f] + 1 ELSE f_count[f]
    BY <1>0, <1>2, <2>1, SMTT(30) DEF Install, AfterInstall, Fhold
  <2>5. /\ EntriesOf(f) \in Nat /\ Holders(f) \in Nat /\ f_count[f] \in Int
        /\ EntriesOf(f) + Holders(f) <= f_count[f] /\ Refs(f)' = EntriesOf(f)' + Holders(f)'
    BY <1>0, RefsAreNumbers, SMTT(30)
  <2> QED BY ONLY <2>2, <2>3, <2>4, <2>5
<1>3. ASSUME NEW t \in Task, NEW d \in Fd, Get(t, d) PROVE RefsCovered'
  <2> SUFFICES ASSUME NEW f \in File PROVE Refs(f)' <= f_count'[f]
    BY DEF RefsCovered
  <2>1. files[d] \in File /\ hold[t] = NoFile
    BY <1>0, <1>3 DEF Get, Idle
  <2>2. Holders(f)' = IF f = files[d] THEN Holders(f) + 1 ELSE Holders(f)
    BY <1>0, <1>3, <2>1, HoldSet, ZenonT(30) DEF Get
  <2>3. EntriesOf(f)' = EntriesOf(f)
    BY <1>3 DEF Get, EntriesOf
  <2>4. f_count'[f] = IF f = files[d] THEN f_count[f] + 1 ELSE f_count[f]
    BY <1>0, <1>3, <2>1, SMTT(30) DEF Get, Fhold
  <2>5. /\ EntriesOf(f) \in Nat /\ Holders(f) \in Nat /\ f_count[f] \in Int
        /\ EntriesOf(f) + Holders(f) <= f_count[f] /\ Refs(f)' = EntriesOf(f)' + Holders(f)'
    BY <1>0, RefsAreNumbers, SMTT(30)
  <2> QED BY ONLY <2>2, <2>3, <2>4, <2>5
<1>5. ASSUME NEW t \in Task, NEW d \in Fd, Close(t, d) PROVE RefsCovered'
  <2> SUFFICES ASSUME NEW f \in File PROVE Refs(f)' <= f_count'[f]
    BY DEF RefsCovered
  <2>1. files[d] \in File
    BY <1>0, <1>5 DEF Close
  <2>2. EntriesOf(f)' = IF f = files[d] THEN EntriesOf(f) - 1 ELSE EntriesOf(f)
    BY <1>0, <1>5, EntryCleared, ZenonT(30) DEF Close, Installed
  <2>3. Holders(f)' = Holders(f)
    BY <1>5 DEF Close, Holders
  <2>4. f_count'[f] = IF f = files[d] THEN f_count[f] - 1 ELSE f_count[f]
    BY <1>0, <1>5, <2>1, SMTT(30) DEF Close, Fdrop
  <2>5. /\ EntriesOf(f) \in Nat /\ Holders(f) \in Nat /\ f_count[f] \in Int
        /\ EntriesOf(f) + Holders(f) <= f_count[f] /\ Refs(f)' = EntriesOf(f)' + Holders(f)'
    BY <1>0, RefsAreNumbers
  <2> QED BY ONLY <2>2, <2>3, <2>4, <2>5, SMTT(30)
<1>7. ASSUME NEW t \in Task, NEW d \in Fd, NEW b \in BOOLEAN, Dup(t, d, b)
      PROVE  RefsCovered'
  <2> DEFINE c == IF b /\ Full THEN Fhold(f_count, files[d]) ELSE f_count
  <2>1. files[d] \in File
    BY <1>0, <1>7 DEF Dup
  <2>2. c \in [File -> Int] /\ \A f \in File : f_count[f] <= c[f]
    BY <1>0, <2>1 DEF Fhold
  <2>3. Fdalloc(c, files[d]) /\ UNCHANGED hold
    BY <1>7, SMTT(30) DEF Dup
  <2> HIDE DEF c
  <2> QED BY <2>1, <2>2, <2>3, FdallocCovers, ZenonT(30)
<1>9. ASSUME NEW t \in Task, Put(t) PROVE RefsCovered'
  <2> SUFFICES ASSUME NEW f \in File PROVE Refs(f)' <= f_count'[f]
    BY DEF RefsCovered
  <2>1. hold[t] \in File
    BY <1>0, <1>9 DEF Put
  <2>2. Holders(f)' = IF f = hold[t] THEN Holders(f) - 1 ELSE Holders(f)
    BY <1>0, <1>9, HoldCleared, ZenonT(30) DEF Put
  <2>3. EntriesOf(f)' = EntriesOf(f)
    BY <1>9 DEF Put, EntriesOf
  <2>4. f_count'[f] = IF f = hold[t] THEN f_count[f] - 1 ELSE f_count[f]
    BY <1>0, <1>9, <2>1, SMTT(30) DEF Put, Fdrop
  <2>5. /\ EntriesOf(f) \in Nat /\ Holders(f) \in Nat /\ f_count[f] \in Int
        /\ EntriesOf(f) + Holders(f) <= f_count[f] /\ Refs(f)' = EntriesOf(f)' + Holders(f)'
    BY <1>0, RefsAreNumbers
  <2> QED BY ONLY <2>2, <2>3, <2>4, <2>5
<1>10. CASE UNCHANGED <<files, hold, f_count>>
  BY <1>0, <1>10, SMTT(30) DEF RefsCovered, Refs
<1>11. ASSUME NEW t \in Task, NEW d \in Fd,
              GetNull(t, d) \/ Reserve(t, d) \/ Cancel(t) \/ PipeFails(t)
       PROVE  UNCHANGED <<files, hold, f_count>>
  BY <1>11, SMTT(30) DEF GetNull, Reserve, Cancel, PipeFails
<1>12. ASSUME NEW t \in Task, NEW d \in Fd, NEW e \in Fd PROVE ~Dup3(t, d, e)
  BY DEF Dup3
<1>13. 0 \in Fd
  BY DEF Fd
<1> QED
  BY <1>1, <1>2, <1>3, <1>5, <1>7, <1>9, <1>10, <1>11, <1>12, <1>13, ZenonT(30) DEF FdNext, fdVars

\* Without dup3, fhold and fdrop never let a file go while a descriptor or a call in
\* progress refers to it, for any number of threads, files and descriptors.
THEOREM FilesStayReferenced ==
  ASSUME "dup3" \notin Calls
  PROVE  FdSpec => []RefsCovered
<1>1. CoverInv => RefsCovered
  BY DEF CoverInv
<1> QED BY CoverInit, CoverStep, <1>1, PTL DEF FdSpec

-----------------------------------------------------------------------------
(* Grants.                                                                 *)

LEMMA FreeFinite ==
  ASSUME owned \subseteq Gref
  PROVE  /\ IsFiniteSet(Unowned) /\ Cardinality(Unowned) \in 0 .. Entries - Reserved
         /\ Reserved \in Nat \ {0} /\ Entries \in Nat /\ Reserved < Entries /\ 0 \notin Gref
         /\ Gref \subseteq 0 .. Entries - 1
<1>1. Reserved \in Nat \ {0} /\ Entries \in Nat /\ Reserved < Entries
  BY GnttabAssumption
<1>2. IsFiniteSet(Gref) /\ Cardinality(Gref) = Entries - Reserved
  BY <1>1, FS_Interval DEF Gref
<1>3. Unowned \subseteq Gref
  BY DEF Unowned
<1>4. IsFiniteSet(Unowned) /\ Cardinality(Unowned) <= Cardinality(Gref)
  BY <1>2, <1>3, FS_Subset
<1>5. Cardinality(Unowned) \in Nat
  BY <1>4, FS_CardinalityType
<1>6. 0 \notin Gref /\ Gref \subseteq 0 .. Entries - 1
  BY <1>1 DEF Gref
<1> QED BY <1>1, <1>2, <1>4, <1>5, <1>6

\* Of the threads at most one is anywhere but idle.
LEMMA Inside ==
  ASSUME NEW p, NEW t \in Granter, \A o \in Granter \ {t} : p[o] = "idle",
         NEW w, w # "idle"
  PROVE  Cardinality({o \in Granter : p[o] = w}) = IF p[t] = w THEN 1 ELSE 0
<1>1. CASE p[t] = w
  <2>1. {o \in Granter : p[o] = w} = {t}
    BY <1>1
  <2> QED BY <1>1, <2>1, FS_Singleton
<1>2. CASE p[t] # w
  <2>1. {o \in Granter : p[o] = w} = {}
    BY <1>2
  <2> QED BY <1>2, <2>1, FS_EmptySet
<1> QED BY <1>1, <1>2

LEMMA NobodyInside ==
  ASSUME NEW p, \A o \in Granter : p[o] = "idle", NEW w, w # "idle"
  PROVE  Cardinality({o \in Granter : p[o] = w}) = 0
<1>1. {o \in Granter : p[o] = w} = {}
  OBVIOUS
<1> QED BY <1>1, FS_EmptySet

\* get_free_entry takes the first entry off the list: the others stay linked, ...
LEMMA PopKeeps ==
  ASSUME GntTypeOK, Linked, NEW g \in Gref, g = gref_list[0],
         gref_list' = [gref_list EXCEPT ![0] = gref_list[g]], owned' = owned \cup {g}
  PROVE  /\ g \in Unowned /\ Linked' /\ Cardinality(Unowned') = Cardinality(Unowned) - 1
         /\ gref_list' \in [0 .. Entries - 1 -> {0} \cup Gref] /\ owned' \subseteq Gref
<1> DEFINE n == Cardinality(Unowned)
<1>0. /\ IsFiniteSet(Unowned) /\ n \in Nat /\ Reserved \in Nat \ {0} /\ Entries \in Nat
      /\ Reserved < Entries /\ 0 \notin Gref /\ Gref \subseteq 0 .. Entries - 1
      /\ gref_list \in [0 .. Entries - 1 -> {0} \cup Gref] /\ owned \subseteq Gref
  BY FreeFinite DEF GntTypeOK
<1>1. PICK depth \in [{0} \cup Unowned -> 0 .. n] :
        /\ depth[0] = 0 /\ \A x, h \in Unowned : depth[x] = depth[h] => x = h
        /\ gref_list[0] \in DOMAIN depth /\ depth[gref_list[0]] = n
        /\ \A x \in Unowned : gref_list[x] \in DOMAIN depth /\ depth[x] = depth[gref_list[x]] + 1
  BY DEF Linked
<1>2. g \in Unowned /\ depth[g] = n
  BY <1>0, <1>1
<1>3. Unowned' = Unowned \ {g}
  BY DEF Unowned, Gref
<1>4. Cardinality(Unowned') = n - 1
  BY <1>0, <1>2, <1>3, FS_RemoveElement, Zenon
<1>5. 0 \in 0 .. Entries - 1 /\ g \in 0 .. Entries - 1 /\ g # 0
  BY <1>0
<1>6. gref_list' \in [0 .. Entries - 1 -> {0} \cup Gref]
  BY <1>0, <1>5
<1>7. gref_list'[0] = gref_list[g] /\ \A x \in Unowned : gref_list'[x] = gref_list[x]
  <2>1. Unowned \subseteq Gref
    BY DEF Unowned
  <2> QED BY <1>0, <1>5, <2>1
<1> HIDE DEF n
<1> DEFINE low == [x \in {0} \cup Unowned' |-> depth[x]]
<1>8. \A x \in Unowned' : x \in Unowned /\ depth[x] \in 0 .. n - 1 /\ x # g
  BY <1>0, <1>1, <1>2, <1>3
<1>9. low \in [{0} \cup Unowned' -> 0 .. n - 1]
  <2>0. gref_list[g] \in {0} \cup Unowned /\ n = depth[gref_list[g]] + 1
    BY <1>1, <1>2
  <2>1. n # 0
    BY <1>0, <1>1, <2>0
  <2>2. depth[0] \in 0 .. n - 1
    BY <1>0, <1>1, <2>1
  <2> QED BY <1>8, <2>2
<1>10. gref_list[g] \in {0} \cup Unowned' /\ depth[gref_list[g]] = n - 1
  <2>1. gref_list[g] \in {0} \cup Unowned /\ n = depth[gref_list[g]] + 1
    BY <1>1, <1>2
  <2>2. depth[gref_list[g]] \in 0 .. n
    BY <1>1, <2>1
  <2>3. depth[gref_list[g]] = n - 1 /\ gref_list[g] # g
    BY <1>0, <1>2, <2>1, <2>2
  <2> QED BY <1>3, <2>1, <2>3
<1>11. \A x \in Unowned' : gref_list[x] \in {0} \cup Unowned' /\ depth[x] = depth[gref_list[x]] + 1
  <2> SUFFICES ASSUME NEW x \in Unowned'
               PROVE  gref_list[x] \in {0} \cup Unowned' /\ depth[x] = depth[gref_list[x]] + 1
    OBVIOUS
  <2>1. gref_list[x] \in {0} \cup Unowned /\ depth[x] = depth[gref_list[x]] + 1
    BY <1>1, <1>8
  <2>2. depth[x] \in 0 .. n - 1
    BY <1>8
  <2>3. gref_list[x] # g
    BY <1>0, <1>2, <2>1, <2>2
  <2> QED BY <1>3, <2>1, <2>3
<1>12. /\ low[0] = 0 /\ \A x, h \in Unowned' : low[x] = low[h] => x = h
       /\ gref_list'[0] \in DOMAIN low /\ low[gref_list'[0]] = n - 1
       /\ \A x \in Unowned' : gref_list'[x] \in DOMAIN low /\ low[x] = low[gref_list'[x]] + 1
  BY <1>1, <1>7, <1>8, <1>10, <1>11
<1> HIDE DEF low
<1>13. Linked'
  BY <1>4, <1>9, <1>12 DEF Linked
<1>14. owned' \subseteq Gref
  BY <1>0, Zenon
<1> QED BY <1>2, <1>4, <1>6, <1>13, <1>14 DEF n

\* ... and put_free_entry puts one in front of them.
LEMMA PushKeeps ==
  ASSUME GntTypeOK, Linked, NEW g \in owned, gref_list' = Pushed(g), owned' = owned \ {g}
  PROVE  /\ Linked' /\ Cardinality(Unowned') = Cardinality(Unowned) + 1
         /\ gref_list' \in [0 .. Entries - 1 -> {0} \cup Gref] /\ owned' \subseteq Gref
         /\ Unowned' = Unowned \cup {g}
<1> DEFINE n == Cardinality(Unowned)
<1>0. /\ IsFiniteSet(Unowned) /\ n \in Nat /\ Reserved \in Nat \ {0} /\ Entries \in Nat
      /\ Reserved < Entries /\ 0 \notin Gref /\ Gref \subseteq 0 .. Entries - 1
      /\ gref_list \in [0 .. Entries - 1 -> {0} \cup Gref] /\ owned \subseteq Gref
  BY FreeFinite DEF GntTypeOK
<1>1. PICK depth \in [{0} \cup Unowned -> 0 .. n] :
        /\ depth[0] = 0 /\ \A x, h \in Unowned : depth[x] = depth[h] => x = h
        /\ gref_list[0] \in DOMAIN depth /\ depth[gref_list[0]] = n
        /\ \A x \in Unowned : gref_list[x] \in DOMAIN depth /\ depth[x] = depth[gref_list[x]] + 1
  BY DEF Linked
<1>2. g \in Gref /\ g \notin Unowned /\ g # 0 /\ g \in 0 .. Entries - 1 /\ 0 \in 0 .. Entries - 1
      /\ Unowned \subseteq Gref
  BY <1>0 DEF Unowned
<1>3. Unowned' = Unowned \cup {g}
  BY <1>2 DEF Unowned, Gref
<1>4. Cardinality(Unowned') = n + 1
  BY <1>0, <1>2, <1>3, FS_AddElement, Zenon
<1>5. gref_list' \in [0 .. Entries - 1 -> {0} \cup Gref]
  BY <1>0, <1>2 DEF Pushed
<1>6. gref_list'[0] = g /\ gref_list'[g] = gref_list[0] /\ \A x \in Unowned : gref_list'[x] = gref_list[x]
  BY <1>0, <1>2 DEF Pushed
<1> HIDE DEF n
<1> DEFINE high == [x \in {0} \cup Unowned' |-> IF x = g THEN n + 1 ELSE depth[x]]
<1>7. \A x \in {0} \cup Unowned : high[x] = depth[x] /\ high[x] \in 0 .. n /\ x # g
  BY <1>1, <1>2, <1>3
<1>8. high[g] = n + 1
  BY <1>3
<1>9. high \in [{0} \cup Unowned' -> 0 .. n + 1]
  <2>1. \A x \in {0} \cup Unowned' : high[x] \in 0 .. n + 1
    BY <1>0, <1>3, <1>7, <1>8
  <2> QED BY <2>1, Zenon
<1> HIDE DEF high
<1>10. \A x, h \in Unowned' : high[x] = high[h] => x = h
  <2>1. \A x \in Unowned : high[x] # high[g]
    <3> SUFFICES ASSUME NEW x \in Unowned PROVE high[x] # high[g]
      OBVIOUS
    <3>1. high[x] \in 0 .. n /\ n \in Nat
      BY <1>0, <1>7, Zenon
    <3> QED BY <1>8, <3>1
  <2>2. \A x, h \in Unowned : high[x] = high[h] => x = h
    BY <1>1, <1>7, Zenon
  <2> QED BY <1>3, <2>1, <2>2
<1>11. \A x \in Unowned : gref_list[x] \in {0} \cup Unowned /\ high[x] = high[gref_list[x]] + 1
  BY <1>1, <1>7, Zenon
<1>12. gref_list[0] \in {0} \cup Unowned /\ high[gref_list[0]] = n
  BY <1>1, <1>7, Zenon
<1>13. \A x \in Unowned' : gref_list'[x] \in {0} \cup Unowned' /\ high[x] = high[gref_list'[x]] + 1
  <2>1. gref_list'[g] \in {0} \cup Unowned' /\ high[g] = high[gref_list'[g]] + 1
    BY <1>3, <1>6, <1>8, <1>12
  <2>2. \A x \in Unowned : gref_list'[x] \in {0} \cup Unowned' /\ high[x] = high[gref_list'[x]] + 1
    BY <1>3, <1>6, <1>11
  <2> QED BY <1>3, <2>1, <2>2
<1>14. /\ high[0] = 0 /\ gref_list'[0] \in {0} \cup Unowned' /\ high[gref_list'[0]] = n + 1
       /\ DOMAIN high = {0} \cup Unowned'
  BY <1>1, <1>3, <1>6, <1>7, <1>8, <1>9
<1>15. Linked'
  BY <1>4, <1>9, <1>10, <1>13, <1>14 DEF Linked
<1> QED BY <1>0, <1>3, <1>4, <1>5, <1>15 DEF n

-----------------------------------------------------------------------------
LEMMA EntriesInit == GntInit => EntriesInv
<1> SUFFICES ASSUME GntInit PROVE EntriesInv
  OBVIOUS
<1>0. /\ Reserved \in Nat \ {0} /\ Entries \in Nat /\ Reserved < Entries
      /\ 0 \notin Gref /\ Gref \subseteq 0 .. Entries - 1
      /\ owned = {} /\ Unowned = Gref
  BY FreeFinite DEF GntInit, Unowned
<1>1. Cardinality(Unowned) = Entries - Reserved
  BY <1>0, FS_Interval DEF Gref
<1>2. gref_list \in [0 .. Entries - 1 -> {0} \cup Gref]
  <2>1. gref_list = [g \in 0..Entries-1 |-> IF g = 0 THEN Entries - 1
                                            ELSE IF g > Reserved THEN g - 1 ELSE 0]
    BY DEF GntInit
  <2>2. \A g \in 0 .. Entries - 1 : gref_list[g] \in {0} \cup Gref
    BY <1>0, <2>1 DEF Gref
  <2> QED BY <2>1, <2>2
<1>3. GntTypeOK
  BY <1>0, <1>2 DEF GntTypeOK, GntInit, NoArg, Flag
<1>4. \A w : w # "idle" => InCall(w) = 0
  <2> SUFFICES ASSUME NEW w, w # "idle" PROVE InCall(w) = 0
    OBVIOUS
  <2>1. \A o \in Granter : gpc[o] = "idle"
    BY DEF GntInit
  <2> QED BY <2>1, NobodyInside DEF InCall
<1>5. InCall("get") = 0 /\ InCall("up") = 0
  BY <1>4
<1>6. Cardinality(Unowned) = sem + InCall("get") + InCall("up")
  BY <1>0, <1>1, <1>5 DEF GntInit
<1>7. Linked
  <2> DEFINE depth == [g \in {0} \cup Unowned |-> IF g = 0 THEN 0 ELSE g - Reserved + 1]
             n == Entries - Reserved
  <2>1. \A g \in Unowned : g \in Reserved .. Entries - 1
    BY <1>0 DEF Gref
  <2>2. depth \in [{0} \cup Unowned -> 0 .. n]
    BY <1>0, <2>1
  <2>3. depth[0] = 0 /\ \A g \in Unowned : depth[g] = g - Reserved + 1
    BY <1>0, <2>1
  <2>4. \A g \in Unowned : gref_list[g] = IF g > Reserved THEN g - 1 ELSE 0
    BY <1>0, <2>1 DEF GntInit
  <2>5. gref_list[0] = Entries - 1 /\ Entries - 1 \in Unowned
    BY <1>0 DEF GntInit, Gref
  <2> HIDE DEF depth
  <2>6. \A g, h \in Unowned : depth[g] = depth[h] => g = h
    BY <1>0, <2>1, <2>3
  <2>7. \A g \in Unowned : gref_list[g] \in {0} \cup Unowned /\ depth[g] = depth[gref_list[g]] + 1
    <3> SUFFICES ASSUME NEW g \in Unowned
                 PROVE  gref_list[g] \in {0} \cup Unowned /\ depth[g] = depth[gref_list[g]] + 1
      OBVIOUS
    <3>1. CASE g > Reserved
      <4>1. gref_list[g] = g - 1 /\ g - 1 \in Unowned
        BY <1>0, <2>1, <2>4, <3>1 DEF Gref
      <4> QED BY <1>0, <2>1, <2>3, <4>1
    <3>2. CASE ~(g > Reserved)
      <4>1. gref_list[g] = 0 /\ g = Reserved
        BY <1>0, <2>1, <2>4, <3>2
      <4> QED BY <1>0, <2>3, <4>1
    <3> QED BY <3>1, <3>2
  <2>8. gref_list[0] \in {0} \cup Unowned /\ depth[gref_list[0]] = n
    BY <1>0, <2>3, <2>5
  <2>9. DOMAIN depth = {0} \cup Unowned
    BY <2>2
  <2> HIDE DEF n
  <2>10. n = Cardinality(Unowned)
    BY <1>1 DEF n
  <2> QED BY <2>2, <2>3, <2>6, <2>7, <2>8, <2>9, <2>10 DEF Linked
<1> QED
  BY <1>3, <1>6, <1>7 DEF EntriesInv, ListExact, OneInside, Holding, GntInit

LEMMA InCallType ==
  ASSUME OneInside, NEW w, w # "idle" PROVE InCall(w) \in 0 .. 1
<1>1. CASE \E t \in Granter : gpc[t] # "idle"
  <2>1. PICK t \in Granter : gpc[t] # "idle"
    BY <1>1
  <2>2. \A o \in Granter \ {t} : gpc[o] = "idle"
    BY <2>1 DEF OneInside
  <2>3. InCall(w) = IF gpc[t] = w THEN 1 ELSE 0
    BY <2>2, Inside, Zenon DEF InCall
  <2> QED BY <2>3
<1>2. CASE ~ \E t \in Granter : gpc[t] # "idle"
  <2>1. InCall(w) = 0
    BY <1>2, NobodyInside DEF InCall
  <2> QED BY <2>1
<1> QED BY <1>1, <1>2

\* A step of thread t: the others are outside, before and after.
LEMMA ThreadCounts ==
  ASSUME NEW t \in Granter, \A o \in Granter \ {t} : gpc[o] = "idle",
         gpc \in [Granter -> {"idle", "get", "grant", "end", "update", "transfer", "put", "up"}],
         NEW where, Go(t, where), NEW w \in {"get", "up"}
  PROVE  /\ InCall(w) = IF gpc[t] = w THEN 1 ELSE 0
         /\ InCall(w)' = IF where = w THEN 1 ELSE 0
<1>1. InCall(w) = IF gpc[t] = w THEN 1 ELSE 0
  <2>1. w # "idle"
    OBVIOUS
  <2>2. Cardinality({o \in Granter : gpc[o] = w}) = IF gpc[t] = w THEN 1 ELSE 0
    BY <2>1, Inside
  <2> QED BY <2>2 DEF InCall
<1>2. {o \in Granter : gpc'[o] = w} = IF where = w THEN {t} ELSE {}
  BY DEF Go
<1>3. CASE where = w
  <2>1. Cardinality({o \in Granter : gpc'[o] = w}) = 1
    BY <1>2, <1>3, FS_Singleton, Zenon
  <2> QED BY <1>1, <1>3, <2>1 DEF InCall
<1>4. CASE where # w
  <2>1. Cardinality({o \in Granter : gpc'[o] = w}) = 0
    BY <1>2, <1>4, FS_EmptySet
  <2> QED BY <1>1, <1>4, <2>1 DEF InCall
<1> QED BY <1>3, <1>4

\* A step of thread t that leaves the list alone.
LEMMA SameList ==
  ASSUME ListExact, UNCHANGED <<gref_list, owned>>,
         sem + InCall("get") + InCall("up") = sem' + InCall("get")' + InCall("up")'
  PROVE  ListExact'
<1>1. Unowned' = Unowned
  BY DEF Unowned, Gref
<1>2. Linked'
  BY <1>1 DEF ListExact, Linked
<1> QED BY <1>1, <1>2 DEF ListExact

LEMMA EntriesStep == EntriesInv /\ [GntNext]_gntVars => EntriesInv'
<1> SUFFICES ASSUME EntriesInv, [GntNext]_gntVars PROVE EntriesInv'
  OBVIOUS
<1> DEFINE Place == {"idle", "get", "grant", "end", "update", "transfer", "put", "up"}
<1>0. /\ gref_list \in [0..Entries-1 -> {0} \cup Gref] /\ sem \in 0..Entries
      /\ flags \in [Gref -> SUBSET Flag] /\ owned \subseteq Gref /\ missed \subseteq Gref
      /\ gpc \in [Granter -> Place]
      /\ arg \in [Granter -> [gref : {0} \cup Gref, flags : SUBSET Flag]]
      /\ Reserved \in Nat \ {0} /\ Entries \in Nat /\ Reserved < Entries
      /\ Cardinality(Unowned) \in 0 .. Entries - Reserved
      /\ Cardinality(Unowned) = sem + InCall("get") + InCall("up")
  BY FreeFinite DEF EntriesInv, GntTypeOK, ListExact
<1>1. \A t \in Granter : gpc[t] # "idle" => \A o \in Granter \ {t} : gpc[o] = "idle"
  BY DEF EntriesInv, OneInside
\* What a thread's step leaves to show.
<1>2. ASSUME NEW t \in Granter, NEW where \in Place, Go(t, where),
             \A o \in Granter \ {t} : gpc[o] = "idle",
             gref_list' \in [0..Entries-1 -> {0} \cup Gref], owned' \subseteq Gref,
             sem' \in Nat, flags' \in [Gref -> SUBSET Flag], missed' \subseteq Gref,
             arg' \in [Granter -> [gref : {0} \cup Gref, flags : SUBSET Flag]],
             where \in {"grant", "end", "update", "transfer", "put"} => arg'[t].gref \in owned',
             ListExact'
      PROVE  EntriesInv'
  <2>1. gpc' \in [Granter -> Place] /\ gpc'[t] = where
        /\ \A o \in Granter \ {t} : gpc'[o] = "idle"
    BY <1>0, <1>2 DEF Go
  <2>2. OneInside'
    BY <2>1 DEF OneInside
  <2>3. Holding'
    BY <1>2, <2>1 DEF Holding
  <2>4. sem' \in 0 .. Entries
    <3>1. InCall("get")' \in Nat /\ InCall("up")' \in Nat
      <4>1. \A w \in {"get", "up"} : InCall(w)' = IF where = w THEN 1 ELSE 0
        BY <1>0, <1>2, ThreadCounts, Zenon
      <4>2. \A w \in {"get", "up"} : InCall(w)' \in Nat
        BY <4>1
      <4> QED BY <4>2
    <3>2. Cardinality(Unowned)' \in 0 .. Entries - Reserved
      <4>1. Unowned' = Gref \ owned'
        BY DEF Unowned, Gref
      <4>2. IsFiniteSet(Gref) /\ Cardinality(Gref) = Entries - Reserved
        BY <1>0, FS_Interval DEF Gref
      <4>3. IsFiniteSet(Unowned') /\ Cardinality(Unowned') <= Entries - Reserved
        BY <4>1, <4>2, FS_Subset
      <4>4. Cardinality(Unowned') \in Nat
        BY <4>3, FS_CardinalityType
      <4> QED BY <1>0, <4>3, <4>4
    <3>3. Cardinality(Unowned)' = sem' + InCall("get")' + InCall("up")'
      BY <1>2 DEF ListExact
    <3> QED BY <1>0, <1>2, <3>1, <3>2, <3>3
  <2>5. Gref' = Gref
    BY DEF Gref
  <2>6. GntTypeOK'
    BY <1>2, <2>1, <2>4, <2>5 DEF GntTypeOK
  <2> QED BY <1>2, <2>2, <2>3, <2>6 DEF EntriesInv
<1>3. ASSUME NEW t \in Granter, Down(t) PROVE EntriesInv'
  <2>1. Go(t, "get") /\ gpc[t] = "idle" /\ UNCHANGED <<gref_list, flags, owned, arg, missed>>
        /\ sem' = sem - 1 /\ sem > 0 /\ \A o \in Granter \ {t} : gpc[o] = "idle"
    BY <1>3 DEF Down, Alone
  <2>2. ListExact'
    <3>1. InCall("get") = 0 /\ InCall("up") = 0 /\ InCall("get")' = 1 /\ InCall("up")' = 0
      BY <1>0, <2>1, ThreadCounts
    <3>2. sem + InCall("get") + InCall("up") = sem' + InCall("get")' + InCall("up")'
      BY <1>0, <2>1, <3>1
    <3> QED BY <2>1, <3>2, SameList DEF EntriesInv
  <2>3. sem' \in Nat
    BY <1>0, <2>1
  <2> QED BY <1>0, <1>2, <2>1, <2>2, <2>3
<1>4. ASSUME NEW t \in Granter, GetEntry(t) PROVE EntriesInv'
  <2> DEFINE g == gref_list[0]
  <2>1. Go(t, "grant") /\ gpc[t] = "get" /\ g \in Gref
        /\ gref_list' = [gref_list EXCEPT ![0] = gref_list[g]] /\ owned' = owned \cup {g}
        /\ arg' = [arg EXCEPT ![t].gref = g] /\ UNCHANGED <<sem, flags, missed>>
    BY <1>4 DEF GetEntry
  <2>2. /\ g \in Unowned /\ Linked' /\ Cardinality(Unowned') = Cardinality(Unowned) - 1
        /\ gref_list' \in [0 .. Entries - 1 -> {0} \cup Gref] /\ owned' \subseteq Gref
    BY <2>1, PopKeeps, Zenon DEF EntriesInv, ListExact
  <2>3. \A o \in Granter \ {t} : gpc[o] = "idle"
    BY <1>1, <2>1
  <2>4. ListExact'
    <3>1. InCall("get") = 1 /\ InCall("up") = 0 /\ InCall("get")' = 0 /\ InCall("up")' = 0
      BY <1>0, <2>1, <2>3, ThreadCounts
    <3>2. Cardinality(Unowned)' = sem' + InCall("get")' + InCall("up")'
      BY <1>0, <2>1, <2>2, <3>1
    <3> QED BY <2>2, <3>2 DEF ListExact
  <2>5. arg' \in [Granter -> [gref : {0} \cup Gref, flags : SUBSET Flag]] /\ arg'[t].gref = g
    BY <1>0, <2>1, Zenon
  <2> HIDE DEF g
  <2>6. sem' \in Nat
    BY <1>0, <2>1
  <2> QED BY <1>0, <1>2, <2>1, <2>2, <2>3, <2>4, <2>5, <2>6, ZenonT(30)
\* Steps of a call under way that change neither the list nor the semaphore.
<1>5. ASSUME NEW t \in Granter, NEW where \in {"idle", "grant", "end", "update", "transfer", "put"},
             Go(t, where), gpc[t] \notin {"get", "up"},
             \A o \in Granter \ {t} : gpc[o] = "idle",
             UNCHANGED <<gref_list, sem, owned>>, flags' \in [Gref -> SUBSET Flag],
             missed' \subseteq Gref,
             arg' \in [Granter -> [gref : {0} \cup Gref, flags : SUBSET Flag]],
             where # "idle" => arg'[t].gref \in owned
      PROVE  EntriesInv'
  <2>1. ListExact'
    <3>1. InCall("get") = 0 /\ InCall("up") = 0 /\ InCall("get")' = 0 /\ InCall("up")' = 0
      BY <1>0, <1>5, ThreadCounts
    <3>2. sem + InCall("get") + InCall("up") = sem' + InCall("get")' + InCall("up")'
      BY <1>5, <3>1
    <3> QED BY <1>5, <3>2, SameList DEF EntriesInv
  <2> QED BY <1>0, <1>2, <1>5, <2>1
<1>6. ASSUME NEW t \in Granter, NEW flag \in {"permit", "accept"}, Grant(t, flag) PROVE EntriesInv'
  <2>1. arg[t].gref \in Gref /\ gpc[t] = "grant" /\ \A o \in Granter \ {t} : gpc[o] = "idle"
    BY <1>0, <1>1, <1>6 DEF Grant, EntriesInv, Holding
  <2>2. flags' \in [Gref -> SUBSET Flag] /\ missed' \subseteq Gref
        /\ arg' \in [Granter -> [gref : {0} \cup Gref, flags : SUBSET Flag]]
    BY <1>0, <1>6, <2>1 DEF Grant, NoArg, Flag
  <2> QED BY <1>5, <1>6, <2>1, <2>2 DEF Grant
<1>7. ASSUME NEW t \in Granter, NEW g \in Gref, NEW call \in {"end", "update", "transfer"},
             BeginEnd(t, g, call)
      PROVE  EntriesInv'
  <2>1. gpc[t] = "idle" /\ \A o \in Granter \ {t} : gpc[o] = "idle"
    BY <1>7 DEF BeginEnd, Alone
  <2>2. arg' \in [Granter -> [gref : {0} \cup Gref, flags : SUBSET Flag]] /\ arg'[t].gref \in owned
    BY <1>0, <1>7 DEF BeginEnd
  <2> QED BY <1>0, <1>5, <1>7, <2>1, <2>2 DEF BeginEnd
<1>8. ASSUME NEW t \in Granter, ResetFlags(t) PROVE EntriesInv'
  <2>1. arg[t].gref \in owned /\ gpc[t] \in {"end", "update"}
        /\ \A o \in Granter \ {t} : gpc[o] = "idle"
    BY <1>0, <1>1, <1>8 DEF ResetFlags, EntriesInv, Holding
  <2>2. flags' \in [Gref -> SUBSET Flag] /\ missed' \subseteq Gref
    BY <1>0, <1>8, <2>1 DEF ResetFlags, Exchange
  <2>3. PICK where \in {"put", "grant"} : Go(t, where)
    BY <1>8 DEF ResetFlags
  <2> QED BY <1>0, <1>5, <1>8, <2>1, <2>2, <2>3 DEF ResetFlags
<1>9. ASSUME NEW t \in Granter, EndTransfer(t) PROVE EntriesInv'
  <2>1. arg[t].gref \in owned /\ gpc[t] = "transfer"
        /\ \A o \in Granter \ {t} : gpc[o] = "idle"
    BY <1>0, <1>1, <1>9 DEF EndTransfer, EntriesInv, Holding
  <2>2. flags' \in [Gref -> SUBSET Flag] /\ missed' \subseteq Gref
    BY <1>0, <1>9, <2>1 DEF EndTransfer, Exchange
  <2> QED BY <1>0, <1>5, <1>9, <2>1, <2>2 DEF EndTransfer
<1>10. ASSUME NEW t \in Granter, PutEntry(t) PROVE EntriesInv'
  <2> DEFINE g == arg[t].gref
  <2>1. Go(t, "up") /\ gpc[t] = "put" /\ g \in owned
        /\ gref_list' = Pushed(g) /\ owned' = owned \ {g} /\ UNCHANGED <<sem, flags, arg, missed>>
    BY <1>10 DEF PutEntry, EntriesInv, Holding
  <2> HIDE DEF g
  <2>2. /\ Linked' /\ Cardinality(Unowned') = Cardinality(Unowned) + 1
        /\ gref_list' \in [0 .. Entries - 1 -> {0} \cup Gref] /\ owned' \subseteq Gref
    BY <2>1, PushKeeps DEF EntriesInv, ListExact
  <2>3. \A o \in Granter \ {t} : gpc[o] = "idle"
    BY <1>1, <2>1
  <2>4. ListExact'
    <3>1. InCall("get") = 0 /\ InCall("up") = 0 /\ InCall("get")' = 0 /\ InCall("up")' = 1
      BY <1>0, <2>1, <2>3, ThreadCounts
    <3>2. Cardinality(Unowned)' = sem' + InCall("get")' + InCall("up")'
      BY <1>0, <2>1, <2>2, <3>1
    <3> QED BY <2>2, <3>2 DEF ListExact
  <2>5. sem' \in Nat
    BY <1>0, <2>1
  <2> QED BY <1>0, <1>2, <2>1, <2>2, <2>3, <2>4, <2>5, ZenonT(30)
<1>11. ASSUME NEW t \in Granter, Up(t) PROVE EntriesInv'
  <2>1. Go(t, "idle") /\ gpc[t] = "up" /\ sem' = sem + 1
        /\ UNCHANGED <<gref_list, flags, owned, missed>> /\ \A o \in Granter \ {t} : gpc[o] = "idle"
    BY <1>1, <1>11 DEF Up
  <2>2. ListExact'
    <3>1. InCall("get") = 0 /\ InCall("up") = 1 /\ InCall("get")' = 0 /\ InCall("up")' = 0
      BY <1>0, <2>1, ThreadCounts
    <3>2. sem + InCall("get") + InCall("up") = sem' + InCall("get")' + InCall("up")'
      BY <1>0, <2>1, <3>1
    <3> QED BY <2>1, <3>2, SameList DEF EntriesInv
  <2>3. arg' \in [Granter -> [gref : {0} \cup Gref, flags : SUBSET Flag]]
    BY <1>0, <1>11 DEF Up, NoArg
  <2>4. sem' \in Nat
    BY <1>0, <2>1
  <2> QED BY <1>0, <1>2, <2>1, <2>2, <2>3, <2>4
\* Handlers and the other domain leave the threads where they are.
<1>12. ASSUME NEW g \in Gref, HandlerEnd(g) PROVE EntriesInv'
  <2>1. /\ g \in owned /\ \A t \in Granter : arg[t].gref # g
        /\ gref_list' = Pushed(g) /\ owned' = owned \ {g}
        /\ sem' = sem + 1 /\ UNCHANGED <<gpc, arg>>
    BY <1>12 DEF HandlerEnd
  <2>2. /\ Linked' /\ Cardinality(Unowned') = Cardinality(Unowned) + 1
        /\ gref_list' \in [0 .. Entries - 1 -> {0} \cup Gref] /\ owned' \subseteq Gref
    BY <2>1, PushKeeps, Zenon DEF EntriesInv, ListExact
  <2>3. InCall("get")' = InCall("get") /\ InCall("up")' = InCall("up")
    BY <2>1 DEF InCall
  <2>4. InCall("get") \in Nat /\ InCall("up") \in Nat
    BY InCallType DEF EntriesInv
  <2>5. ListExact'
    BY <1>0, <2>1, <2>2, <2>3, <2>4 DEF ListExact
  <2>6. sem' \in 0 .. Entries
    <3>1. Cardinality(Unowned') <= Entries - Reserved
      <4>1. Unowned' = Gref \ owned'
        BY DEF Unowned, Gref
      <4>2. IsFiniteSet(Gref) /\ Cardinality(Gref) = Entries - Reserved
        BY <1>0, FS_Interval DEF Gref
      <4> QED BY <4>1, <4>2, FS_Subset
    <3> QED BY <1>0, <2>1, <2>2, <2>4, <3>1
  <2>7. Gref' = Gref
    BY DEF Gref
  <2>8. GntTypeOK'
    <3>1. flags' \in [Gref -> SUBSET Flag] /\ missed' \subseteq Gref
      BY <1>0, <1>12 DEF HandlerEnd, Flag
    <3> QED BY <1>0, <2>1, <2>2, <2>6, <2>7, <3>1, Zenon DEF GntTypeOK
  <2>9. OneInside' /\ Holding'
    BY <2>1 DEF EntriesInv, OneInside, Holding
  <2> QED BY <2>5, <2>8, <2>9 DEF EntriesInv
<1>13. ASSUME flags' \in [Gref -> SUBSET Flag], UNCHANGED <<gref_list, sem, owned, gpc, arg, missed>>
       PROVE  EntriesInv'
  <2>1. InCall("get")' = InCall("get") /\ InCall("up")' = InCall("up")
    BY <1>13 DEF InCall
  <2>2. ListExact'
    BY <1>13, <2>1, SameList DEF EntriesInv
  <2>3. GntTypeOK'
    BY <1>13 DEF EntriesInv, GntTypeOK, Gref
  <2>4. OneInside' /\ Holding'
    BY <1>13 DEF EntriesInv, OneInside, Holding
  <2> QED BY <2>2, <2>3, <2>4 DEF EntriesInv
<1>14. ASSUME NEW g \in Gref, Peer(g) \/ PeerCompletes(g) PROVE EntriesInv'
  <2>1. flags' \in [Gref -> SUBSET Flag]
    BY <1>0, <1>14 DEF Peer, PeerCompletes, Flag
  <2>2. UNCHANGED <<gref_list, sem, owned, gpc, arg, missed>>
    BY <1>14 DEF Peer, PeerCompletes
  <2> QED BY <1>13, <2>1, <2>2
<1>15. CASE UNCHANGED gntVars
  BY <1>0, <1>13, <1>15 DEF gntVars
<1> QED
  BY <1>3, <1>4, <1>6, <1>7, <1>8, <1>9, <1>10, <1>11, <1>12, <1>14, <1>15 DEF GntNext

\* With a claim on an entry there is one: the assertion of get_free_entry.
LEMMA ClaimFinds == EntriesInv => GetAssert
<1> SUFFICES ASSUME EntriesInv, NEW t \in Granter, gpc[t] = "get" PROVE gref_list[0] \in Gref
  BY DEF GetAssert
<1>1. \A o \in Granter \ {t} : gpc[o] = "idle"
  BY DEF EntriesInv, OneInside
<1>2. InCall("get") = 1
  BY <1>1, Inside DEF InCall
<1>3. InCall("up") \in Nat /\ sem \in Nat
  BY InCallType DEF EntriesInv, GntTypeOK
<1>4. Cardinality(Unowned) = sem + 1 + InCall("up")
  BY <1>2 DEF EntriesInv, ListExact
<1>5. Cardinality(Unowned) # 0
  BY <1>3, <1>4
<1>6. gref_list[0] \in {0} \cup Unowned /\ gref_list[0] # 0
  BY <1>5 DEF EntriesInv, ListExact, Linked
<1> QED BY <1>6 DEF Unowned

-----------------------------------------------------------------------------
\* What the other domain and the hypervisor do to an entry leaves a quiet one quiet.
LEMMA PeerKeeps ==
  ASSUME NEW f \in SUBSET Flag, Match(f), NEW x,
         \/ "permit" \in f /\ x = f \cup {"reading"}
         \/ "reading" \in f /\ x = f \ {"reading"}
         \/ "accept" \in f /\ x = f \cup {"committed"}
         \/ "committed" \in f /\ x = f \cup {"completed"}
  PROVE  Match(x) /\ (Quiet(f) => Quiet(x))
<1>1. CASE "permit" \in f /\ x = f \cup {"reading"}
  BY <1>1 DEF Match, Quiet
<1>2. CASE "reading" \in f /\ x = f \ {"reading"}
  BY <1>2 DEF Match, Quiet, InUse
<1>3. CASE "accept" \in f /\ x = f \cup {"committed"}
  BY <1>3 DEF Match, Quiet, InUse
<1>4. CASE "committed" \in f /\ x = f \cup {"completed"}
  BY <1>4 DEF Match, Quiet, InUse
<1> QED BY <1>1, <1>2, <1>3, <1>4

FlagsInv == FlagsMatch /\ NotInUse

\* A step of thread t that leaves the flags alone and neither frees nor hands out an entry.
LEMMA FlagsFrame ==
  ASSUME FlagsInv, UNCHANGED <<flags, missed, owned>>, NEW t \in Granter,
         \A o \in Granter \ {t} : gpc'[o] = gpc[o] /\ arg'[o] = arg[o],
         gpc'[t] \notin {"put", "grant"}
  PROVE  FlagsInv'
<1>1. FlagsMatch'
  BY DEF FlagsInv, FlagsMatch, Gref
<1>2. NotInUse'
  BY DEF FlagsInv, NotInUse, Unowned, Gref
<1> QED BY <1>1, <1>2 DEF FlagsInv

LEMMA FlagsInit == GntInit => FlagsInv
BY DEF GntInit, FlagsInv, FlagsMatch, Match, NotInUse, Unowned, Quiet, InUse

LEMMA FlagsStep ==
  ASSUME EntriesInv, FlagsInv, [GntNext]_gntVars PROVE FlagsInv'
<1> DEFINE Place == {"idle", "get", "grant", "end", "update", "transfer", "put", "up"}
<1>0. /\ flags \in [Gref -> SUBSET Flag] /\ owned \subseteq Gref /\ missed \subseteq Gref
      /\ gpc \in [Granter -> Place]
      /\ arg \in [Granter -> [gref : {0} \cup Gref, flags : SUBSET Flag]]
      /\ FlagsMatch /\ NotInUse
  BY DEF EntriesInv, GntTypeOK, FlagsInv
<1>1. \A t \in Granter : gpc[t] # "idle" => \A o \in Granter \ {t} : gpc[o] = "idle"
  BY DEF EntriesInv, OneInside
<1>2. \A t \in Granter : gpc[t] \in {"grant", "end", "update", "transfer", "put"} =>
        arg[t].gref \in owned
  BY DEF EntriesInv, Holding
<1>3. Gref' = Gref /\ Unowned' = Gref \ owned'
  BY DEF Gref, Unowned
<1>4. ASSUME NEW t \in Granter, Down(t) PROVE FlagsInv'
  BY <1>0, <1>4, FlagsFrame DEF Down, Go
<1>5. ASSUME NEW t \in Granter, GetEntry(t) PROVE FlagsInv'
  <2> DEFINE g == gref_list[0]
  <2>1. /\ gpc[t] = "get" /\ g \in Gref /\ UNCHANGED <<flags, missed>>
        /\ owned' = owned \cup {g} /\ arg' = [arg EXCEPT ![t].gref = g] /\ Go(t, "grant")
    BY <1>5 DEF GetEntry
  <2>2. g \in Unowned
    BY <1>5, PopKeeps, Zenon DEF GetEntry, EntriesInv, ListExact
  <2>3. /\ arg'[t].gref = g /\ \A o \in Granter \ {t} : gpc'[o] = "idle"
        /\ g \notin missed => Quiet(flags[g])
    BY <1>0, <1>1, <2>1, <2>2 DEF Go, NotInUse
  <2> HIDE DEF g
  <2>4. FlagsMatch'
    BY <1>0, <1>3, <2>1 DEF FlagsMatch
  <2>5. \A h \in Unowned' \ missed' : Quiet(flags'[h])
    BY <1>0, <1>3, <2>1 DEF NotInUse, Unowned
  <2>6. NotInUse'
    BY <1>0, <2>1, <2>3, <2>5 DEF NotInUse
  <2> QED BY <2>4, <2>6 DEF FlagsInv
<1>6. ASSUME NEW t \in Granter, Up(t) PROVE FlagsInv'
  BY <1>0, <1>6, FlagsFrame DEF Up, Go
\* A step of thread t that changes its own entry at most, which it keeps.
<1>7. ASSUME NEW t \in Granter, NEW e \in owned, NEW f, Match(f),
             flags' = [flags EXCEPT ![e] = f], UNCHANGED owned, missed \ {e} \subseteq missed',
             \A o \in Granter \ {t} : gpc'[o] = "idle",
             gpc'[t] \in {"put", "grant"} => e = arg'[t].gref /\ (e \notin missed' => Quiet(f))
      PROVE  FlagsInv'
  <2>1. e \in Gref /\ flags'[e] = f /\ \A g \in Gref \ {e} : flags'[g] = flags[g]
    BY <1>0, <1>7
  <2>2. FlagsMatch'
    BY <1>0, <1>3, <1>7, <2>1 DEF FlagsMatch
  <2>3. \A h \in Unowned' \ missed' : Quiet(flags'[h])
    <3>1. Unowned' = Unowned /\ \A g \in Unowned : g \in Gref \ {e}
      BY <1>3, <1>7, Zenon DEF Unowned
    <3>2. \A h \in Unowned \ missed' : h \notin missed
      BY <1>7, <3>1
    <3> QED BY <1>0, <2>1, <3>1, <3>2 DEF NotInUse
  <2>4. NotInUse'
    BY <1>7, <2>1, <2>3 DEF NotInUse
  <2> QED BY <2>2, <2>4 DEF FlagsInv
<1>8. ASSUME NEW t \in Granter, NEW flag \in {"permit", "accept"}, Grant(t, flag) PROVE FlagsInv'
  <2>1. Match({flag})
    BY DEF Match
  <2>2. gpc[t] = "grant" /\ arg[t].gref \in owned /\ \A o \in Granter \ {t} : gpc[o] = "idle"
    BY <1>1, <1>2, <1>8 DEF Grant
  <2>3. gpc'[t] = "idle" /\ \A o \in Granter \ {t} : gpc'[o] = "idle"
    BY <1>0, <1>8, <2>2 DEF Grant, Go
  <2>4. /\ flags' = [flags EXCEPT ![arg[t].gref] = {flag}] /\ UNCHANGED owned
        /\ missed \ {arg[t].gref} \subseteq missed'
    BY <1>8, Zenon DEF Grant
  <2> QED BY <1>7, <2>1, <2>2, <2>3, <2>4, Zenon
<1>9. ASSUME NEW t \in Granter, NEW g \in Gref, NEW call \in {"end", "update", "transfer"},
             BeginEnd(t, g, call)
      PROVE  FlagsInv'
  BY <1>0, <1>9, FlagsFrame DEF BeginEnd, Go
<1>10. Match({}) /\ Quiet({})
  BY DEF Match, Quiet, InUse
\* The exchange leaves the flags quiet or is missed.
<1>11. ASSUME NEW t \in Granter, arg[t].gref \in owned, Exchange(arg[t])
       PROVE  \E f : /\ flags' = [flags EXCEPT ![arg[t].gref] = f] /\ Match(f)
                     /\ missed \ {arg[t].gref} \subseteq missed'
                     /\ arg[t].gref \notin missed' => Quiet(f)
  <2> DEFINE e == arg[t].gref
  <2>1. e \in Gref /\ Match(flags[e])
    BY <1>0, <1>11 DEF FlagsMatch
  <2>2. CASE flags[e] = arg[t].flags
    <3>1. flags' = [flags EXCEPT ![e] = {}] /\ missed' = missed
      BY <1>11, <2>2 DEF Exchange
    <3> QED BY <1>10, <3>1, Zenon
  <2>3. CASE flags[e] # arg[t].flags
    <3>1. flags' = [flags EXCEPT ![e] = flags[e]] /\ missed' = missed \cup {e}
      BY <1>11, <2>3 DEF Exchange
    <3> QED BY <2>1, <3>1, Zenon
  <2> QED BY <2>2, <2>3
<1>12. ASSUME NEW t \in Granter, ResetFlags(t) PROVE FlagsInv'
  <2>1. /\ gpc[t] \in {"end", "update"} /\ arg[t].gref \in owned /\ Exchange(arg[t])
        /\ \A o \in Granter \ {t} : gpc[o] = "idle"
    BY <1>1, <1>2, <1>12 DEF ResetFlags
  <2>2. /\ gpc'[t] \in {"put", "grant"} /\ UNCHANGED <<owned, arg>>
        /\ \A o \in Granter \ {t} : gpc'[o] = "idle"
    BY <1>0, <1>12, <2>1 DEF ResetFlags, Go
  <2>3. PICK f : /\ flags' = [flags EXCEPT ![arg[t].gref] = f] /\ Match(f)
                 /\ missed \ {arg[t].gref} \subseteq missed'
                 /\ arg[t].gref \notin missed' => Quiet(f)
    BY <1>11, <2>1
  <2> QED BY <1>7, <2>1, <2>2, <2>3, Zenon
<1>13. ASSUME NEW t \in Granter, EndTransfer(t) PROVE FlagsInv'
  <2> DEFINE e == arg[t].gref
  <2>1. /\ gpc[t] = "transfer" /\ e \in owned /\ \A o \in Granter \ {t} : gpc[o] = "idle"
    BY <1>1, <1>2, <1>13 DEF EndTransfer
  <2>2. PICK f : /\ flags' = [flags EXCEPT ![e] = f] /\ Match(f) /\ missed \ {e} \subseteq missed'
                 /\ e \notin missed' => Quiet(f)
    <3>1. CASE "committed" \notin arg[t].flags
      BY <1>11, <1>13, <2>1, <3>1 DEF EndTransfer
    <3>2. CASE "committed" \in arg[t].flags
      <4>1. UNCHANGED <<flags, missed>> /\ "completed" \in flags[e]
        BY <1>13, <3>2 DEF EndTransfer
      <4>2. Match(flags[e])
        BY <1>0, <2>1 DEF FlagsMatch
      <4>3. Quiet(flags[e])
        BY <4>1, <4>2 DEF Match, Quiet, InUse
      <4>4. flags' = [flags EXCEPT ![e] = flags[e]]
        BY <1>0, <2>1, <4>1
      <4> QED BY <4>1, <4>2, <4>3, <4>4, Zenon
    <3> QED BY <3>1, <3>2
  <2>3. /\ gpc'[t] = "put" /\ UNCHANGED <<owned, arg>>
        /\ \A o \in Granter \ {t} : gpc'[o] = "idle"
    BY <1>0, <1>13, <2>1 DEF EndTransfer, Go
  <2>4. arg'[t].gref = e
    BY <2>3
  <2> HIDE DEF e
  <2> QED BY <1>7, <2>1, <2>2, <2>3, <2>4, Zenon
<1>14. ASSUME NEW t \in Granter, PutEntry(t) PROVE FlagsInv'
  <2> DEFINE e == arg[t].gref
  <2>1. /\ gpc[t] = "put" /\ e \in owned /\ (e \notin missed => Quiet(flags[e]))
        /\ \A o \in Granter \ {t} : gpc[o] = "idle"
    BY <1>0, <1>1, <1>2, <1>14 DEF PutEntry, NotInUse
  <2>2. /\ gpc'[t] = "up" /\ \A o \in Granter \ {t} : gpc'[o] = "idle"
        /\ UNCHANGED <<flags, missed>> /\ owned' = owned \ {e}
    BY <1>0, <1>14, <2>1 DEF PutEntry, Go
  <2> HIDE DEF e
  <2>3. \A h \in Unowned' \ missed' : Quiet(flags'[h])
    BY <1>0, <1>3, <2>1, <2>2 DEF NotInUse, Unowned
  <2>4. NotInUse'
    BY <2>2, <2>3 DEF NotInUse
  <2>5. FlagsMatch'
    BY <1>0, <1>3, <2>2 DEF FlagsMatch
  <2> QED BY <2>4, <2>5 DEF FlagsInv
\* Entry g alone changes, the threads stay where they are.
<1>15. ASSUME NEW g \in Gref, NEW f, Match(f), flags' = [flags EXCEPT ![g] = f],
              UNCHANGED <<gpc, arg>>, missed \subseteq missed',
              \A h \in Unowned' : h = g \/ h \in Unowned,
              g \in Unowned' /\ g \notin missed' => Quiet(f),
              Quiet(flags[g]) => Quiet(f)
       PROVE  FlagsInv'
  <2>1. flags'[g] = f /\ \A h \in Gref \ {g} : flags'[h] = flags[h]
    BY <1>0, <1>15
  <2>2. FlagsMatch'
    BY <1>0, <1>3, <1>15, <2>1 DEF FlagsMatch
  <2>3. \A h \in Unowned' \ missed' : Quiet(flags'[h])
    <3>1. \A h \in Unowned' : h \in Gref
      BY <1>3, Zenon
    <3> QED BY <1>0, <1>15, <2>1, <3>1 DEF NotInUse
  <2>4. ASSUME NEW t \in Granter, gpc[t] \in {"put", "grant"}, arg[t].gref \notin missed'
        PROVE  Quiet(flags'[arg[t].gref])
    <3>1. arg[t].gref \in Gref /\ Quiet(flags[arg[t].gref])
      BY <1>0, <1>2, <1>15, <2>4 DEF NotInUse
    <3> QED BY <1>15, <2>1, <3>1, Zenon
  <2>5. NotInUse'
    BY <1>15, <2>3, <2>4 DEF NotInUse
  <2> QED BY <2>2, <2>5 DEF FlagsInv
<1>16. ASSUME NEW g \in Gref, HandlerEnd(g) PROVE FlagsInv'
  <2>1. /\ UNCHANGED <<gpc, arg>> /\ owned' = owned \ {g} /\ "permit" \in flags[g]
    BY <1>16 DEF HandlerEnd
  <2>2. \A h \in Unowned' : h = g \/ h \in Unowned
    BY <1>3, <2>1 DEF Unowned
  <2>3. ~Quiet(flags[g])
    BY <2>1 DEF Quiet
  <2>4. CASE flags' = [flags EXCEPT ![g] = {}] /\ UNCHANGED missed
    <3>1. missed \subseteq missed'
      BY <2>4
    <3> QED BY <1>10, <1>15, <2>1, <2>2, <2>4, <3>1, Zenon
  <2>5. CASE flags' = [flags EXCEPT ![g] = @ \cup {"reading"}] /\ missed' = missed \cup {g}
    <3>1. Match(flags[g] \cup {"reading"})
      BY <1>0, <2>1 DEF FlagsMatch, Match
    <3>2. missed \subseteq missed' /\ g \in missed'
      BY <2>5
    <3>3. flags' = [flags EXCEPT ![g] = flags[g] \cup {"reading"}]
      BY <2>5
    <3> QED BY <1>15, <2>1, <2>2, <2>3, <3>1, <3>2, <3>3, Zenon
  <2> QED BY <1>16, <2>4, <2>5 DEF HandlerEnd
<1>17. ASSUME NEW g \in Gref, Peer(g) \/ PeerCompletes(g) PROVE FlagsInv'
  <2> DEFINE f == flags[g]
  <2>1. PICK x : /\ flags' = [flags EXCEPT ![g] = x]
                 /\ \/ "permit" \in f /\ x = f \cup {"reading"}
                    \/ "reading" \in f /\ x = f \ {"reading"}
                    \/ "accept" \in f /\ x = f \cup {"committed"}
                    \/ "committed" \in f /\ x = f \cup {"completed"}
    BY <1>17, ZenonT(30) DEF Peer, PeerCompletes
  <2>2. UNCHANGED <<gpc, arg, owned>> /\ Unowned' = Unowned /\ missed \subseteq missed'
        /\ missed' = missed
    BY <1>3, <1>17 DEF Peer, PeerCompletes, Unowned
  <2>3. f \in SUBSET Flag /\ Match(f)
    BY <1>0 DEF FlagsMatch
  <2>4. Match(x) /\ (Quiet(f) => Quiet(x))
    BY <2>1, <2>3, PeerKeeps
  <2>5. g \in Unowned /\ g \notin missed => Quiet(x)
    BY <1>0, <2>4 DEF NotInUse
  <2> QED BY <1>15, <2>1, <2>2, <2>4, <2>5, Zenon
<1>18. CASE UNCHANGED gntVars
  BY <1>0, <1>18 DEF gntVars, FlagsInv, FlagsMatch, NotInUse, Unowned, Gref
<1> QED
  BY <1>4, <1>5, <1>6, <1>8, <1>9, <1>12, <1>13, <1>14, <1>16, <1>17, <1>18 DEF GntNext

\* List, semaphore and owners of the entries agree in every reachable state, whatever the
\* other domain does to the flags.
THEOREM EntriesInvariance == GntSpec => []EntriesInv
BY EntriesInit, EntriesStep, PTL DEF GntSpec

\* get_free_entry finds an entry whenever the semaphore has let a thread pass, also when
\* handlers give entries back meanwhile.
THEOREM ClaimsAreMet == GntSpec => []GetAssert
BY EntriesInvariance, ClaimFinds, PTL

\* Whatever the other domain does and when, an entry is given back or granted again while
\* that domain uses it only if the flags changed between the reading and the exchange of
\* the call that ended the grant.
THEOREM GntInvariance == GntSpec => []GntInv
<1>1. GntInit => EntriesInv /\ FlagsInv
  BY EntriesInit, FlagsInit
<1>2. EntriesInv /\ FlagsInv /\ [GntNext]_gntVars => EntriesInv' /\ FlagsInv'
  BY EntriesStep, FlagsStep
<1>3. EntriesInv /\ FlagsInv => GntInv
  BY ClaimFinds DEF GntInv, FlagsInv
<1> QED BY <1>1, <1>2, <1>3, PTL DEF GntSpec

=============================================================================
