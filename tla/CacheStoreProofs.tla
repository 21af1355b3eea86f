-------------------------- MODULE CacheStoreProofs --------------------------
(***************************************************************************)
(* The archives of the action cache are whole, are published once and      *)
(* never replaced: for every set of keys and guests, every number of       *)
(* pieces, any clocks and any number of crashes.                           *)
(***************************************************************************)
EXTENDS CacheStore, TLAPS

Metas == {NoMeta} \cup [final : BOOLEAN, age : {"fresh", "stale"}, by : Guests]

Contents == Seq(pieces)

Entries ==
  [there : BOOLEAN, meta : Metas, archive : Contents \cup {None},
   blocks : [BlockIDs -> pieces \cup {None}], tmp : [Guests -> Contents \cup {None}]]

UploadSteps == {"put", "write", "finish", "copy", "finalize"}

Jobs == {Idle} \cup [at : UploadSteps, key : Keys, n : 0..Pieces]

firstBlocks(g, n) == [i \in 1..n |-> <<g, i>>]

(* What a job has in its temporary file, if that is still there.            *)
HandInv(g) ==
  LET content == dir[job[g].key].tmp[g] IN
  /\ at(g, "finish") => content \in {None, <<<<g, job[g].n>>>>}
  /\ OwnBlockIDs /\ at(g, "copy") => content \in {None, firstBlocks(g, job[g].n)}

(* The block of an id is the piece that was given this id, and an archive in *)
(* place is a whole upload.                                                  *)
GoodEntry(e) ==
  /\ \A g \in Guests : \A i \in 1..Pieces : e.blocks[BlockID[g][i]] \in {None, <<g, i>>}
  /\ e.archive \in uploads \cup {None}

IInv ==
  /\ dir \in [Keys -> Entries]
  /\ job \in [Guests -> Jobs]
  /\ \A g \in Guests : HandInv(g)
  /\ OwnBlockIDs => \A k \in Keys : GoodEntry(dir[k])

(* What of an entry jobs may read. *)
shown(d) == IF d.meta.final /\ d.archive # None THEN d.archive ELSE None

(* An entry that is shown is not changed, unless it is taken away.          *)
Kept(d, e) == shown(d) # None => shown(e) \in {None, shown(d)}

(* How a step of the guests in S may change an entry d.                     *)
Wrote(d, e, S) ==
  /\ e \in Entries
  /\ Kept(d, e)
  /\ \A h \in Guests \ S : e.tmp[h] \in {d.tmp[h], None}
  /\ OwnBlockIDs /\ GoodEntry(d) => GoodEntry(e)

OneEntry(S) ==
  \/ UNCHANGED dir
  \/ \E k \in Keys : \E d \in Entries : update(k, d) /\ Wrote(dir[k], d, S)

OneJob(g) ==
  /\ job' \in [Guests -> Jobs]
  /\ \A h \in Guests \ {g} : job'[h] = job[h]

-----------------------------------------------------------------------------
(* Operators. *)

LEMMA WholeUploads ==
  ASSUME NEW g \in Guests
  PROVE  <<<<g, 0>>>> \in uploads /\ firstBlocks(g, Pieces) \in uploads
  BY DEF uploads, whole, firstBlocks

LEMMA NewEntries ==
  ASSUME NEW g \in Guests
  PROVE  NoDir \in Entries /\ NewDir(g) \in Entries /\ Meta(FALSE, "fresh", g) \in Metas
  BY DEF NoDir, NoBlocks, NewDir, NoMeta, Meta, Entries, Metas

LEMMA NoDirGood == GoodEntry(NoDir) /\ \A g \in Guests : NoDir.tmp[g] = None /\ GoodEntry(NewDir(g)) /\ \A h \in Guests : NewDir(g).tmp[h] = None
  BY CacheAssumption DEF GoodEntry, NoDir, NewDir, NoBlocks

LEMMA JobOf ==
  ASSUME IInv, NEW g \in Guests, ~at(g, "idle")
  PROVE  job[g] \in [at : UploadSteps, key : Keys, n : 0..Pieces]
  BY DEF IInv, Jobs, Idle, at

LEMMA Goto ==
  ASSUME IInv, NEW g \in Guests, NEW j \in Jobs, goto(g, j)
  PROVE  job' \in [Guests -> Jobs] /\ job'[g] = j /\ \A h \in Guests \ {g} : job'[h] = job[h]
  BY DEF IInv, goto

LEMMA Update ==
  ASSUME IInv, NEW k \in Keys, NEW d \in Entries, update(k, d)
  PROVE  dir' \in [Keys -> Entries] /\ dir'[k] = d /\ \A j \in Keys \ {k} : dir'[j] = dir[j]
  BY DEF IInv, update

(* A job that is at none of the two steps has nothing in hand.              *)
LEMMA EmptyHand ==
  ASSUME NEW g, job'[g].at \notin {"finish", "copy"}
  PROVE  HandInv(g)'
  BY DEF HandInv, at

LEMMA EntryKeeps ==
  ASSUME NEW d \in Entries, NEW e \in Entries,
         ~d.meta.final \/ (e.meta = d.meta /\ e.archive \in {d.archive, None})
  PROVE  Kept(d, e)
  BY DEF Kept, shown

(* A write to a temporary file.                                             *)
LEMMA EntryTmp ==
  ASSUME NEW e \in Entries, NEW g \in Guests, NEW c \in Contents \cup {None}
  PROVE  Wrote(e, [e EXCEPT !.tmp[g] = c], {g}) /\ [e EXCEPT !.tmp[g] = c].tmp[g] = c
<1> DEFINE d == [e EXCEPT !.tmp[g] = c]
<1>1. d \in Entries
  BY DEF Entries
<1>2. /\ d.meta = e.meta /\ d.archive = e.archive /\ d.blocks = e.blocks
      /\ d.tmp = [e.tmp EXCEPT ![g] = c]
  BY DEF Entries
<1>3. d.tmp[g] = c /\ \A h \in Guests \ {g} : d.tmp[h] = e.tmp[h]
  BY <1>2 DEF Entries
<1> HIDE DEF d
<1>4. Wrote(e, d, {g})
  BY <1>1, <1>2, <1>3, EntryKeeps DEF Wrote, GoodEntry
<1> QED
  BY <1>3, <1>4 DEF d

LEMMA EntryBegun ==
  ASSUME NEW e \in Entries, NEW g \in Guests
  PROVE  /\ Wrote(e, [e EXCEPT !.there = TRUE, !.tmp[g] = <<>>], {g})
         /\ [e EXCEPT !.there = TRUE, !.tmp[g] = <<>>].tmp[g] = <<>>
<1> DEFINE d == [e EXCEPT !.there = TRUE, !.tmp[g] = <<>>]
<1>0. <<>> \in Contents
  BY DEF Contents
<1>1. d \in Entries
  BY <1>0 DEF Entries
<1>2. /\ d.meta = e.meta /\ d.archive = e.archive /\ d.blocks = e.blocks
      /\ d.tmp = [e.tmp EXCEPT ![g] = <<>>]
  BY DEF Entries
<1>3. d.tmp[g] = <<>> /\ \A h \in Guests \ {g} : d.tmp[h] = e.tmp[h]
  BY <1>2 DEF Entries
<1> HIDE DEF d
<1>4. Wrote(e, d, {g})
  BY <1>1, <1>2, <1>3, EntryKeeps DEF Wrote, GoodEntry
<1> QED
  BY <1>3, <1>4 DEF d

(* An archive is renamed into place of an entry that is not final.          *)
LEMMA EntryArchive ==
  ASSUME NEW e \in Entries, NEW g \in Guests, NEW a \in Contents, ~e.meta.final,
         OwnBlockIDs => a \in uploads,
         NEW b \in [BlockIDs -> pieces \cup {None}], b \in {e.blocks, NoBlocks},
         NEW d, d = [[e EXCEPT !.tmp[g] = None] EXCEPT !.archive = a, !.blocks = b]
  PROVE  Wrote(e, d, {g}) /\ d.meta = e.meta
<1>1. d \in Entries
  BY DEF Entries
<1>2. /\ d.archive = a /\ d.blocks \in {e.blocks, NoBlocks} /\ d.meta = e.meta
      /\ d.tmp = [e.tmp EXCEPT ![g] = None]
  BY DEF Entries
<1>3. \A h \in Guests \ {g} : d.tmp[h] = e.tmp[h]
  BY <1>2 DEF Entries
<1>4. \A id \in BlockIDs : NoBlocks[id] = None
  BY DEF NoBlocks
<1>5. \A h \in Guests : \A i \in 1..Pieces : BlockID[h][i] \in BlockIDs
  BY CacheAssumption
<1>6. OwnBlockIDs /\ GoodEntry(e) => GoodEntry(d)
  BY <1>2, <1>4, <1>5 DEF GoodEntry
<1> QED
  BY <1>1, <1>2, <1>3, <1>6, EntryKeeps DEF Wrote

LEMMA EntryBlock ==
  ASSUME NEW e \in Entries, NEW g \in Guests, NEW n \in 1..Pieces, ~e.meta.final,
         NEW d, d = [[e EXCEPT !.tmp[g] = None] EXCEPT !.blocks[BlockID[g][n]] = <<g, n>>]
  PROVE  Wrote(e, d, {g}) /\ d.meta = e.meta
<1>0. Pieces \in Nat /\ BlockID[g][n] \in BlockIDs
      /\ \A h \in Guests : \A i \in 1..Pieces : BlockID[h][i] \in BlockIDs
  BY CacheAssumption
<1>1. <<g, n>> \in pieces
  BY <1>0 DEF pieces
<1>2. /\ d.archive = e.archive /\ d.meta = e.meta
      /\ d.blocks = [e.blocks EXCEPT ![BlockID[g][n]] = <<g, n>>]
      /\ d.tmp = [e.tmp EXCEPT ![g] = None]
  BY DEF Entries
<1>3. d \in Entries
  BY <1>0, <1>1 DEF Entries
<1>4. \A h \in Guests \ {g} : d.tmp[h] = e.tmp[h]
  BY <1>2 DEF Entries
<1>5. ASSUME OwnBlockIDs, GoodEntry(e) PROVE GoodEntry(d)
  <2>1. \A id \in BlockIDs : d.blocks[id] = IF id = BlockID[g][n] THEN <<g, n>> ELSE e.blocks[id]
    BY <1>2 DEF Entries
  <2>2. ASSUME NEW h \in Guests, NEW i \in 1..Pieces
        PROVE  d.blocks[BlockID[h][i]] \in {None, <<h, i>>}
    <3>1. CASE BlockID[h][i] = BlockID[g][n]
      <4>1. h = g /\ i = n
        BY <1>5, <3>1 DEF OwnBlockIDs
      <4> QED
        BY <1>0, <2>1, <4>1
    <3>2. CASE BlockID[h][i] # BlockID[g][n]
      <4>1. d.blocks[BlockID[h][i]] = e.blocks[BlockID[h][i]]
        BY <1>0, <2>1, <3>2
      <4> QED
        BY <1>5, <4>1 DEF GoodEntry
    <3> QED
      BY <3>1, <3>2
  <2> QED
    BY <1>2, <1>5, <2>2 DEF GoodEntry
<1> QED
  BY <1>2, <1>3, <1>4, <1>5, EntryKeeps DEF Wrote

(* The block that is copied next. *)
LEMMA NextBlock ==
  ASSUME NEW g \in Guests, NEW n \in 0..Pieces
  PROVE  Append(firstBlocks(g, n), <<g, n + 1>>) = firstBlocks(g, n + 1)
<1>0. n \in Nat
  BY CacheAssumption
<1>1. firstBlocks(g, n) \in Seq(Guests \X Nat) /\ Len(firstBlocks(g, n)) = n
  BY <1>0 DEF firstBlocks
<1>2. Append(firstBlocks(g, n), <<g, n + 1>>) =
        [i \in 1..(n + 1) |-> IF i = n + 1 THEN <<g, n + 1>> ELSE firstBlocks(g, n)[i]]
  BY <1>0, <1>1
<1> QED
  BY <1>0, <1>2 DEF firstBlocks

-----------------------------------------------------------------------------
(* What each step of an upload does. *)

Changes(g) == OneEntry({g}) /\ OneJob(g) /\ HandInv(g)'

LEMMA Changed ==
  ASSUME IInv, NEW g \in Guests, NEW k \in Keys, NEW d, update(k, d), Wrote(dir[k], d, {g}),
         NEW j \in Jobs, goto(g, j),
         j.at = "finish" => j.key = k /\ d.tmp[g] \in {None, <<<<g, j.n>>>>},
         OwnBlockIDs /\ j.at = "copy" => j.key = k /\ d.tmp[g] \in {None, firstBlocks(g, j.n)}
  PROVE  Changes(g)
<1>1. d \in Entries
  BY DEF Wrote
<1>2. dir'[k] = d /\ job'[g] = j /\ OneJob(g)
  BY <1>1, Update, Goto DEF OneJob
<1>3. HandInv(g)'
  BY <1>2 DEF HandInv, at
<1> QED
  BY <1>1, <1>2, <1>3 DEF Changes, OneEntry

LEMMA GivesUp ==
  ASSUME IInv, NEW g \in Guests, UNCHANGED dir, NEW j \in Jobs, goto(g, j),
         j.at \notin {"finish", "copy"}
  PROVE  Changes(g)
  BY Goto, EmptyHand DEF Changes, OneEntry, OneJob

LEMMA BeginChanges ==
  ASSUME IInv, NEW g \in Guests, ~at(g, "idle"), NEW n \in 0..Pieces,
         NEW step, step = "write" \/ (step = "copy" /\ n = 0),
         beginPendingWrite(g, step, n)
  PROVE  Changes(g)
<1> DEFINE k == job[g].key
           d == [dir[k] EXCEPT !.there = TRUE, !.tmp[g] = <<>>]
<1>1. /\ k \in Keys /\ Doing(step, k, n) \in Jobs /\ Idle \in Jobs /\ dir[k] \in Entries
  BY JobOf DEF Jobs, Doing, UploadSteps, IInv
<1>2. firstBlocks(g, 0) = <<>>
  BY DEF firstBlocks
<1>3. Wrote(dir[k], d, {g}) /\ d.tmp[g] = <<>>
  BY <1>1, EntryBegun
<1>4. CASE writable(k)
  <2>1. update(k, d) /\ goto(g, Doing(step, k, n))
    BY <1>4 DEF beginPendingWrite
  <2>2. /\ Doing(step, k, n).at = step /\ Doing(step, k, n).key = k /\ Doing(step, k, n).n = n
    BY DEF Doing
  <2> HIDE DEF d, k
  <2> QED
    BY <1>1, <1>2, <1>3, <2>1, <2>2, Changed
<1>5. CASE ~writable(k)
  BY <1>1, <1>5, GivesUp DEF beginPendingWrite, fails, Idle
<1> QED
  BY <1>4, <1>5

LEMMA UploadChanges ==
  ASSUME IInv, NEW g \in Guests, UploadStep(g)
  PROVE  Changes(g)
<1> DEFINE k == job[g].key
           n == job[g].n
           e == dir[k]
<1>0. /\ ~at(g, "idle") /\ job[g] \in [at : UploadSteps, key : Keys, n : 0..Pieces]
      /\ Pieces \in Nat \ {0}
  <2>1. ~at(g, "idle")
    BY DEF UploadStep, Put, writeReaderFile, finishPendingWrite, CommitBlocks, copyBlock,
       commit, Finalize, at
  <2> QED
    BY <2>1, JobOf, CacheAssumption
<1>1. k \in Keys /\ n \in 0..Pieces /\ Idle \in Jobs /\ Idle.at = "idle"
      /\ \A step \in UploadSteps : \A i \in 0..Pieces :
           /\ Doing(step, k, i) \in Jobs /\ Doing(step, k, i).at = step
           /\ Doing(step, k, i).key = k /\ Doing(step, k, i).n = i
  BY <1>0 DEF Jobs, Doing, Idle
<1>2. e \in Entries /\ e.tmp[g] \in Contents \cup {None} /\ None \in Contents \cup {None}
  BY <1>1 DEF IInv, Entries
<1>3. /\ at(g, "finish") => e.tmp[g] \in {None, <<<<g, n>>>>}
      /\ OwnBlockIDs /\ at(g, "copy") => e.tmp[g] \in {None, firstBlocks(g, n)}
      /\ OwnBlockIDs => GoodEntry(e)
  BY <1>1 DEF IInv, HandInv
<1>4. droppedTmp(g, k) = [e EXCEPT !.tmp[g] = None]
      /\ (renamable(g, k) => ~e.meta.final /\ e.tmp[g] # None)
  BY DEF droppedTmp, renamable, writable, pending
<1>5. ASSUME update(k, droppedTmp(g, k)), goto(g, Idle) PROVE Changes(g)
  <2>1. Wrote(e, [e EXCEPT !.tmp[g] = None], {g})
    BY <1>2, EntryTmp
  <2> HIDE DEF k, e
  <2> QED
    BY <1>1, <1>4, <1>5, <2>1, Changed DEF e
<1> HIDE DEF k, n, e
<1>13. k \in Keys /\ Doing("finalize", k, 0) \in Jobs /\ Doing("finalize", k, 0).at = "finalize"
  BY <1>0, <1>1 DEF UploadSteps
<1>6. CASE Put(g)
  <2>1. CASE beginPendingWrite(g, "write", 0)
    BY <1>0, <1>1, <2>1, BeginChanges
  <2>2. CASE n < Pieces /\ beginPendingWrite(g, "write", n + 1)
    <3>1. n + 1 \in 0..Pieces
      BY <1>0, <1>1, <2>2
    <3> QED
      BY <1>0, <2>2, <3>1, BeginChanges
  <2> QED
    BY <1>6, <2>1, <2>2 DEF Put, n
<1>7. CASE writeReaderFile(g)
  <2> DEFINE d == [e EXCEPT !.tmp[g] = <<<<g, n>>>>]
  <2>1. <<<<g, n>>>> \in Contents
    BY <1>1 DEF Contents, pieces
  <2>2. Wrote(e, d, {g}) /\ d.tmp[g] = <<<<g, n>>>>
    BY <1>2, <2>1, EntryTmp
  <2>3. \/ UNCHANGED dir /\ goto(g, Idle)
        \/ update(k, d) /\ goto(g, Doing("finish", k, n))
    BY <1>7 DEF writeReaderFile, fails, k, e, n
  <2> HIDE DEF d
  <2>4. CASE UNCHANGED dir /\ goto(g, Idle)
    BY <1>1, <2>4, GivesUp
  <2>5. CASE update(k, d) /\ goto(g, Doing("finish", k, n))
    <3> DEFINE j == Doing("finish", k, n)
    <3>1. j \in Jobs /\ j.at = "finish" /\ j.key = k /\ j.n = n
      BY <1>1 DEF UploadSteps
    <3>2. update(k, d) /\ goto(g, j)
      BY <2>5
    <3> HIDE DEF j
    <3>3. /\ j.at = "finish" => j.key = k /\ d.tmp[g] \in {None, <<<<g, j.n>>>>}
          /\ OwnBlockIDs /\ j.at = "copy" => j.key = k /\ d.tmp[g] \in {None, firstBlocks(g, j.n)}
      BY <2>2, <3>1
    <3>4. Wrote(dir[k], d, {g})
      BY <2>2 DEF e
    <3> HIDE DEF d
    <3> QED
      BY <1>1, <3>1, <3>2, <3>3, <3>4, Changed
  <2> QED
    BY <2>3, <2>4, <2>5
<1>8. CASE finishPendingWrite(g)
  <2>1. at(g, "finish")
    BY <1>8 DEF finishPendingWrite
  <2>2. CASE ~renamable(g, k)
    BY <1>5, <1>8, <2>2 DEF finishPendingWrite, k
  <2>3. CASE renamable(g, k) /\ n = 0
    <3> DEFINE d == [[e EXCEPT !.tmp[g] = None] EXCEPT !.archive = <<<<g, 0>>>>]
    <3>1. e.tmp[g] = <<<<g, 0>>>> /\ <<<<g, 0>>>> \in Contents
      BY <1>2, <1>3, <1>4, <2>1, <2>3
    <3>2. update(k, d) /\ goto(g, Doing("finalize", k, 0))
      BY <1>4, <1>8, <2>3, <3>1 DEF finishPendingWrite, k, n, e
    <3>3. /\ d = [[e EXCEPT !.tmp[g] = None] EXCEPT !.archive = <<<<g, 0>>>>, !.blocks = e.blocks]
          /\ e.blocks \in [BlockIDs -> pieces \cup {None}]
      BY <1>2 DEF Entries
    <3> HIDE DEF d
    <3>4. Wrote(e, d, {g})
      BY <1>2, <1>4, <2>3, <3>1, <3>3, EntryArchive, WholeUploads
    <3> QED
      BY <1>13, <3>2, <3>4, Changed DEF e
  <2>4. CASE renamable(g, k) /\ n # 0
    <3> DEFINE d == [[e EXCEPT !.tmp[g] = None] EXCEPT !.blocks[BlockID[g][n]] = <<g, n>>]
    <3>1. Head(e.tmp[g]) = <<g, n>> /\ n \in 1..Pieces
      BY <1>0, <1>1, <1>3, <1>4, <2>1, <2>4
    <3>2. update(k, d) /\ goto(g, Doing("put", k, n))
      BY <1>4, <1>8, <2>4, <3>1 DEF finishPendingWrite, k, n, e
    <3>3. Wrote(e, d, {g})
      BY <1>2, <1>4, <2>4, <3>1, EntryBlock
    <3> HIDE DEF d
    <3>4. Doing("put", k, n) \in Jobs /\ Doing("put", k, n).at = "put"
      BY <1>1 DEF UploadSteps
    <3> QED
      BY <1>1, <3>2, <3>3, <3>4, Changed DEF e
  <2> QED
    BY <2>2, <2>3, <2>4
<1>9. CASE CommitBlocks(g)
  BY <1>0, <1>9, BeginChanges DEF CommitBlocks
<1>10. CASE copyBlock(g)
  <2> DEFINE block == e.blocks[BlockID[g][n + 1]]
             d == [e EXCEPT !.tmp[g] = Append(e.tmp[g], block)]
  <2>1. at(g, "copy") /\ n + 1 \in 1..Pieces /\ n + 1 \in 0..Pieces
    BY <1>0, <1>1, <1>10 DEF copyBlock, n
  <2>2. CASE e.tmp[g] # None /\ block # None
    <3>1. update(k, d) /\ goto(g, Doing("copy", k, n + 1))
      BY <1>10, <2>2 DEF copyBlock, k, n, e
    <3>2. block \in pieces
      <4>1. BlockID[g][n + 1] \in BlockIDs
        BY <2>1, CacheAssumption
      <4> QED
        BY <1>2, <2>2, <4>1 DEF Entries
    <3>3. e.tmp[g] \in Contents /\ Append(e.tmp[g], block) \in Contents
      BY <1>2, <2>2, <3>2 DEF Contents
    <3>4. Wrote(e, d, {g}) /\ d.tmp[g] = Append(e.tmp[g], block)
      BY <1>2, <3>3, EntryTmp
    <3>5. ASSUME OwnBlockIDs PROVE d.tmp[g] = firstBlocks(g, n + 1)
      <4>1. e.tmp[g] = firstBlocks(g, n)
        BY <1>3, <2>1, <2>2, <3>5
      <4>2. block = <<g, n + 1>>
        BY <1>3, <2>1, <2>2, <3>5 DEF GoodEntry
      <4> QED
        BY <1>1, <3>4, <4>1, <4>2, NextBlock
    <3> HIDE DEF d, block
    <3> DEFINE j == Doing("copy", k, n + 1)
    <3>6. j \in Jobs /\ j.at = "copy" /\ j.key = k /\ j.n = n + 1
      BY <1>1, <2>1 DEF UploadSteps
    <3>7. goto(g, j)
      BY <3>1
    <3> HIDE DEF j
    <3>8. /\ j.at = "finish" => j.key = k /\ d.tmp[g] \in {None, <<<<g, j.n>>>>}
          /\ OwnBlockIDs /\ j.at = "copy" => j.key = k /\ d.tmp[g] \in {None, firstBlocks(g, j.n)}
      BY <3>5, <3>6
    <3>9. Wrote(dir[k], d, {g})
      BY <3>4 DEF e
    <3> QED
      BY <1>1, <3>1, <3>6, <3>7, <3>8, <3>9, Changed
  <2>3. CASE ~(e.tmp[g] # None /\ block # None)
    BY <1>5, <1>10, <2>3 DEF copyBlock, k, n, e
  <2> QED
    BY <2>2, <2>3
<1>11. CASE commit(g)
  <2> DEFINE d == [[e EXCEPT !.tmp[g] = None] EXCEPT !.archive = e.tmp[g], !.blocks = NoBlocks]
  <2>1. at(g, "copy") /\ n = Pieces
    BY <1>11 DEF commit, n
  <2>2. CASE renamable(g, k)
    <3>1. e.tmp[g] \in Contents /\ ~e.meta.final
      BY <1>2, <1>4, <2>2
    <3>2. OwnBlockIDs => e.tmp[g] \in uploads
      BY <1>3, <1>4, <2>1, <2>2, WholeUploads
    <3>3. update(k, d) /\ goto(g, Doing("finalize", k, 0))
      BY <1>4, <1>11, <2>2 DEF commit, k, e
    <3>4. NoBlocks \in [BlockIDs -> pieces \cup {None}]
      BY DEF NoBlocks
    <3>5. Wrote(e, d, {g})
      BY <1>2, <3>1, <3>2, <3>4, EntryArchive
    <3> HIDE DEF d
    <3> QED
      BY <1>13, <3>3, <3>5, Changed DEF e
  <2>3. CASE ~renamable(g, k)
    BY <1>5, <1>11, <2>3 DEF commit, k
  <2> QED
    BY <2>2, <2>3
<1>12. CASE Finalize(g)
  <2> DEFINE d == [e EXCEPT !.meta.final = TRUE]
  <2>1. CASE finalizable(g, k)
    <3>1. update(k, d) /\ goto(g, Idle)
      BY <1>12, <2>1 DEF Finalize, k, e
    <3>2. ~e.meta.final /\ e.meta \in [final : BOOLEAN, age : {"fresh", "stale"}, by : Guests]
      BY <1>2, <2>1 DEF finalizable, pending, e, Entries, Metas
    <3>3. d \in Entries /\ d.tmp = e.tmp /\ d.archive = e.archive /\ d.blocks = e.blocks
      BY <1>2, <3>2 DEF Entries, Metas
    <3>4. Wrote(e, d, {g})
      BY <1>2, <3>2, <3>3, EntryKeeps DEF Wrote, GoodEntry
    <3> HIDE DEF d
    <3> QED
      BY <1>1, <3>1, <3>4, Changed DEF e
  <2>2. CASE ~finalizable(g, k)
    BY <1>1, <1>12, <2>2, GivesUp DEF Finalize, k
  <2> QED
    BY <2>1, <2>2
<1> QED
  BY <1>6, <1>7, <1>8, <1>9, <1>10, <1>11, <1>12 DEF UploadStep

-----------------------------------------------------------------------------
(* The actions that are no part of an upload. *)

(* An entry of which only something was taken away.                         *)
LEMMA Faded ==
  ASSUME NEW d \in Entries, NEW e \in Entries,
         ~d.meta.final \/ ~e.meta.final \/ e.meta = d.meta,
         e.archive \in {d.archive, None},
         \A id \in BlockIDs : e.blocks[id] \in {d.blocks[id], None},
         \A g \in Guests : e.tmp[g] \in {d.tmp[g], None}
  PROVE  Wrote(d, e, {})
<1>1. Kept(d, e)
  BY DEF Kept, shown
<1>2. ASSUME GoodEntry(d) PROVE GoodEntry(e)
  <2>1. \A g \in Guests : \A i \in 1..Pieces : BlockID[g][i] \in BlockIDs
    BY CacheAssumption
  <2> QED
    BY <1>2, <2>1 DEF GoodEntry
<1> QED
  BY <1>1, <1>2 DEF Wrote

LEMMA ReserveChanges ==
  ASSUME IInv, NEW g \in Guests, NEW k \in Keys, Reserve(g, k)
  PROVE  Changes(g)
<1> DEFINE e == dir[k]
           d == reserved(g, k)
<1>1. e \in Entries /\ ~e.meta.final
  BY DEF IInv, Reserve, final
<1>2. /\ d \in Entries
      /\ \A id \in BlockIDs : d.blocks[id] \in {e.blocks[id], None}
      /\ \A h \in Guests : d.tmp[h] \in {e.tmp[h], None}
      /\ d.archive \in {e.archive, None}
  <2>1. CASE pending(k)
    BY <2>1, NewEntries DEF reserved, NewDir, NoDir, NoBlocks
  <2>2. CASE ~pending(k)
    BY <1>1, <2>2, NewEntries DEF reserved, Entries
  <2> QED
    BY <2>1, <2>2
<1>3. Wrote(e, d, {g})
  <2> HIDE DEF e, d
  <2>1. Wrote(e, d, {})
    BY <1>1, <1>2, Faded
  <2> QED
    BY <2>1 DEF Wrote
<1>4. Doing("put", k, 0) \in Jobs /\ Doing("put", k, 0).at = "put"
  BY CacheAssumption DEF Doing, Jobs, UploadSteps
<1> QED
  BY <1>3, <1>4, Changed DEF Reserve

LEMMA RemoveChanges ==
  ASSUME IInv, NEW k \in Keys, removeTorn(k)
  PROVE  OneEntry({})
<1> DEFINE e == dir[k]
<1>1. PICK d \in torn(k) : update(k, d)
  BY DEF removeTorn
<1>2. e \in Entries
  BY DEF IInv
<1>3. PICK m \in {e.meta, NoMeta}, a \in {e.archive, None},
           gone \in SUBSET BlockIDs, cut \in SUBSET Guests : d = remains(k, m, a, gone, cut)
  BY <1>1 DEF torn
<1>4. d \in Entries
  <2>1. /\ m \in Metas /\ a \in Contents \cup {None}
        /\ [id \in BlockIDs |-> IF id \in gone THEN None ELSE e.blocks[id]]
             \in [BlockIDs -> pieces \cup {None}]
        /\ [g \in Guests |-> IF g \in cut THEN None ELSE e.tmp[g]]
             \in [Guests -> Contents \cup {None}]
    BY <1>2, <1>3 DEF Entries, Metas
  <2> QED
    BY <1>2, <1>3, <2>1 DEF Entries, remains
<1>5. /\ d.meta \in {e.meta, NoMeta} /\ d.archive \in {e.archive, None}
      /\ \A id \in BlockIDs : d.blocks[id] \in {e.blocks[id], None}
      /\ \A g \in Guests : d.tmp[g] \in {e.tmp[g], None}
  BY <1>2, <1>3 DEF Entries, remains
<1>6. ~NoMeta.final
  BY DEF NoMeta
<1> HIDE DEF e
<1>7. Wrote(e, d, {})
  BY <1>2, <1>4, <1>5, <1>6, Faded
<1> QED
  BY <1>1, <1>4, <1>7 DEF OneEntry, e

LEMMA ExpireChanges ==
  ASSUME IInv, NEW k \in Keys, Expire(k)
  PROVE  OneEntry({})
<1> DEFINE e == dir[k]
           d == [e EXCEPT !.meta.age = "stale"]
<1>1. e \in Entries /\ ~e.meta.final
  BY DEF IInv, Expire, pending
<1>2. e.meta \in [final : BOOLEAN, age : {"fresh", "stale"}, by : Guests]
  BY <1>1 DEF Expire, pending, Entries, Metas
<1>3. d \in Entries /\ d.tmp = e.tmp /\ d.archive = e.archive /\ d.blocks = e.blocks
  BY <1>1, <1>2 DEF Entries, Metas
<1>4. update(k, d)
  BY DEF Expire
<1> HIDE DEF d, e
<1>5. Wrote(e, d, {})
  BY <1>1, <1>3, Faded
<1> QED
  BY <1>3, <1>4, <1>5 DEF OneEntry, e

LEMMA BodyCutChanges ==
  ASSUME IInv, NEW g \in Guests, BodyCut(g)
  PROVE  Changes(g)
<1> DEFINE k == job[g].key
           d == [dir[k] EXCEPT !.tmp[g] = None]
<1>1. k \in Keys /\ dir[k] \in Entries
  BY JobOf DEF BodyCut, at, IInv
<1>2. update(k, d) /\ goto(g, Idle)
  BY DEF BodyCut, droppedTmp
<1>3. Wrote(dir[k], d, {g})
  BY <1>1, EntryTmp
<1>4. Idle \in Jobs /\ Idle.at = "idle"
  BY DEF Jobs, Idle
<1> HIDE DEF d, k
<1> QED
  BY <1>1, <1>2, <1>3, <1>4, Changed

(* An eviction takes entries away and leaves the others. *)
Evicted ==
  \E gone \in SUBSET Keys : dir' = [k \in Keys |-> IF k \in gone THEN NoDir ELSE dir[k]]

LEMMA EvictChanges ==
  ASSUME EvictLRU
  PROVE  Evicted
<1>1. PICK n \in 0..Len(used) :
        dir' = [k \in Keys |-> IF k \in purgeStalePending \cup ToSet(SubSeq(used, 1, n))
                                THEN NoDir ELSE dir[k]]
  BY DEF EvictLRU
<1> DEFINE gone == purgeStalePending \cup ToSet(SubSeq(used, 1, n))
<1> HIDE DEF gone
<1>2. dir' = [k \in Keys |-> IF k \in Keys \cap gone THEN NoDir ELSE dir[k]]
  BY <1>1 DEF gone
<1> QED
  BY <1>2 DEF Evicted

(* What any step does: one of a guest, or one that leaves the jobs alone.   *)
OtherChanges == (OneEntry({}) \/ Evicted) /\ UNCHANGED job

LEMMA NextChanges ==
  ASSUME IInv, [Next]_vars
  PROVE  (\E g \in Guests : Changes(g)) \/ OtherChanges
<1>1. CASE \E g \in Guests : UploadStep(g)
  BY <1>1, UploadChanges
<1>2. CASE \E g \in Guests : GuestCrash(g)
  <2>1. Idle \in Jobs /\ Idle.at = "idle"
    BY DEF Jobs, Idle
  <2> QED
    BY <1>2, <2>1, GivesUp DEF GuestCrash
<1>3. CASE \E g \in Guests : BodyCut(g)
  BY <1>3, BodyCutChanges
<1>4. CASE \E g \in Guests, k \in Keys : Reserve(g, k)
  BY <1>4, ReserveChanges
<1>5. CASE \E g \in Guests, k \in Keys : Lookup(g, k)
  BY <1>5 DEF Lookup, OneEntry, OtherChanges
<1>6. CASE \E g \in Guests, k \in Keys : CrashInReserve(g, k)
  BY <1>6, RemoveChanges DEF CrashInReserve, removeTorn, OtherChanges
<1>7. CASE \E k \in Keys : Expire(k)
  BY <1>7, ExpireChanges DEF Expire, OtherChanges
<1>8. CASE \E k \in Keys : CrashInEvict(k)
  BY <1>8, RemoveChanges DEF CrashInEvict, removeTorn, OtherChanges
<1>9. CASE EvictLRU
  BY <1>9, EvictChanges DEF EvictLRU, OtherChanges
<1>10. CASE UNCHANGED vars
  BY <1>10 DEF vars, OneEntry, OtherChanges
<1> QED
  BY <1>1, <1>2, <1>3, <1>4, <1>5, <1>6, <1>7, <1>8, <1>9, <1>10 DEF Next

-----------------------------------------------------------------------------
(* The invariant. *)

LEMMA InvInit == Init => IInv
<1> SUFFICES ASSUME Init PROVE IInv
  OBVIOUS
<1>1. NoDir \in Entries
  BY DEF NoDir, NoBlocks, NoMeta, Entries, Metas
<1>2. \A g \in Guests : HandInv(g)
  BY DEF Init, HandInv, at, Idle
<1> QED
  BY <1>1, <1>2, NoDirGood DEF Init, IInv, Jobs

(* The entries, and what the guests that did not move have in hand.         *)
LEMMA EntriesNext ==
  ASSUME IInv, NEW S \in SUBSET Guests, OneEntry(S) \/ Evicted
  PROVE  /\ dir' \in [Keys -> Entries]
         /\ OwnBlockIDs => \A k \in Keys : GoodEntry(dir'[k])
         /\ \A k \in Keys : \A h \in Guests \ S : dir'[k].tmp[h] \in {dir[k].tmp[h], None}
<1>1. CASE UNCHANGED dir
  BY <1>1 DEF IInv
<1>2. CASE \E k \in Keys : \E d \in Entries : update(k, d) /\ Wrote(dir[k], d, S)
  <2>1. PICK k \in Keys, d \in Entries : update(k, d) /\ Wrote(dir[k], d, S)
    BY <1>2
  <2>2. dir' \in [Keys -> Entries] /\ dir'[k] = d /\ \A j \in Keys \ {k} : dir'[j] = dir[j]
    BY <2>1, Update
  <2> QED
    BY <2>1, <2>2 DEF Wrote, IInv
<1>3. CASE Evicted
  <2>1. NoDir \in Entries
    BY DEF NoDir, NoBlocks, NoMeta, Entries, Metas
  <2>2. PICK gone \in SUBSET Keys : dir' = [k \in Keys |-> IF k \in gone THEN NoDir ELSE dir[k]]
    BY <1>3 DEF Evicted
  <2>3. \A k \in Keys : dir'[k] = NoDir \/ dir'[k] = dir[k]
    BY <2>2
  <2>4. dir' \in [Keys -> Entries]
    BY <2>1, <2>2 DEF IInv
  <2> QED
    BY <2>3, <2>4, NoDirGood DEF IInv
<1> QED
  BY <1>1, <1>2, <1>3 DEF OneEntry

LEMMA HandKept ==
  ASSUME IInv, NEW h \in Guests, job'[h] = job[h],
         \A k \in Keys : dir'[k].tmp[h] \in {dir[k].tmp[h], None}
  PROVE  HandInv(h)'
<1>1. CASE at(h, "idle")
  BY <1>1 DEF HandInv, at
<1>2. CASE ~at(h, "idle")
  <2>1. job[h].key \in Keys
    BY <1>2, JobOf
  <2> QED
    BY <2>1 DEF IInv, HandInv, at
<1> QED
  BY <1>1, <1>2

LEMMA InvNext == IInv /\ [Next]_vars => IInv'
<1> SUFFICES ASSUME IInv, [Next]_vars PROVE IInv'
  OBVIOUS
<1>1. ASSUME NEW g \in Guests, Changes(g) PROVE IInv'
  <2>1. OneEntry({g}) /\ OneJob(g) /\ HandInv(g)'
    BY <1>1 DEF Changes
  <2>2. /\ dir' \in [Keys -> Entries]
        /\ OwnBlockIDs => \A k \in Keys : GoodEntry(dir'[k])
        /\ \A k \in Keys : \A h \in Guests \ {g} : dir'[k].tmp[h] \in {dir[k].tmp[h], None}
    BY <2>1, EntriesNext
  <2>3. \A h \in Guests \ {g} : HandInv(h)'
    BY <2>1, <2>2, HandKept DEF OneJob
  <2> QED
    BY <2>1, <2>2, <2>3 DEF IInv, OneJob
<1>2. CASE OtherChanges
  <2>1. /\ dir' \in [Keys -> Entries]
        /\ OwnBlockIDs => \A k \in Keys : GoodEntry(dir'[k])
        /\ \A k \in Keys : \A h \in Guests : dir'[k].tmp[h] \in {dir[k].tmp[h], None}
    <3>1. {} \in SUBSET Guests /\ Guests \ {} = Guests
      OBVIOUS
    <3> QED
      BY <1>2, <3>1, EntriesNext DEF OtherChanges
  <2>2. job' = job
    BY <1>2 DEF OtherChanges
  <2>3. \A h \in Guests : HandInv(h)'
    BY <2>1, <2>2, HandKept
  <2> QED
    BY <2>1, <2>2, <2>3 DEF IInv
<1> QED
  BY <1>1, <1>2, NextChanges

(* Every entry is well formed, every job is at a step of an upload of a key  *)
(* that exists and has in its temporary file what it wrote or copied so far; *)
(* and where no two pieces share an id, a block is the piece that its id was *)
(* given to and an archive is somebody's whole upload.                       *)
THEOREM Invariance == Spec => []IInv
<1> QED
  BY InvInit, InvNext, PTL DEF Spec

(* Whatever was uploaded late, cut, copied while its blocks went, evicted or *)
(* torn by a crash: where no two pieces share a block id, the file that a    *)
(* job is served is one job's whole upload.                                  *)
THEOREM WholeArchives == Spec => []ArchiveIsWhole
<1>1. IInv => ArchiveIsWhole
  BY DEF IInv, ArchiveIsWhole, served, GoodEntry
<1> QED
  BY <1>1, Invariance, PTL

-----------------------------------------------------------------------------
(* The refinement. *)

published == [k \in Keys |-> IF readable(k) THEN dir[k].archive ELSE None]

LEMMA Shown == published = [k \in Keys |-> shown(dir[k])]
  BY DEF published, readable, final, shown

LEMMA ShownNext == published' = [k \in Keys |-> shown(dir'[k])]
  BY DEF published, readable, final, shown

LEMMA MapsInit == Init => Contract!Init
  BY DEF Init, Contract!Init, readable, final, NoDir, NoMeta

LEMMA MapsNext ==
  ASSUME IInv, [Next]_vars
  PROVE  [Contract!Next]_(published)
<1> DEFINE pub == [k \in Keys |-> shown(dir[k])]
           pubNext == [k \in Keys |-> shown(dir'[k])]
<1>1. CASE UNCHANGED dir
  BY <1>1, Shown, ShownNext
<1>2. ASSUME NEW S, NEW k \in Keys, NEW d \in Entries, update(k, d), Wrote(dir[k], d, S)
      PROVE  [Contract!Next]_(published)
  <2>1. pubNext = [pub EXCEPT ![k] = shown(d)]
    BY <1>2, Update
  <2>2. CASE shown(d) = shown(dir[k])
    BY <2>1, <2>2, Shown, ShownNext
  <2>3. CASE shown(d) = None
    <3>1. published' = [j \in Keys |-> IF j \in {k} THEN None ELSE published[j]]
      BY <2>1, <2>3, Shown, ShownNext
    <3>2. Contract!Evict({k})
      BY <3>1 DEF Contract!Evict, published
    <3> QED
      BY <3>2 DEF Contract!Next
  <2>4. CASE shown(d) # None /\ shown(dir[k]) = None
    <3>1. shown(d) \in publishable
      <4>1. shown(d) = d.archive /\ d.archive # None
        BY <2>4 DEF shown
      <4>2. OwnBlockIDs => d.archive \in uploads \cup {None}
        BY <1>2 DEF Wrote, IInv, GoodEntry
      <4>3. d.archive \in Seq(pieces)
        BY <1>2, <4>1 DEF Entries, Contents
      <4> QED
        BY <4>1, <4>2, <4>3 DEF publishable
    <3>2. published[k] = None /\ published' = [published EXCEPT ![k] = shown(d)]
      BY <2>1, <2>4, Shown, ShownNext
    <3>3. Contract!Publish(k, shown(d))
      BY <3>2 DEF Contract!Publish, published
    <3> QED
      BY <3>1, <3>3 DEF Contract!Next
  <2> QED
    BY <1>2, <2>2, <2>3, <2>4 DEF Kept, Wrote
<1>3. CASE Evicted
  <2>1. PICK gone \in SUBSET Keys : dir' = [k \in Keys |-> IF k \in gone THEN NoDir ELSE dir[k]]
    BY <1>3 DEF Evicted
  <2>2. shown(NoDir) = None
    BY DEF shown, NoDir, NoMeta
  <2>3. pubNext = [k \in Keys |-> IF k \in gone THEN None ELSE pub[k]]
    BY <2>1, <2>2
  <2> QED
    BY <2>3, Shown, ShownNext DEF Contract!Next, Contract!Evict, published
<1>4. \A S : OneEntry(S) => [Contract!Next]_(published)
  BY <1>1, <1>2 DEF OneEntry
<1> QED
  BY <1>3, <1>4, NextChanges DEF Changes, OtherChanges

(* An archive that jobs may read is published once, is one job's whole       *)
(* upload where no two pieces share a block id, and is never replaced: only  *)
(* an eviction, or the crash of one, takes it away.                          *)
THEOREM CacheImplementsContract == Spec => ContractSpec
<1>1. Init => Contract!Init
  BY MapsInit
<1>2. IInv /\ [Next]_vars => [Contract!Next]_(published)
  BY MapsNext
<1> QED
  BY <1>1, <1>2, Invariance, PTL DEF Spec, ContractSpec, Contract!Spec, published

-----------------------------------------------------------------------------
(* Action properties. *)

(* Only its own Finalize makes a job leave "finalize" and an entry final.    *)
LEMMA OnlyFinalize ==
  ASSUME IInv, [Next]_vars, NEW g \in Guests, NEW k \in Keys,
         at(g, "finalize"), job'[g] = Idle, ~final(k), final(k)'
  PROVE  Finalize(g)
<1>1. job[g] # Idle /\ dir'[k] # dir[k]
  BY DEF at, Idle, final
<1>2. CASE \E h \in Guests : UploadStep(h)
  <2>1. PICK h \in Guests : UploadStep(h)
    BY <1>2
  <2>2. h = g
    BY <1>1, <2>1, UploadChanges DEF Changes, OneJob
  <2> QED
    BY <2>1, <2>2
    DEF UploadStep, Put, writeReaderFile, finishPendingWrite, CommitBlocks, copyBlock, commit, at
<1>3. CASE \E h \in Guests : GuestCrash(h)
  BY <1>1, <1>3 DEF GuestCrash
<1>4. CASE \E h \in Guests : BodyCut(h)
  <2>1. PICK h \in Guests : BodyCut(h)
    BY <1>4
  <2>2. h = g
    BY <1>1, <2>1, BodyCutChanges DEF Changes, OneJob
  <2> QED
    BY <2>1, <2>2 DEF BodyCut, at
<1>5. CASE \E h \in Guests, j \in Keys : Reserve(h, j)
  <2>1. PICK h \in Guests, j \in Keys : Reserve(h, j)
    BY <1>5
  <2>2. h = g
    BY <1>1, <2>1, ReserveChanges DEF Changes, OneJob
  <2> QED
    BY <2>1, <2>2 DEF Reserve, at
<1>6. CASE \E h \in Guests, j \in Keys : Lookup(h, j) \/ CrashInReserve(h, j)
  BY <1>1, <1>6 DEF Lookup, CrashInReserve, removeTorn
<1>7. CASE (\E j \in Keys : Expire(j) \/ CrashInEvict(j)) \/ EvictLRU \/ UNCHANGED vars
  BY <1>1, <1>7 DEF Expire, CrashInEvict, removeTorn, EvictLRU, vars
<1> QED
  BY <1>2, <1>3, <1>4, <1>5, <1>6, <1>7 DEF Next

(* A job that declares a size which no other job's archive has publishes its *)
(* own whole upload, even if an earlier job's late upload replaced it.       *)
THEOREM OwnUploadPublished == Spec => PublishesOwnUpload
<1>1. IInv /\ [Next]_vars =>
        (OwnBlockIDs =>
           \A g \in Guests, k \in Keys :
             (ownSize(g) /\ at(g, "finalize") /\ job'[g] = Idle /\ ~final(k) /\ final(k)')
                => dir[k].archive \in whole(g))
  <2> SUFFICES ASSUME IInv, [Next]_vars, OwnBlockIDs, NEW g \in Guests, NEW k \in Keys, ownSize(g),
                      at(g, "finalize"), job'[g] = Idle, ~final(k), final(k)'
               PROVE  dir[k].archive \in whole(g)
    OBVIOUS
  <2>1. Finalize(g)
    BY OnlyFinalize
  <2>2. finalizable(g, job[g].key)
    BY <2>1 DEF Finalize, final
  <2>3. k = job[g].key
    BY <2>1, <2>2 DEF Finalize, update, final, IInv
  <2>4. dir[k].archive # None /\ sizeOf(dir[k].archive) = Size[g]
    BY <2>2, <2>3 DEF finalizable, ownSize
  <2>5. dir[k].archive \in uploads
    BY <2>4 DEF IInv, GoodEntry
  <2>6. PICK h \in Guests : dir[k].archive \in whole(h)
    BY <2>5 DEF uploads
  <2>7. h = g
    BY <2>4, <2>6 DEF ownSize
  <2> QED
    BY <2>6, <2>7
<1> QED
  BY <1>1, Invariance, PTL DEF Spec, PublishesOwnUpload

(* An upload changes the metadata of no pending entry. *)
LEMMA UploadKeepsMeta ==
  ASSUME IInv, NEW g \in Guests, UploadStep(g), NEW k \in Keys
  PROVE  dir'[k].meta = dir[k].meta \/ dir'[k].meta.final
<1>1. dir \in [Keys -> Entries]
  BY DEF IInv
<1>2. ASSUME NEW j \in Keys, NEW d, update(j, d), d.meta = dir[j].meta
      PROVE  dir'[k].meta = dir[k].meta
  BY <1>1, <1>2 DEF update
<1>3. ASSUME NEW step, NEW n, ~at(g, "idle"), beginPendingWrite(g, step, n)
      PROVE  dir'[k].meta = dir[k].meta
  <2>1. job[g].key \in Keys /\ dir[job[g].key] \in Entries
    BY <1>1, <1>3, JobOf
  <2>2. [dir[job[g].key] EXCEPT !.there = TRUE, !.tmp[g] = <<>>].meta = dir[job[g].key].meta
    BY <2>1 DEF Entries
  <2> QED
    BY <1>2, <1>3, <2>1, <2>2 DEF beginPendingWrite, fails
<1>4. CASE Put(g) \/ CommitBlocks(g)
  BY <1>3, <1>4 DEF Put, CommitBlocks, at
<1>5. CASE writeReaderFile(g)
  BY <1>1, <1>5 DEF writeReaderFile, fails, update, Entries
<1>6. CASE copyBlock(g)
  <2>1. /\ job[g].key \in Keys /\ dir[job[g].key] \in Entries
    BY <1>1, <1>6, JobOf DEF copyBlock, at
  <2>2. \A c : [dir[job[g].key] EXCEPT !.tmp[g] = c].meta = dir[job[g].key].meta
    BY <2>1 DEF Entries
  <2> QED
    BY <1>2, <1>6, <2>1, <2>2 DEF copyBlock, droppedTmp
<1>7. CASE finishPendingWrite(g) \/ commit(g)
  <2>1. job[g].key \in Keys /\ dir[job[g].key] \in Entries
    BY <1>1, <1>7, JobOf DEF finishPendingWrite, commit, at
  <2> DEFINE e == dir[job[g].key]
  <2>2. /\ [e EXCEPT !.tmp[g] = None].meta = e.meta
        /\ [[e EXCEPT !.tmp[g] = None] EXCEPT !.archive = e.tmp[g]].meta = e.meta
        /\ [[e EXCEPT !.tmp[g] = None] EXCEPT
              !.blocks[BlockID[g][job[g].n]] = Head(e.tmp[g])].meta = e.meta
        /\ [[e EXCEPT !.tmp[g] = None] EXCEPT !.archive = e.tmp[g], !.blocks = NoBlocks].meta = e.meta
    BY <2>1 DEF Entries
  <2> QED
    BY <1>2, <1>7, <2>1, <2>2 DEF finishPendingWrite, commit, droppedTmp
<1>8. CASE Finalize(g)
  <2>1. ASSUME NEW j \in Keys, update(j, [dir[j] EXCEPT !.meta.final = TRUE]), finalizable(g, j)
        PROVE  dir'[k].meta = dir[k].meta \/ dir'[k].meta.final
    <3>1. dir[j].meta \in [final : BOOLEAN, age : {"fresh", "stale"}, by : Guests]
      BY <1>1, <2>1 DEF finalizable, pending, Entries, Metas
    <3> QED
      BY <1>1, <2>1, <3>1 DEF update, Entries
  <2>2. job[g].key \in Keys
    BY <1>8, JobOf DEF Finalize, at
  <2> QED
    BY <1>8, <2>1, <2>2 DEF Finalize
<1> QED
  BY <1>4, <1>5, <1>6, <1>7, <1>8 DEF UploadStep

(* Where the clocks of the guests agree, store.go:89 is kept: no Reserve     *)
(* takes the directory of an upload that is not older than pendingTTL.       *)
THEOREM FreshUploads ==
  ASSUME Behind = {}
  PROVE  Spec => FreshUploadKept
<1>1. ASSUME IInv, [Next]_vars, NEW k \in Keys,
             pending(k), dir[k].meta.age = "fresh", pending(k)'
      PROVE  dir'[k].meta.by = dir[k].meta.by
  <2>1. dir \in [Keys -> Entries]
    BY <1>1 DEF IInv
  <2>2. CASE \E g \in Guests : UploadStep(g)
    BY <1>1, <2>2, UploadKeepsMeta DEF pending
  <2>3. CASE \E g \in Guests : GuestCrash(g) \/ BodyCut(g)
    BY <2>1, <2>3 DEF GuestCrash, BodyCut, droppedTmp, update, Entries
  <2>4. CASE \E g \in Guests, j \in Keys : Reserve(g, j)
    <3>1. PICK g \in Guests, j \in Keys : Reserve(g, j)
      BY <2>4
    <3>2. freshFor(g, k)
      BY <1>1 DEF freshFor
    <3>3. j # k
      BY <3>1, <3>2 DEF Reserve
    <3> QED
      BY <2>1, <3>1, <3>3 DEF Reserve, update
  <2>5. ASSUME NEW j \in Keys, removeTorn(j) PROVE dir'[k].meta.by = dir[k].meta.by
    <3>1. PICK d \in torn(j) : update(j, d)
      BY <2>5 DEF removeTorn
    <3>2. d.meta \in {dir[j].meta, NoMeta}
      <4>1. PICK m \in {dir[j].meta, NoMeta}, a \in {dir[j].archive, None},
                 gone \in SUBSET BlockIDs, cut \in SUBSET Guests : d = remains(j, m, a, gone, cut)
        BY <3>1 DEF torn
      <4> QED
        BY <2>1, <4>1 DEF Entries, remains
    <3> QED
      BY <1>1, <2>1, <3>1, <3>2 DEF update, pending
  <2>6. CASE \E g \in Guests, j \in Keys : Lookup(g, j) \/ CrashInReserve(g, j)
    BY <2>5, <2>6 DEF Lookup, CrashInReserve
  <2>7. CASE \E j \in Keys : Expire(j)
    <3>1. PICK j \in Keys : Expire(j)
      BY <2>7
    <3>2. dir[j].meta \in [final : BOOLEAN, age : {"fresh", "stale"}, by : Guests]
      BY <2>1, <3>1 DEF Expire, pending, Entries, Metas
    <3> QED
      BY <2>1, <3>1, <3>2 DEF Expire, update, Entries
  <2>8. CASE \E j \in Keys : CrashInEvict(j)
    BY <2>5, <2>8 DEF CrashInEvict
  <2>9. CASE EvictLRU
    <3>1. Evicted
      BY <2>9, EvictChanges
    <3> QED
      BY <1>1, <2>1, <3>1 DEF Evicted, NoDir, pending
  <2> QED
    BY <1>1, <2>2, <2>3, <2>4, <2>6, <2>7, <2>8, <2>9 DEF Next, vars
<1>2. IInv /\ [Next]_vars =>
        \A k \in Keys :
          (pending(k) /\ dir[k].meta.age = "fresh" /\ pending(k)')
             => dir'[k].meta.by = dir[k].meta.by
  BY <1>1
<1> QED
  BY <1>2, Invariance, PTL DEF Spec, FreshUploadKept
=============================================================================
