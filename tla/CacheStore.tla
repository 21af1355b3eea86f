----------------------------- MODULE CacheStore -----------------------------
(***************************************************************************)
(* The Actions cache: src/internal/actioncache.  Every guest runs its own  *)
(* `utsusemi cache-serve` on one host directory; store.lock makes the      *)
(* sections of store.go atomic, but bodies are copied and archives are     *)
(* served without it, a guest may be destroyed at any step, and the host   *)
(* evicts.  A guest slot runs one job after another; a job restores a key  *)
(* or saves one.                                                           *)
(*                                                                         *)
(* Data: a file's content is the sequence of pieces it was made from, a    *)
(* piece is <<job, i>>.  A clock is reduced to the two ages the code tells *)
(* apart.  A block's file is named for the id its client gave it alone     *)
(* (sanitizeBlockID hashes it): jobs that chose the same id share the file.*)
(***************************************************************************)
EXTENDS Integers, Sequences, FiniteSets, SequencesExt

CONSTANTS
  Keys, Guests, None,
  Pieces,        \* pieces of an upload sent as blocks
  Saves,         \* the keys the jobs of each guest save
  BlockIDs,
  BlockID,       \* the id each guest gives each of its pieces
  Bytes,         \* bytes of each piece of a guest
  Size,          \* the size each guest declares to Finalize; 0 is none
  RestoreKeys,   \* the keys each restore prefix of a job matches, in its order
  Behind,        \* <<g, h>>: the clock of g is behind that of h
  Faults,        \* of {"crash", "cut", "tornReserve", "tornEvict"}
  MaxFaults,     \* bound on them
  MaxLate        \* bound on uploads that outlive pendingTTL

ASSUME CacheAssumption ==
  /\ Pieces \in Nat \ {0}
  /\ Saves \in [Guests -> SUBSET Keys]
  /\ BlockID \in [Guests -> [1..Pieces -> BlockIDs]]
  /\ Bytes \in [Guests -> Nat \ {0}]
  /\ Size \in [Guests -> Nat]
  /\ Behind \subseteq Guests \X Guests
  /\ RestoreKeys \in Seq(SUBSET Keys)

VARIABLES
  dir,      \* each entry's directory
  used,     \* finalized keys, least recently used first (UsedAt)
  job,      \* each guest's job
  faults, late

vars == <<dir, used, job, faults, late>>

NoMeta == [final |-> FALSE]      \* meta.json missing or torn
Meta(final, age, by) == [final |-> final, age |-> age, by |-> by]

NoBlocks == [id \in BlockIDs |-> None]
NoDir == [there |-> FALSE, meta |-> NoMeta, archive |-> None,
          blocks |-> NoBlocks, tmp |-> [g \in Guests |-> None]]
NewDir(g) == [NoDir EXCEPT !.there = TRUE, !.meta = Meta(FALSE, "fresh", g)]

pieces == Guests \X (0..Pieces)

(* An upload in one request is one piece, the 0th.                          *)
whole(g) == {<<<<g, 0>>>>, [i \in 1..Pieces |-> <<g, i>>]}
uploads  == UNION {whole(g) : g \in Guests}

pieceSize(piece) == Bytes[piece[1]] * (IF piece[2] = 0 THEN Pieces ELSE 1)
sizeOf(content)  == FoldSeq(LAMBDA piece, n : n + pieceSize(piece), 0, content)

Idle == [at |-> "idle"]
Doing(step, k, n) == [at |-> step, key |-> k, n |-> n]

Init ==
  /\ dir = [k \in Keys |-> NoDir]
  /\ used = <<>>
  /\ job = [g \in Guests |-> Idle]
  /\ faults = 0 /\ late = 0

at(g, step) == job[g].at = step
goto(g, j)  == job' = [job EXCEPT ![g] = j]
update(k, d) == dir' = [dir EXCEPT ![k] = d]
quietly == UNCHANGED <<used, faults, late>>

pending(k)  == dir[k].meta # NoMeta /\ ~dir[k].meta.final
final(k)    == dir[k].meta.final
readable(k) == final(k) /\ dir[k].archive # None
hollow(k)   == final(k) /\ dir[k].archive = None

(* Mutant: no age is ever stale. *)
mutFreshFor(g, k) == pending(k)

-----------------------------------------------------------------------------
(* Reserve: a pending entry is kept while 0 <= age < pendingTTL, as the      *)
(* clock of the guest that asks has it.                                      *)
freshFor(g, k) ==
  /\ pending(k)
  /\ dir[k].meta.age = "fresh"
  /\ <<g, dir[k].meta.by>> \notin Behind

reserved(g, k) ==
  IF pending(k) THEN NewDir(g)
  ELSE [dir[k] EXCEPT !.there = TRUE, !.meta = Meta(FALSE, "fresh", g)]

(* handleCreate: `ok: false` leaves the job nothing to do.                   *)
Reserve(g, k) ==
  /\ at(g, "idle") /\ k \in Saves[g]
  /\ ~final(k) /\ ~freshFor(g, k)
  /\ update(k, reserved(g, k))
  /\ goto(g, Doing("put", k, 0))
  /\ quietly

(* beginPendingWrite, finishPendingWrite: the entry must still be pending.   *)
writable(k) == pending(k)

(* A client whose request fails gives up its save.                           *)
fails(g) == goto(g, Idle) /\ UNCHANGED dir

beginPendingWrite(g, step, n) ==
  LET k == job[g].key IN
  /\ IF writable(k)
     THEN /\ update(k, [dir[k] EXCEPT !.there = TRUE, !.tmp[g] = <<>>])
          /\ goto(g, Doing(step, k, n))
     ELSE fails(g)
  /\ quietly

(* PutSingleFrom is piece 0, PutBlockFrom the others in turn.                *)
Put(g) ==
  /\ at(g, "put")
  /\ \/ job[g].n = 0 /\ beginPendingWrite(g, "write", 0)
     \/ job[g].n < Pieces /\ beginPendingWrite(g, "write", job[g].n + 1)

(* writeReaderFile, without the lock: O_CREATE makes the temporary file      *)
(* again in whatever directory has the entry's name by now.                  *)
writeReaderFile(g) ==
  LET k == job[g].key IN
  /\ at(g, "write")
  /\ IF dir[k].there
     THEN /\ update(k, [dir[k] EXCEPT !.tmp[g] = <<<<g, job[g].n>>>>])
          /\ goto(g, Doing("finish", k, job[g].n))
     ELSE fails(g)
  /\ quietly

(* Mutant: the entry is not checked again after the copy. *)
mutRenamable(g, k) == dir[k].tmp[g] # None

(* Renaming the temporary file needs it to be there still.                   *)
renamable(g, k) == writable(k) /\ dir[k].tmp[g] # None

droppedTmp(g, k) == [dir[k] EXCEPT !.tmp[g] = None]

(* os.Rename replaces a block of the same id, whoever wrote it.              *)
finishPendingWrite(g) ==
  LET k == job[g].key
      n == job[g].n
  IN
  /\ at(g, "finish")
  /\ IF ~renamable(g, k)
     THEN update(k, droppedTmp(g, k)) /\ goto(g, Idle)
     ELSE IF n = 0
     THEN /\ update(k, [droppedTmp(g, k) EXCEPT !.archive = dir[k].tmp[g]])
          /\ goto(g, Doing("finalize", k, 0))
     ELSE /\ update(k, [droppedTmp(g, k) EXCEPT
                          !.blocks[BlockID[g][n]] = Head(dir[k].tmp[g])])
          /\ goto(g, Doing("put", k, n))
  /\ quietly

(* CommitBlocks: its first section checks what beginPendingWrite checks.     *)
CommitBlocks(g) ==
  /\ at(g, "put") /\ job[g].n = Pieces
  /\ beginPendingWrite(g, "copy", 0)

(* Mutant: a block that is missing is left out of the copy. *)
mutCopyBlock(g) ==
  LET k     == job[g].key
      n     == job[g].n + 1
      block == dir[k].blocks[BlockID[g][n]]
  IN
  /\ at(g, "copy") /\ n <= Pieces
  /\ goto(g, Doing("copy", k, n))
  /\ IF dir[k].tmp[g] # None /\ block # None
     THEN update(k, [dir[k] EXCEPT !.tmp[g] = Append(@, block)])
     ELSE UNCHANGED dir
  /\ quietly

(* One block is opened by its name and copied, without the lock.  (If the    *)
(* temporary file is gone by now, its rename will fail: the job gives up.)   *)
copyBlock(g) ==
  LET k     == job[g].key
      n     == job[g].n + 1
      block == dir[k].blocks[BlockID[g][n]]
  IN
  /\ at(g, "copy") /\ n <= Pieces
  /\ IF dir[k].tmp[g] # None /\ block # None
     THEN /\ update(k, [dir[k] EXCEPT !.tmp[g] = Append(@, block)])
          /\ goto(g, Doing("copy", k, n))
     ELSE update(k, droppedTmp(g, k)) /\ goto(g, Idle)
  /\ quietly

commit(g) ==
  LET k == job[g].key IN
  /\ at(g, "copy") /\ job[g].n = Pieces
  /\ IF renamable(g, k)
     THEN /\ update(k, [droppedTmp(g, k) EXCEPT
                          !.archive = dir[k].tmp[g], !.blocks = NoBlocks])
          /\ goto(g, Doing("finalize", k, 0))
     ELSE update(k, droppedTmp(g, k)) /\ goto(g, Idle)
  /\ quietly

(* Mutant: any archive will do. *)
mutFinalizable(g, k) == pending(k) /\ dir[k].archive # None

(* Finalize: the archive must have the size the job declares, if it does.    *)
finalizable(g, k) ==
  /\ pending(k)
  /\ dir[k].archive # None
  /\ Size[g] > 0 => sizeOf(dir[k].archive) = Size[g]

touch(k) == Append(Remove(used, k), k)

Finalize(g) ==
  LET k == job[g].key IN
  /\ at(g, "finalize")
  /\ IF finalizable(g, k)
     THEN update(k, [dir[k] EXCEPT !.meta.final = TRUE]) /\ used' = touch(k)
     ELSE UNCHANGED <<dir, used>>
  /\ goto(g, Idle)
  /\ UNCHANGED <<faults, late>>

-----------------------------------------------------------------------------
(* Lookup: the key itself, else the most recently used match of the first    *)
(* restore prefix that has one.                                              *)
recent(wanted) ==
  IF \E k \in wanted : final(k)
  THEN {Last(SelectSeq(used, LAMBDA k : k \in wanted))}
  ELSE {}

hit(primary) ==
  LET found == {i \in 1..Len(RestoreKeys) : recent(RestoreKeys[i]) # {}} IN
  CASE final(primary) -> {primary}
    [] ~final(primary) /\ found # {} ->
         recent(RestoreKeys[CHOOSE i \in found : \A j \in found : i <= j])
    [] OTHER -> {}

(* handleGet: the job is given the URL of what was found, marked as used.    *)
Lookup(g, primary) ==
  /\ at(g, "idle")
  /\ \E k \in hit(primary) : used' = touch(k)
  /\ UNCHANGED <<dir, job, faults, late>>

(* GET of handleBlob, at any later time and without the lock: whatever       *)
(* archive is at the path by now, or 404.                                    *)
served(k) == dir[k].archive

-----------------------------------------------------------------------------
(* EvictLRU, on the host: stale pendings by the host's clock, then oldest    *)
(* finals until enough is free, here any number of them.                     *)
purgeStalePending == {k \in Keys : pending(k) /\ dir[k].meta.age = "stale"}

EvictLRU ==
  \E n \in 0..Len(used) :
    LET gone == purgeStalePending \cup ToSet(SubSeq(used, 1, n)) IN
    /\ gone # {}
    /\ dir' = [k \in Keys |-> IF k \in gone THEN NoDir ELSE dir[k]]
    /\ used' = SubSeq(used, n + 1, Len(used))
    /\ UNCHANGED <<job, faults, late>>

-----------------------------------------------------------------------------
busy(k) == \E g \in Guests : job[g].at # "idle" /\ job[g].key = k

(* pendingTTL passes.                                                        *)
Expire(k) ==
  /\ pending(k) /\ dir[k].meta.age = "fresh"
  /\ busy(k) => late < MaxLate
  /\ late' = IF busy(k) THEN late + 1 ELSE late
  /\ update(k, [dir[k] EXCEPT !.meta.age = "stale"])
  /\ UNCHANGED <<used, job, faults>>

fault(f) == f \in Faults /\ faults < MaxFaults /\ faults' = faults + 1

(* The guest's VM is destroyed; its next job runs in a new one.              *)
GuestCrash(g) ==
  /\ fault("crash")
  /\ ~at(g, "idle")
  /\ goto(g, Idle)
  /\ UNCHANGED <<dir, used, late>>

(* The body ends early, or is beyond maxUploadBytes.                         *)
BodyCut(g) ==
  /\ fault("cut")
  /\ at(g, "write")
  /\ LET k == job[g].key IN update(k, droppedTmp(g, k))
  /\ goto(g, Idle)
  /\ UNCHANGED <<used, late>>

(* What RemoveAll of an entry may leave when its process dies in it.         *)
remains(k, meta, archive, gone, cut) ==
  [dir[k] EXCEPT !.meta = meta, !.archive = archive,
                 !.blocks = [id \in BlockIDs |-> IF id \in gone THEN None ELSE dir[k].blocks[id]],
                 !.tmp = [g \in Guests |-> IF g \in cut THEN None ELSE dir[k].tmp[g]]]

torn(k) ==
  {remains(k, meta, archive, gone, cut) :
     meta \in {dir[k].meta, NoMeta}, archive \in {dir[k].archive, None},
     gone \in SUBSET BlockIDs, cut \in SUBSET Guests}

removeTorn(k) ==
  /\ dir[k].there
  /\ \E d \in torn(k) :
       /\ update(k, d)
       /\ used' = IF d.meta.final THEN used ELSE Remove(used, k)
  /\ UNCHANGED <<job, late>>

CrashInReserve(g, k) ==
  /\ at(g, "idle") /\ k \in Saves[g]
  /\ pending(k) /\ ~freshFor(g, k)
  /\ fault("tornReserve")
  /\ removeTorn(k)

CrashInEvict(k) ==
  /\ final(k) \/ k \in purgeStalePending
  /\ fault("tornEvict")
  /\ removeTorn(k)

UploadStep(g) ==
  \/ Put(g) \/ writeReaderFile(g) \/ finishPendingWrite(g)
  \/ CommitBlocks(g) \/ copyBlock(g) \/ commit(g) \/ Finalize(g)

Next ==
  \/ \E g \in Guests : UploadStep(g) \/ GuestCrash(g) \/ BodyCut(g)
  \/ \E g \in Guests, k \in Keys : Reserve(g, k) \/ Lookup(g, k) \/ CrashInReserve(g, k)
  \/ \E k \in Keys : Expire(k) \/ CrashInEvict(k)
  \/ EvictLRU

Spec == Init /\ [][Next]_vars

(* cache-serve answers, clocks go on, and jobs that save a key keep coming.  *)
FairSpec ==
  /\ Spec
  /\ \A g \in Guests : WF_vars(UploadStep(g))
  /\ \A k \in Keys : WF_vars(Expire(k)) /\ SF_vars(\E g \in Guests : Reserve(g, k))

-----------------------------------------------------------------------------
(* Type correctness, and that the order of use lists every final entry once,  *)
(* and no other (store.go:477 picks the oldest of them).                      *)
TypeOK ==
  /\ \A k \in Keys :
       /\ dir[k].there \in BOOLEAN
       /\ dir[k].meta = NoMeta \/ dir[k].meta \in
            [final : BOOLEAN, age : {"fresh", "stale"}, by : Guests]
       /\ dir[k].archive = None \/ dir[k].archive \in Seq(pieces)
       /\ dir[k].blocks \in [BlockIDs -> pieces \cup {None}]
       /\ \A g \in Guests : dir[k].tmp[g] = None \/ dir[k].tmp[g] \in Seq(pieces)
  /\ ToSet(used) = {k \in Keys : final(k)}
  /\ IsInjective(used)

(* No two pieces have one id.  The client sees to it (it starts the ids of   *)
(* an upload with random characters); the store does not.                    *)
OwnBlockIDs ==
  \A g, h \in Guests : \A i, j \in 1..Pieces :
    BlockID[g][i] = BlockID[h][j] => g = h /\ i = j

(* An archive is served with neither the lock nor a look at its meta         *)
(* (server.go, GET of handleBlob), and CommitBlocks collects it from files   *)
(* that are opened one by one, by name, without the lock.  Where jobs do not *)
(* share block ids the file of an entry is at every moment one job's whole   *)
(* upload: late uploads, blocks that vanish under CommitBlocks, evictions    *)
(* and crashes never leave a mixed or a cut one.                             *)
ArchiveIsWhole ==
  OwnBlockIDs => \A k \in Keys : served(k) # None => served(k) \in uploads

(* Publication as jobs see it: of whole uploads, or, where jobs share block   *)
(* ids, of whatever CommitBlocks collected.                                  *)
publishable == IF OwnBlockIDs THEN uploads ELSE Seq(pieces)

Contract == INSTANCE CacheContract WITH
  Uploads <- publishable,
  published <- [k \in Keys |-> IF readable(k) THEN dir[k].archive ELSE None]

ContractSpec == Contract!Spec

(* The size g declares is the size of no other job's archive.                *)
ownSize(g) ==
  /\ Size[g] > 0
  /\ \A h \in Guests \ {g} : \A archive \in whole(h) : sizeOf(archive) # Size[g]

(* A late upload of an earlier job may replace the archive of an entry       *)
(* between its new job's commit and Finalize.  A job that declares a size of *)
(* its own publishes its own upload, all of it, all the same.                *)
PublishesOwnUpload ==
  [][OwnBlockIDs =>
       \A g \in Guests, k \in Keys :
         (ownSize(g) /\ at(g, "finalize") /\ job'[g] = Idle /\ ~final(k) /\ final(k)')
            => dir[k].archive \in whole(g)]_vars

(* store.go:26 "abandoned Create (upload never finalized) must not lock the  *)
(* key forever": while jobs keep saving it, a key is readable again and      *)
(* again, whatever job was destroyed and wherever it was.  What does lock    *)
(* it is an eviction that died between an archive and its final meta.        *)
KeyComesBack == \A k \in Keys : []<>(readable(k) \/ hollow(k))

(* store.go:89 "Stale pending entries (older than pendingTTL) are            *)
(* reclaimed": one that is not older keeps its directory.                    *)
FreshUploadKept ==
  [][\A k \in Keys :
       (pending(k) /\ dir[k].meta.age = "fresh" /\ pending(k)')
          => dir'[k].meta.by = dir[k].meta.by]_vars
=============================================================================
