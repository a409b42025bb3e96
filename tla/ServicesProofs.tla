--------------------------- MODULE ServicesProofs ---------------------------
(***************************************************************************)
(* Proofs about Services: the file storage implements ObjectStore, access  *)
(* stays closed, the costs of AI calls stay true and get_message returns   *)
(* the right mail, for any number of objects, requests, prices, calls and  *)
(* faults.  What a part keeps invariant is proved of its own steps; a step *)
(* of another part leaves its variables alone.                             *)
(***************************************************************************)
EXTENDS Services, TLAPS

-----------------------------------------------------------------------------
(* The file storage.                                                       *)

-----------------------------------------------------------------------------
(* Directories.                                                            *)

LEMMA DirFacts ==
    /\ Storage!Nothing \in Storage!Dir
    /\ \A d \in Storage!Dir : /\ d.at \in Storage!Places /\ d.has \subseteq Storage!Entries
                      /\ d = [at |-> d.at, has |-> d.has]
    /\ \A at \in Storage!Places, has \in SUBSET Storage!Entries :
          /\ [at |-> at, has |-> has] \in Storage!Dir
          /\ [at |-> at, has |-> has].at = at
          /\ [at |-> at, has |-> has].has = has
    /\ Storage!Nothing.at = "nowhere" /\ Storage!Nothing.has = {}
BY DEF Storage!Nothing, Storage!Dir, Storage!Places, Storage!Entries

\* What the steps of _store and delete do to a directory.
LEMMA ChangedDirs ==
    ASSUME NEW d \in Storage!Dir
    PROVE  /\ \A e \in Storage!Entries : /\ Storage!AddEntry(e, d) \in Storage!Dir
                                 /\ Storage!AddEntry(e, d).at = d.at
                                 /\ Storage!AddEntry(e, d).has = d.has \cup {e}
                                 /\ Storage!RemoveEntry(e, d) \in Storage!Dir
                                 /\ ~Storage!Whole(Storage!RemoveEntry(e, d))
           /\ Storage!Put("area", d) \in Storage!Dir
           /\ d.at # "nowhere" => /\ Storage!Put("area", d).at = "area"
                                  /\ Storage!Put("area", d).has = d.has
BY DEF Storage!Dir, Storage!Places, Storage!Entries, Storage!AddEntry, Storage!RemoveEntry,
   Storage!Put, Storage!Whole

LEMMA OpenReadIsWhole ==
    ASSUME Storage!TypeOK, NEW o \in Objects
    PROVE  Storage!OpenRead(o) <=> Storage!Whole(dir[o])
<1>1. dir[o].has \subseteq Storage!Entries
  BY DirFacts DEF Storage!TypeOK
<1> QED BY <1>1 DEF Storage!OpenRead, Storage!Metadata, Storage!Whole, Storage!Entries

-----------------------------------------------------------------------------
(* The invariant.                                                          *)

LEMMA StorageInvInit == Storage!Assumption /\ Storage!Init => Storage!IInv
<1> SUFFICES ASSUME Storage!Assumption, Storage!Init PROVE Storage!IInv
  OBVIOUS
<1>1. Storage!TypeOK
  BY DirFacts DEF Storage!Init, Storage!TypeOK, Storage!Assumption
<1>2. \A o \in Objects : Storage!Consistent(o)
  BY DirFacts DEF Storage!Init, Storage!Consistent, Storage!Whole
<1> QED BY <1>1, <1>2 DEF Storage!IInv

\* An action about one object leaves the others as they are.
LEMMA OneObject ==
    ASSUME Storage!IInv, Storage!TypeOK', NEW o \in Objects, Storage!Consistent(o)',
           \A p \in Objects : p # o => /\ dir'[p] = dir[p] /\ disk'[p] = disk[p]
                                       /\ store'[p] = store[p] /\ delete'[p] = delete[p]
                                       /\ p \in owed' <=> p \in owed
    PROVE  Storage!IInv'
<1>1. \A p \in Objects : p # o => Storage!Consistent(p)'
  BY DEF Storage!IInv, Storage!Consistent
<1> QED BY <1>1 DEF Storage!IInv

LEMMA StoreStep ==
    ASSUME Storage!IInv, NEW o \in Objects,
           \/ Storage!Stage(o) \/ Storage!Describe(o) \/ Storage!SyncStaging(o)
           \/ Storage!Publish(o) \/ Storage!Return(o) \/ Storage!Refuse(o)
    PROVE  Storage!IInv'
<1>t. /\ Storage!TypeOK /\ Storage!Consistent(o)
      /\ dir[o] \in Storage!Dir /\ disk[o] \subseteq Storage!Dir
  BY DEF Storage!IInv, Storage!TypeOK
<1>1. CASE Storage!Stage(o)
  <2> DEFINE new == [at |-> "staging", has |-> {"payload"}]
             some == {Storage!Nothing} \cup [at : {"staging"}, has : {{}, {"payload"}}]
  <2>1. /\ store[o] = "idle" /\ store' = [store EXCEPT ![o] = "staged"]
        /\ dir' = [dir EXCEPT ![o] = new] /\ disk' = [disk EXCEPT ![o] = some]
        /\ UNCHANGED <<delete, owed, faults>>
    BY <1>1 DEF Storage!Stage
  <2>2. /\ new \in Storage!Dir /\ new.at = "staging" /\ new.has = {"payload"}
        /\ some \subseteq Storage!Dir /\ \A d \in some : d.at # "area"
    BY DirFacts DEF Storage!Dir, Storage!Places, Storage!Entries
  <2> HIDE DEF new, some
  <2>3. Storage!TypeOK'
    BY <1>t, <2>1, <2>2 DEF Storage!TypeOK
  <2>4. Storage!Consistent(o)'
    BY <1>t, <2>1, <2>2 DEF Storage!TypeOK, Storage!Consistent, Storage!Whole
  <2> QED BY <1>t, <2>1, <2>3, <2>4, OneObject DEF Storage!TypeOK
<1>2. CASE Storage!Describe(o)
  <2> DEFINE F(d) == IF d.at = "staging" THEN Storage!AddEntry("metadata", d) ELSE d
             some == disk[o] \cup {F(d) : d \in disk[o]}
  <2>1. /\ store[o] = "staged" /\ store' = [store EXCEPT ![o] = "described"]
        /\ dir' = [dir EXCEPT ![o] = F(dir[o])]
        /\ disk' = [disk EXCEPT ![o] = some]
        /\ UNCHANGED <<delete, owed, faults>>
    BY <1>2 DEF Storage!Describe, Storage!Change
  <2>2. \A d \in Storage!Dir : F(d) \in Storage!Dir /\ F(d).at = d.at
    BY ChangedDirs DEF Storage!Entries
  <2>3. F(dir[o]).at = "staging" /\ F(dir[o]).has = Storage!Entries
    BY <1>t, <2>1, ChangedDirs DEF Storage!Consistent, Storage!Entries
  <2>4. some \subseteq Storage!Dir /\ \A d \in some : d.at # "area"
    BY <1>t, <2>1, <2>2 DEF Storage!Consistent
  <2> HIDE DEF F, some
  <2>5. Storage!TypeOK'
    BY <1>t, <2>1, <2>2, <2>4 DEF Storage!TypeOK
  <2>6. Storage!Consistent(o)'
    BY <1>t, <2>1, <2>3, <2>4 DEF Storage!TypeOK, Storage!Consistent, Storage!Whole
  <2> QED BY <1>t, <2>1, <2>5, <2>6, OneObject DEF Storage!TypeOK
<1>3. CASE Storage!SyncStaging(o)
  <2>1. Storage!TypeOK'
    BY <1>t, <1>3, DirFacts DEF Storage!SyncStaging, Storage!TypeOK
  <2>2. Storage!Consistent(o)'
    BY <1>t, <1>3, DirFacts DEF Storage!SyncStaging, Storage!TypeOK, Storage!Consistent,
       Storage!Whole
  <2> QED BY <1>t, <1>3, <2>1, <2>2, OneObject DEF Storage!SyncStaging, Storage!TypeOK
<1>4. CASE Storage!Publish(o)
  <2> DEFINE some == disk[o] \cup {Storage!Put("area", d) : d \in disk[o]}
             new == Storage!Put("area", dir[o])
  <2>1. /\ store[o] = "synced" /\ store' = [store EXCEPT ![o] = "published"]
        /\ dir' = [dir EXCEPT ![o] = new]
        /\ disk' = [disk EXCEPT ![o] = some]
        /\ UNCHANGED <<delete, owed, faults>>
    BY <1>4 DEF Storage!Publish, Storage!Change
  <2>2. new \in Storage!Dir /\ Storage!Whole(new)
    BY <1>t, <2>1, ChangedDirs DEF Storage!Consistent, Storage!Whole
  <2>3. some \subseteq Storage!Dir
    BY <1>t, ChangedDirs
  <2> HIDE DEF some, new
  <2>4. Storage!TypeOK'
    BY <1>t, <2>1, <2>2, <2>3 DEF Storage!TypeOK
  <2>5. Storage!Consistent(o)'
    BY <1>t, <2>1, <2>2 DEF Storage!TypeOK, Storage!Consistent
  <2> QED BY <1>t, <2>1, <2>4, <2>5, OneObject DEF Storage!TypeOK
<1>5. CASE Storage!Return(o)
  <2>1. Storage!TypeOK'
    BY <1>t, <1>5 DEF Storage!Return, Storage!Synced, Storage!TypeOK
  <2>2. Storage!Consistent(o)'
    BY <1>t, <1>5 DEF Storage!Return, Storage!Synced, Storage!TypeOK, Storage!Consistent
  <2> QED BY <1>t, <1>5, <2>1, <2>2, OneObject DEF Storage!Return, Storage!Synced,
         Storage!TypeOK
<1>6. CASE Storage!Refuse(o) /\ dir[o].at = "staging"
  <2>1. /\ store[o] \in {"staged", "described", "synced", "published"}
        /\ store' = [store EXCEPT ![o] = "done"]
        /\ dir' = [dir EXCEPT ![o] = Storage!Nothing]
        /\ disk' = [disk EXCEPT ![o] = @ \cup {Storage!Nothing : d \in @}]
        /\ UNCHANGED <<delete, owed, faults>>
    BY <1>6 DEF Storage!Refuse, Storage!Change
  <2>2. Storage!TypeOK'
    BY <1>t, <2>1, DirFacts DEF Storage!TypeOK
  <2>3. \A d \in disk[o] : d.at # "area"
    BY <1>t, <1>6, <2>1 DEF Storage!Consistent, Storage!Whole
  <2>4. Storage!Consistent(o)'
    BY <1>t, <2>1, <2>3, DirFacts DEF Storage!TypeOK, Storage!Consistent, Storage!Whole
  <2> QED BY <1>t, <2>1, <2>2, <2>4, OneObject DEF Storage!TypeOK
<1>7. CASE Storage!Refuse(o) /\ dir[o].at # "staging"
  <2>1. Storage!TypeOK'
    BY <1>t, <1>7 DEF Storage!Refuse, Storage!TypeOK
  <2>2. Storage!Consistent(o)'
    BY <1>t, <1>7 DEF Storage!Refuse, Storage!TypeOK, Storage!Consistent
  <2> QED BY <1>t, <1>7, <2>1, <2>2, OneObject DEF Storage!Refuse, Storage!TypeOK
<1> QED BY <1>1, <1>2, <1>3, <1>4, <1>5, <1>6, <1>7

LEMMA DeleteStep ==
    ASSUME Storage!IInv, NEW o \in Objects,
           \/ Storage!Delete(o) \/ Storage!UnlinkPayload(o)
           \/ Storage!UnlinkMetadata(o) \/ Storage!RemoveDirectory(o)
           \/ Storage!SyncRemoval(o)
    PROVE  Storage!IInv'
<1>t. /\ Storage!TypeOK /\ Storage!Consistent(o)
      /\ dir[o] \in Storage!Dir /\ disk[o] \subseteq Storage!Dir
  BY DEF Storage!IInv, Storage!TypeOK
<1>1. CASE Storage!Delete(o)
  <2>1. Storage!TypeOK'
    BY <1>t, <1>1 DEF Storage!Delete, Storage!TypeOK
  <2>2. store[o] = "done"
    BY <1>t, <1>1 DEF Storage!Delete, Storage!Consistent
  <2>3. Storage!Consistent(o)'
    BY <1>t, <1>1, <2>2 DEF Storage!Delete, Storage!TypeOK, Storage!Consistent
  <2> QED BY <1>t, <1>1, <2>1, <2>3, OneObject DEF Storage!Delete, Storage!TypeOK
<1>2. ASSUME NEW step \in {"metadata", "directory", "sync", "ended"},
             delete[o] # "none", delete' = [delete EXCEPT ![o] = step],
             dir' \in [Objects -> Storage!Dir], disk' \in [Objects -> SUBSET Storage!Dir],
             \A p \in Objects : p # o => dir'[p] = dir[p] /\ disk'[p] = disk[p],
             UNCHANGED <<store, owed, faults>>
      PROVE  Storage!IInv'
  <2>1. Storage!TypeOK'
    BY <1>t, <1>2 DEF Storage!TypeOK
  <2>2. Storage!Consistent(o)'
    BY <1>t, <1>2 DEF Storage!TypeOK, Storage!Consistent
  <2> QED BY <1>t, <1>2, <2>1, <2>2, OneObject DEF Storage!TypeOK
<1>3. CASE Storage!UnlinkPayload(o)
  <2>1. /\ dir' = [dir EXCEPT ![o] = Storage!RemoveEntry("payload", @)]
        /\ disk' = [disk EXCEPT ![o] = @ \cup {Storage!RemoveEntry("payload", d) : d \in @}]
    BY <1>3 DEF Storage!UnlinkPayload, Storage!Change
  <2>2. \A d \in Storage!Dir : Storage!RemoveEntry("payload", d) \in Storage!Dir
    BY ChangedDirs DEF Storage!Entries
  <2> QED BY <1>t, <1>2, <1>3, <2>1, <2>2 DEF Storage!UnlinkPayload, Storage!TypeOK
<1>4. CASE Storage!UnlinkMetadata(o)
  <2>1. /\ dir' = [dir EXCEPT ![o] = Storage!RemoveEntry("metadata", @)]
        /\ disk' = [disk EXCEPT ![o] = @ \cup {Storage!RemoveEntry("metadata", d) : d \in @}]
    BY <1>4 DEF Storage!UnlinkMetadata, Storage!Change
  <2>2. \A d \in Storage!Dir : Storage!RemoveEntry("metadata", d) \in Storage!Dir
    BY ChangedDirs DEF Storage!Entries
  <2> QED BY <1>t, <1>2, <1>4, <2>1, <2>2 DEF Storage!UnlinkMetadata, Storage!TypeOK
<1>5. CASE Storage!RemoveDirectory(o)
  <2> DEFINE F(d) == IF d.has = {} THEN Storage!Nothing ELSE d
  <2>1. /\ dir' = [dir EXCEPT ![o] = F(dir[o])]
        /\ disk' = [disk EXCEPT ![o] = disk[o] \cup {F(d) : d \in disk[o]}]
    BY <1>5 DEF Storage!RemoveDirectory, Storage!Change
  <2>2. \A d \in Storage!Dir : F(d) \in Storage!Dir
    BY DirFacts
  <2> HIDE DEF F
  <2> QED BY <1>t, <1>2, <1>5, <2>1, <2>2 DEF Storage!RemoveDirectory, Storage!TypeOK
<1>6. CASE Storage!SyncRemoval(o)
  BY <1>t, <1>2, <1>6 DEF Storage!SyncRemoval, Storage!Synced, Storage!TypeOK
<1> QED BY <1>1, <1>3, <1>4, <1>5, <1>6

LEMMA FaultStep ==
    ASSUME Storage!Assumption, Storage!IInv,
           Storage!LosePower \/ \E o \in Objects : Storage!Die(o)
    PROVE  Storage!IInv'
<1>t. /\ Storage!TypeOK
      /\ \A o \in Objects : Storage!Consistent(o) /\ dir[o] \in Storage!Dir /\ disk[o] \subseteq Storage!Dir
  BY DEF Storage!IInv, Storage!TypeOK
<1>f. faults' \in 0..MaxFaults
  BY <1>t DEF Storage!LosePower, Storage!Die, Storage!Fault, Storage!TypeOK, Storage!Assumption
<1>1. ASSUME NEW o \in Objects, Storage!Die(o) PROVE Storage!IInv'
  <2>1. Storage!TypeOK'
    BY <1>t, <1>f, <1>1 DEF Storage!Die, Storage!TypeOK
  <2>2. Storage!Consistent(o)'
    BY <1>t, <1>1 DEF Storage!Die, Storage!TypeOK, Storage!Consistent
  <2> QED BY <1>t, <1>1, <2>1, <2>2, OneObject DEF Storage!Die, Storage!TypeOK
<1>2. CASE Storage!LosePower
  <2>1. /\ dir' \in [Objects -> Storage!Dir] /\ \A o \in Objects : dir'[o] \in disk[o]
        /\ disk' = [o \in Objects |-> {dir'[o]}]
        /\ store' = [o \in Objects |-> IF store[o] = "idle" THEN "idle" ELSE "done"]
        /\ delete' = [o \in Objects |-> IF delete[o] = "none" THEN "none" ELSE "ended"]
        /\ UNCHANGED owed
    BY <1>t, <1>2 DEF Storage!LosePower
  <2>2. Storage!TypeOK'
    BY <1>t, <1>f, <2>1 DEF Storage!TypeOK
  <2>3. ASSUME NEW o \in Objects PROVE Storage!Consistent(o)'
    BY <1>t, <2>1 DEF Storage!Consistent
  <2> QED BY <2>2, <2>3 DEF Storage!IInv
<1> QED BY <1>1, <1>2

LEMMA StorageInvStep ==
    Storage!Assumption /\ Storage!IInv /\ [Storage!Next]_Storage!vars => Storage!IInv'
<1> SUFFICES ASSUME Storage!Assumption, Storage!IInv, [Storage!Next]_Storage!vars
             PROVE  Storage!IInv'
  OBVIOUS
<1>1. CASE UNCHANGED Storage!vars
  BY <1>1 DEF Storage!vars, Storage!IInv, Storage!TypeOK, Storage!Consistent
<1> QED BY <1>1, StoreStep, DeleteStep, FaultStep DEF Storage!Next

-----------------------------------------------------------------------------
(* The refinement.                                                         *)

\* Objects go only if no key of them is owed, and come back only if they were
\* being deleted.
LEMMA LoseRefines ==
    ASSUME Storage!Readable' \subseteq Storage!Readable \cup Storage!Deleted,
           owed \subseteq Storage!Readable',
           owed' = owed, Storage!Deleted' = Storage!Deleted
    PROVE  Storage!Abstract!Next
<1> DEFINE gone == Storage!Readable \ Storage!Readable'
           back == Storage!Readable' \ Storage!Readable
<1>1. gone \in SUBSET Objects /\ back \in SUBSET Objects
  BY DEF Storage!Readable
<1>2. Storage!Abstract!Lose(gone, back)
  BY DEF Storage!Abstract!Lose
<1> QED BY <1>1, <1>2 DEF Storage!Abstract!Next

LEMMA StorageRefines ==
    Storage!Assumption /\ Storage!IInv /\ Storage!IInv' /\ [Storage!Next]_Storage!vars
       => [Storage!Abstract!Next]_(Storage!Abstract!vars)
<1> SUFFICES ASSUME Storage!IInv, Storage!IInv', [Storage!Next]_Storage!vars
             PROVE  [Storage!Abstract!Next]_(Storage!Abstract!vars)
  OBVIOUS
<1>t. Storage!TypeOK /\ Storage!TypeOK'
  BY DEF Storage!IInv
<1>r. /\ \A o \in Objects : o \in Storage!Readable <=> Storage!Whole(dir[o])
      /\ \A o \in Objects : o \in Storage!Readable' <=> Storage!Whole(dir'[o])
      /\ Storage!Readable \subseteq Objects /\ Storage!Readable' \subseteq Objects
  <2>1. \A o \in Objects : Storage!OpenRead(o) <=> Storage!Whole(dir[o])
    BY <1>t, OpenReadIsWhole
  <2>2. \A o \in Objects : Storage!OpenRead(o)' <=> Storage!Whole(dir[o])'
    <3>1. \A o \in Objects : dir'[o].has \subseteq Storage!Entries
      BY <1>t, DirFacts DEF Storage!TypeOK
    <3> QED BY <3>1 DEF Storage!OpenRead, Storage!Metadata, Storage!Whole, Storage!Entries
  <2> QED BY <2>1, <2>2 DEF Storage!Readable, Storage!Whole
<1>d. /\ \A o \in Objects : o \in Storage!Deleted <=> delete[o] # "none"
      /\ \A o \in Objects : o \in Storage!Deleted' <=> delete'[o] # "none"
      /\ Storage!Deleted \subseteq Objects /\ Storage!Deleted' \subseteq Objects
  BY DEF Storage!Deleted
<1>o. /\ owed \subseteq Storage!Readable /\ owed' \subseteq Storage!Readable'
      /\ owed \cap Storage!Deleted = {}
  BY <1>r, <1>d, <1>t DEF Storage!IInv, Storage!Consistent, Storage!TypeOK, Storage!Whole
<1>1. ASSUME Storage!Readable' \subseteq Storage!Readable, owed' = owed,
             Storage!Deleted' = Storage!Deleted
      PROVE  Storage!Abstract!Next
  BY <1>1, <1>o, LoseRefines
<1>2. CASE UNCHANGED Storage!vars
  BY <1>2 DEF Storage!vars, Storage!Abstract!vars, Storage!Readable, Storage!Deleted,
     Storage!OpenRead, Storage!Metadata
<1>3. ASSUME NEW o \in Objects, Storage!Stage(o) \/ Storage!Describe(o) \/ Storage!SyncStaging(o)
      PROVE  Storage!Abstract!Next
  <2>1. \A p \in Objects : p # o => dir'[p] = dir[p]
    BY <1>3, <1>t DEF Storage!Stage, Storage!Describe, Storage!SyncStaging, Storage!Change,
       Storage!TypeOK
  <2>2. store'[o] \in {"staged", "described", "synced"}
    BY <1>3, <1>t DEF Storage!Stage, Storage!Describe, Storage!SyncStaging, Storage!TypeOK
  <2>3. ~Storage!Whole(dir'[o])
    BY <2>2 DEF Storage!IInv, Storage!Consistent, Storage!Whole
  <2>4. UNCHANGED <<delete, owed>>
    BY <1>3 DEF Storage!Stage, Storage!Describe, Storage!SyncStaging
  <2> QED BY <1>1, <1>r, <2>1, <2>3, <2>4 DEF Storage!Deleted
<1>4. ASSUME NEW o \in Objects, Storage!Publish(o) PROVE Storage!Abstract!Next
  <2>1. \A p \in Objects : p # o => dir'[p] = dir[p]
    BY <1>4, <1>t DEF Storage!Publish, Storage!Change, Storage!TypeOK
  <2>2. store[o] = "synced" /\ store'[o] = "published" /\ UNCHANGED <<delete, owed>>
    BY <1>4, <1>t DEF Storage!Publish, Storage!TypeOK
  <2>3. ~Storage!Whole(dir[o]) /\ Storage!Whole(dir'[o]) /\ delete[o] = "none"
    BY <2>2 DEF Storage!IInv, Storage!Consistent, Storage!Whole
  <2>4. /\ Storage!Readable' = Storage!Readable \cup {o}
        /\ o \notin Storage!Readable \cup Storage!Deleted
    BY <1>r, <1>d, <2>1, <2>3
  <2>5. Storage!Abstract!Publish(o)
    BY <2>2, <2>4 DEF Storage!Abstract!Publish, Storage!Deleted
  <2> QED BY <2>5 DEF Storage!Abstract!Next
<1>5. ASSUME NEW o \in Objects, Storage!Return(o) PROVE Storage!Abstract!Next
  <2>1. store[o] = "published" /\ owed' = owed \cup {o} /\ UNCHANGED <<dir, delete>>
    BY <1>5 DEF Storage!Return
  <2>2. o \in Storage!Readable \ Storage!Deleted
    BY <1>r, <1>d, <2>1 DEF Storage!IInv, Storage!Consistent
  <2>3. Storage!Abstract!Return(o)
    BY <2>1, <2>2 DEF Storage!Abstract!Return, Storage!Readable, Storage!Deleted,
       Storage!OpenRead, Storage!Metadata
  <2> QED BY <2>3 DEF Storage!Abstract!Next
<1>6. ASSUME NEW o \in Objects, Storage!Refuse(o) PROVE Storage!Abstract!Next
  <2>1. \A p \in Objects : p # o => dir'[p] = dir[p]
    BY <1>6, <1>t DEF Storage!Refuse, Storage!Change, Storage!TypeOK
  <2>2. dir'[o] = dir[o] \/ dir'[o] = Storage!Nothing
    BY <1>6, <1>t DEF Storage!Refuse, Storage!Change, Storage!TypeOK
  <2>3. UNCHANGED <<delete, owed>>
    BY <1>6 DEF Storage!Refuse
  <2> QED BY <1>1, <1>r, <2>1, <2>2, <2>3, DirFacts DEF Storage!Deleted, Storage!Whole
<1>7. ASSUME NEW o \in Objects, Storage!Delete(o) PROVE Storage!Abstract!Next
  <2>1. Storage!OpenRead(o) /\ owed' = owed \ {o} /\ UNCHANGED dir
        /\ delete' = [delete EXCEPT ![o] = "payload"]
    BY <1>7 DEF Storage!Delete
  <2>2. /\ o \in Storage!Readable
        /\ Storage!Readable' = Storage!Readable
        /\ Storage!Deleted' = Storage!Deleted \cup {o}
    BY <1>t, <2>1 DEF Storage!Readable, Storage!Deleted, Storage!OpenRead, Storage!Metadata,
       Storage!TypeOK
  <2>3. Storage!Abstract!Delete(o)
    BY <2>1, <2>2 DEF Storage!Abstract!Delete
  <2> QED BY <2>3 DEF Storage!Abstract!Next
<1>8. ASSUME NEW o \in Objects,
             Storage!UnlinkPayload(o) \/ Storage!UnlinkMetadata(o)
             \/ Storage!RemoveDirectory(o) \/ Storage!SyncRemoval(o)
      PROVE  Storage!Abstract!Next
  <2>1. /\ \A p \in Objects : p # o => dir'[p] = dir[p]
        /\ delete[o] # "none" /\ delete'[o] # "none"
        /\ \A p \in Objects : p # o => delete'[p] = delete[p]
        /\ UNCHANGED owed
    BY <1>8, <1>t DEF Storage!UnlinkPayload, Storage!UnlinkMetadata, Storage!RemoveDirectory,
       Storage!SyncRemoval, Storage!Change, Storage!Synced, Storage!TypeOK
  <2>2. Storage!Deleted' = Storage!Deleted
    BY <1>d, <2>1
  <2>3. o \in Storage!Readable' => o \in Storage!Readable \cup Storage!Deleted
    BY <1>d, <2>1
  <2>4. owed \subseteq Storage!Readable'
    BY <1>o, <2>1
  <2> QED BY <1>r, <2>1, <2>2, <2>3, <2>4, LoseRefines
<1>9. ASSUME NEW o \in Objects, Storage!Die(o) PROVE Storage!Abstract!Next
  <2>1. UNCHANGED <<dir, owed>>
    BY <1>9 DEF Storage!Die
  <2>2. \A p \in Objects : delete'[p] = "none" <=> delete[p] = "none"
    BY <1>9, <1>t DEF Storage!Die, Storage!TypeOK
  <2>3. Storage!Readable' = Storage!Readable /\ Storage!Deleted' = Storage!Deleted
    BY <2>1, <2>2 DEF Storage!Readable, Storage!OpenRead, Storage!Metadata, Storage!Deleted
  <2> QED BY <1>1, <2>1, <2>3
<1>10. ASSUME Storage!LosePower PROVE Storage!Abstract!Next
  <2>1. /\ \A o \in Objects : dir'[o] \in disk[o]
        /\ \A o \in Objects : delete'[o] = "none" <=> delete[o] = "none"
        /\ UNCHANGED owed
    BY <1>10 DEF Storage!LosePower
  <2>2. Storage!Deleted' = Storage!Deleted
    BY <1>d, <2>1
  <2>3. ASSUME NEW o \in Storage!Readable' PROVE o \in Storage!Readable \cup Storage!Deleted
    BY <1>r, <1>d, <2>1, <2>3 DEF Storage!IInv, Storage!Consistent
  <2> QED BY <1>o, <2>1, <2>2, <2>3, LoseRefines
<1> QED BY <1>2, <1>3, <1>4, <1>5, <1>6, <1>7, <1>8, <1>9, <1>10 DEF Storage!Next

-----------------------------------------------------------------------------
(* Accounts and sessions.                                                  *)

LEMMA AccessInvInit == Access!Assumption /\ Access!Init => Access!IInv
<1> SUFFICES ASSUME Access!Assumption, Access!Init PROVE Access!IInv
  OBVIOUS
<1>1. DOMAIN sessions = {}
  BY DEF Access!Init
<1> QED BY <1>1 DEF Access!Init, Access!Assumption, Access!IInv, Access!TypeOK,
       Access!BootstrapInv, Access!SessionInv, Access!At, Access!Steps, Access!Pending

LEMMA GoToEffect ==
    ASSUME Access!TypeOK, NEW r \in Requests, NEW step \in Access!Steps, Access!GoTo(r, step)
    PROVE  /\ call' \in [Requests -> [step : Access!Steps, cookie : Requests]]
           /\ call'[r].step = step /\ call'[r].cookie = call[r].cookie
           /\ \A q \in Requests : q # r => call'[q] = call[q]
BY DEF Access!TypeOK, Access!GoTo

\* The row a request adds, and the rows it leaves alone.
LEMMA WithEffect ==
    ASSUME Access!Assumption, Access!TypeOK, NEW r \in Requests, NEW user \in Requests,
           sessions' = Access!With(r, Access!NewSession(user))
    PROVE  /\ DOMAIN sessions' = DOMAIN sessions \cup {r}
           /\ sessions'[r] \in Access!Session /\ sessions'[r].state = "unseen"
           /\ \A t \in DOMAIN sessions : t # r => sessions'[t] = sessions[t]
           /\ \A t \in DOMAIN sessions' : sessions'[t] \in Access!Session
<1>1. /\ DOMAIN sessions' = DOMAIN sessions \cup {r}
      /\ sessions'[r] = Access!NewSession(user)
      /\ \A t \in DOMAIN sessions : t # r => sessions'[t] = sessions[t]
  BY DEF Access!With
<1>2. today + Lifetime \in 1..Horizon + Lifetime
  BY DEF Access!Assumption, Access!TypeOK
<1>3. Access!NewSession(user) \in Access!Session /\ Access!NewSession(user).state = "unseen"
  BY <1>2 DEF Access!NewSession, Access!Session
<1> QED BY <1>1, <1>3 DEF Access!TypeOK

\* A commit shows in one row.
LEMMA TurnEffect ==
    ASSUME Access!TypeOK, NEW t \in DOMAIN sessions, NEW state \in {"open", "revoked"},
           Access!Turn(t, state)
    PROVE  /\ DOMAIN sessions' = DOMAIN sessions
           /\ sessions'[t].state = state
           /\ \A s \in DOMAIN sessions : s # t => sessions'[s] = sessions[s]
           /\ \A s \in DOMAIN sessions' : sessions'[s] \in Access!Session
<1>1. /\ DOMAIN sessions' = DOMAIN sessions
      /\ sessions'[t] = [sessions[t] EXCEPT !.state = state]
      /\ \A s \in DOMAIN sessions : s # t => sessions'[s] = sessions[s]
  BY DEF Access!Turn
<1>2. \A s \in DOMAIN sessions : sessions[s] \in Access!Session
  BY DEF Access!TypeOK
<1>3. sessions'[t] \in Access!Session /\ sessions'[t].state = state
  BY <1>1, <1>2 DEF Access!Session
<1> QED BY <1>1, <1>2, <1>3

LEMMA FaultType ==
    ASSUME Access!Assumption, Access!TypeOK, Access!Fault
    PROVE  failures' \in 0..MaxFaults /\ failures' > 0
BY DEF Access!Assumption, Access!TypeOK, Access!Fault

\* The row of a session is seen from its commit on.
LEMMA CommitSeen ==
    ASSUME Access!TypeOK, Access!SessionInv, NEW r \in Requests,
           call[r].step \in {"created", "opened"}, call[r].cookie = r, r \in DOMAIN sessions,
           call' \in [Requests -> [step : Access!Steps, cookie : Requests]],
           call'[r].step = "done", call'[r].cookie = r,
           \A q \in Requests : q # r => call'[q] = call[q],
           DOMAIN sessions' = DOMAIN sessions, sessions'[r].state = "open",
           \A t \in DOMAIN sessions : t # r => sessions'[t] = sessions[t],
           UNCHANGED <<answered, failures>>
    PROVE  Access!SessionInv'
<1>1. sessions[r].state = "unseen"
  BY DEF Access!SessionInv, Access!At
<1> QED BY <1>1 DEF Access!SessionInv, Access!TypeOK, Access!At, Access!Pending

LEMMA BootstrapStep ==
    ASSUME Access!Assumption, Access!IInv, NEW r \in Requests,
           Access!Lock(r) \/ Access!CreateFirstAdmin(r)
           \/ Access!BootstrapUnavailable(r) \/ Access!CommitBootstrap(r)
    PROVE  Access!IInv'
<1>t. Access!TypeOK /\ Access!BootstrapInv /\ Access!SessionInv /\ NoOne \notin Requests
  BY DEF Access!IInv, Access!Assumption
<1>1. CASE Access!Lock(r)
  <2>1. /\ call' \in [Requests -> [step : Access!Steps, cookie : Requests]]
        /\ call'[r].step = "locked" /\ call[r].step = "idle"
        /\ call'[r].cookie = call[r].cookie
        /\ \A q \in Requests : q # r => call'[q] = call[q]
        /\ bootstrap = NoOne /\ bootstrap' = r
        /\ UNCHANGED <<users, sessions, answered, today, failures>>
    BY <1>1, <1>t, GoToEffect DEF Access!Lock, Access!At, Access!Steps
  <2>2. Access!TypeOK'
    BY <1>t, <2>1 DEF Access!TypeOK
  <2>3. Access!BootstrapInv'
    BY <1>t, <2>1 DEF Access!BootstrapInv, Access!At
  <2>4. Access!SessionInv'
    BY <1>t, <2>1 DEF Access!SessionInv, Access!TypeOK, Access!At, Access!Pending
  <2> QED BY <2>2, <2>3, <2>4 DEF Access!IInv
<1>2. CASE Access!CreateFirstAdmin(r)
  <2>1. /\ call' \in [Requests -> [step : Access!Steps, cookie : Requests]]
        /\ call'[r].step = "created" /\ call[r].step = "locked" /\ users = {}
        /\ call'[r].cookie = call[r].cookie
        /\ \A q \in Requests : q # r => call'[q] = call[q]
        /\ UNCHANGED <<users, bootstrap, answered, today, failures>>
    BY <1>2, <1>t, GoToEffect DEF Access!CreateFirstAdmin, Access!At, Access!Steps,
       Access!Pending
  <2>2. r \notin DOMAIN sessions
    BY <1>t, <2>1 DEF Access!SessionInv, Access!At
  <2>3. /\ DOMAIN sessions' = DOMAIN sessions \cup {r} /\ sessions'[r].state = "unseen"
        /\ \A t \in DOMAIN sessions : sessions'[t] = sessions[t]
        /\ \A t \in DOMAIN sessions' : sessions'[t] \in Access!Session
    BY <1>2, <1>t, <2>2, WithEffect DEF Access!CreateFirstAdmin
  <2>4. Access!TypeOK'
    BY <1>t, <2>1, <2>3 DEF Access!TypeOK
  <2>5. Access!BootstrapInv'
    BY <1>t, <2>1 DEF Access!BootstrapInv, Access!At
  <2>6. Access!SessionInv'
    BY <1>t, <2>1, <2>2, <2>3 DEF Access!SessionInv, Access!TypeOK, Access!At, Access!Pending
  <2> QED BY <2>4, <2>5, <2>6 DEF Access!IInv
<1>3. CASE Access!BootstrapUnavailable(r)
  <2>1. /\ call' \in [Requests -> [step : Access!Steps, cookie : Requests]]
        /\ call'[r].step = "over" /\ call[r].step = "locked"
        /\ call'[r].cookie = call[r].cookie
        /\ \A q \in Requests : q # r => call'[q] = call[q]
        /\ bootstrap' = IF bootstrap = r THEN NoOne ELSE bootstrap
        /\ UNCHANGED <<users, sessions, answered, today, failures>>
    BY <1>3, <1>t, GoToEffect DEF Access!BootstrapUnavailable, Access!Unlock, Access!At,
       Access!Steps
  <2>2. Access!TypeOK'
    BY <1>t, <2>1 DEF Access!TypeOK
  <2>3. Access!BootstrapInv'
    BY <1>t, <2>1 DEF Access!BootstrapInv, Access!At
  <2>4. Access!SessionInv'
    BY <1>t, <2>1 DEF Access!SessionInv, Access!TypeOK, Access!At, Access!Pending
  <2> QED BY <2>2, <2>3, <2>4 DEF Access!IInv
<1>4. CASE Access!CommitBootstrap(r)
  <2>1. /\ call' \in [Requests -> [step : Access!Steps, cookie : Requests]]
        /\ call'[r].step = "done" /\ call[r].step = "created"
        /\ call'[r].cookie = call[r].cookie
        /\ \A q \in Requests : q # r => call'[q] = call[q]
        /\ bootstrap' = IF bootstrap = r THEN NoOne ELSE bootstrap
        /\ users' = users \cup {r}
        /\ UNCHANGED <<answered, today, failures>>
    BY <1>4, <1>t, GoToEffect DEF Access!CommitBootstrap, Access!Unlock, Access!At, Access!Steps
  <2>2. users = {} /\ r \in DOMAIN sessions /\ bootstrap = r /\ call[r].cookie = r
    BY <1>t, <2>1 DEF Access!BootstrapInv, Access!SessionInv, Access!At
  <2>3. /\ DOMAIN sessions' = DOMAIN sessions /\ sessions'[r].state = "open"
        /\ \A t \in DOMAIN sessions : t # r => sessions'[t] = sessions[t]
        /\ \A t \in DOMAIN sessions' : sessions'[t] \in Access!Session
    BY <1>4, <1>t, <2>2, TurnEffect DEF Access!CommitBootstrap
  <2>4. Access!TypeOK'
    BY <1>t, <2>1, <2>3 DEF Access!TypeOK
  <2>5. Access!BootstrapInv'
    BY <1>t, <2>1, <2>2 DEF Access!BootstrapInv, Access!At
  <2>6. Access!SessionInv'
    BY <1>t, <2>1, <2>2, <2>3, CommitSeen
  <2> QED BY <2>4, <2>5, <2>6 DEF Access!IInv
<1> QED BY <1>1, <1>2, <1>3, <1>4

LEMMA SessionStep ==
    ASSUME Access!Assumption, Access!IInv, NEW r \in Requests, NEW t \in Requests,
           Access!Login(r, t) \/ Access!CommitLogin(r) \/ Access!Visit(r, t)
           \/ Access!Logout(r, t) \/ Access!CommitLogout(r)
           \/ Access!Answer(r) \/ Access!RollBack(r)
    PROVE  Access!IInv'
<1>t. Access!TypeOK /\ Access!BootstrapInv /\ Access!SessionInv /\ NoOne \notin Requests
  BY DEF Access!IInv, Access!Assumption
<1>1. CASE Access!Login(r, t)
  <2>1. /\ call' \in [Requests -> [step : Access!Steps, cookie : Requests]]
        /\ call'[r].step = "opened" /\ call[r].step = "idle"
        /\ call'[r].cookie = call[r].cookie
        /\ \A q \in Requests : q # r => call'[q] = call[q]
        /\ UNCHANGED <<users, bootstrap, answered, today, failures>>
    BY <1>1, <1>t, GoToEffect DEF Access!Login, Access!At, Access!Steps, Access!Pending
  <2>2. r \notin DOMAIN sessions
    BY <1>t, <2>1 DEF Access!SessionInv, Access!At
  <2>3. /\ DOMAIN sessions' = DOMAIN sessions \cup {r} /\ sessions'[r].state = "unseen"
        /\ \A s \in DOMAIN sessions : sessions'[s] = sessions[s]
        /\ \A s \in DOMAIN sessions' : sessions'[s] \in Access!Session
    BY <1>1, <1>t, <2>2, WithEffect DEF Access!Login
  <2>4. Access!TypeOK'
    BY <1>t, <2>1, <2>3 DEF Access!TypeOK
  <2>5. Access!BootstrapInv'
    BY <1>t, <2>1 DEF Access!BootstrapInv, Access!At
  <2>6. Access!SessionInv'
    BY <1>t, <2>1, <2>2, <2>3 DEF Access!SessionInv, Access!TypeOK, Access!At, Access!Pending
  <2> QED BY <2>4, <2>5, <2>6 DEF Access!IInv
<1>2. CASE Access!Visit(r, t) \/ Access!Logout(r, t)
  <2>1. /\ call' \in [Requests -> [step : Access!Steps, cookie : Requests]]
        /\ call'[r].step \in {"over", "revoking"} /\ call[r].step = "idle"
        /\ call'[r].cookie = t /\ t \in DOMAIN sessions /\ sessions[t].state = "open"
        /\ \A q \in Requests : q # r => call'[q] = call[q]
        /\ UNCHANGED <<users, sessions, bootstrap, answered, today, failures>>
    BY <1>2, <1>t DEF Access!Visit, Access!Logout, Access!Resolves, Access!At, Access!Steps,
       Access!Pending, Access!TypeOK
  <2>2. r \notin answered /\ r \notin DOMAIN sessions
    BY <1>t, <2>1 DEF Access!SessionInv, Access!At, Access!Pending
  <2>3. Access!TypeOK'
    BY <1>t, <2>1 DEF Access!TypeOK
  <2>4. Access!BootstrapInv'
    BY <1>t, <2>1 DEF Access!BootstrapInv, Access!At
  <2>5. Access!SessionInv'
    BY <1>t, <2>1, <2>2 DEF Access!SessionInv, Access!TypeOK, Access!At
  <2> QED BY <2>3, <2>4, <2>5 DEF Access!IInv
<1>3. CASE Access!CommitLogin(r)
  <2>1. /\ call' \in [Requests -> [step : Access!Steps, cookie : Requests]]
        /\ call'[r].step = "done" /\ call[r].step = "opened"
        /\ call'[r].cookie = call[r].cookie
        /\ \A q \in Requests : q # r => call'[q] = call[q]
        /\ UNCHANGED <<users, bootstrap, answered, today, failures>>
    BY <1>3, <1>t, GoToEffect DEF Access!CommitLogin, Access!At, Access!Steps
  <2>2. r \in DOMAIN sessions /\ call[r].cookie = r
    BY <1>t, <2>1 DEF Access!SessionInv, Access!At
  <2>3. /\ DOMAIN sessions' = DOMAIN sessions /\ sessions'[r].state = "open"
        /\ \A s \in DOMAIN sessions : s # r => sessions'[s] = sessions[s]
        /\ \A s \in DOMAIN sessions' : sessions'[s] \in Access!Session
    BY <1>3, <1>t, <2>2, TurnEffect DEF Access!CommitLogin
  <2>4. Access!TypeOK'
    BY <1>t, <2>1, <2>3 DEF Access!TypeOK
  <2>5. Access!BootstrapInv'
    BY <1>t, <2>1 DEF Access!BootstrapInv, Access!At
  <2>6. Access!SessionInv'
    BY <1>t, <2>1, <2>2, <2>3, CommitSeen
  <2> QED BY <2>4, <2>5, <2>6 DEF Access!IInv
<1>4. CASE Access!CommitLogout(r)
  <2> DEFINE s == call[r].cookie
  <2>1. /\ call' \in [Requests -> [step : Access!Steps, cookie : Requests]]
        /\ call'[r].step = "done" /\ call[r].step = "revoking" /\ call'[r].cookie = s
        /\ \A q \in Requests : q # r => call'[q] = call[q]
        /\ Access!Turn(s, "revoked")
        /\ UNCHANGED <<users, bootstrap, answered, today, failures>>
    BY <1>4, <1>t, GoToEffect DEF Access!CommitLogout, Access!At, Access!Steps
  <2>2. s \in DOMAIN sessions /\ sessions[s].state # "unseen"
    BY <1>t, <2>1 DEF Access!SessionInv, Access!At
  <2> HIDE DEF s
  <2>3. /\ DOMAIN sessions' = DOMAIN sessions /\ sessions'[s].state = "revoked"
        /\ \A q \in DOMAIN sessions : q # s => sessions'[q] = sessions[q]
        /\ \A q \in DOMAIN sessions' : sessions'[q] \in Access!Session
    BY <1>t, <2>1, <2>2, TurnEffect
  <2>4. Access!TypeOK'
    BY <1>t, <2>1, <2>3 DEF Access!TypeOK
  <2>5. Access!BootstrapInv'
    BY <1>t, <2>1 DEF Access!BootstrapInv, Access!At
  <2>6. Access!SessionInv'
    BY <1>t, <2>1, <2>2, <2>3 DEF Access!SessionInv, Access!TypeOK, Access!At, Access!Pending
  <2> QED BY <2>4, <2>5, <2>6 DEF Access!IInv
<1>5. CASE Access!Answer(r)
  <2>1. /\ call[r].step \in Access!Pending \cup {"done"}
        /\ answered' = answered \cup {r}
        /\ UNCHANGED <<users, sessions, bootstrap, call, today, failures>>
    BY <1>5 DEF Access!Answer
  <2>2. Access!TypeOK'
    BY <1>t, <2>1 DEF Access!TypeOK
  <2>3. Access!BootstrapInv'
    BY <1>t, <2>1 DEF Access!BootstrapInv, Access!At
  <2>4. Access!SessionInv'
    BY <1>t, <2>1 DEF Access!SessionInv, Access!At
  <2> QED BY <2>2, <2>3, <2>4 DEF Access!IInv
<1>6. CASE Access!RollBack(r)
  <2>1. /\ call' \in [Requests -> [step : Access!Steps, cookie : Requests]]
        /\ call'[r].step = "over" /\ call[r].step \in {"locked", "created", "opened", "revoking"}
        /\ call'[r].cookie = call[r].cookie
        /\ \A q \in Requests : q # r => call'[q] = call[q]
        /\ bootstrap' = IF bootstrap = r THEN NoOne ELSE bootstrap
        /\ failures' \in 0..MaxFaults /\ failures' > 0
        /\ UNCHANGED <<users, answered, today>>
    BY <1>6, <1>t, GoToEffect, FaultType DEF Access!RollBack, Access!Unlock, Access!Steps,
       Access!Pending
  <2>2. /\ DOMAIN sessions' = DOMAIN sessions \ {r}
        /\ \A s \in DOMAIN sessions' : sessions'[s] = sessions[s]
    BY <1>6 DEF Access!RollBack, Access!Without
  <2>3. r \in DOMAIN sessions => sessions[r].state = "unseen"
    BY <1>t, <2>1 DEF Access!SessionInv, Access!At
  <2>4. Access!TypeOK'
    BY <1>t, <2>1, <2>2 DEF Access!TypeOK
  <2>5. Access!BootstrapInv'
    BY <1>t, <2>1 DEF Access!BootstrapInv, Access!At
  <2>6. Access!SessionInv'
    <3>1. \A q \in Requests : (q # r /\ call[q].cookie \in DOMAIN sessions
                                     /\ sessions[call[q].cookie].state # "unseen")
                                 => /\ call[q].cookie \in DOMAIN sessions'
                                    /\ sessions'[call[q].cookie] = sessions[call[q].cookie]
      BY <2>2, <2>3
    <3> QED BY <1>t, <2>1, <2>2, <2>3, <3>1
            DEF Access!SessionInv, Access!TypeOK, Access!At, Access!Pending
  <2> QED BY <2>4, <2>5, <2>6 DEF Access!IInv
<1> QED BY <1>1, <1>2, <1>3, <1>4, <1>5, <1>6

LEMMA AccessInvStep ==
    Access!Assumption /\ Access!IInv /\ [Access!Next]_Access!vars => Access!IInv'
<1> SUFFICES ASSUME Access!Assumption, Access!IInv, [Access!Next]_Access!vars PROVE Access!IInv'
  OBVIOUS
<1>1. CASE UNCHANGED Access!vars
  BY <1>1 DEF Access!vars, Access!IInv, Access!TypeOK, Access!BootstrapInv, Access!SessionInv,
     Access!At
<1>2. CASE Access!Tick
  <2>1. today' \in 1..Horizon
    BY <1>2 DEF Access!Tick, Access!IInv, Access!TypeOK, Access!Assumption
  <2> QED BY <1>2, <2>1 DEF Access!Tick, Access!IInv, Access!TypeOK, Access!BootstrapInv,
         Access!SessionInv, Access!At
<1> QED BY <1>1, <1>2, BootstrapStep, SessionStep DEF Access!Next

-----------------------------------------------------------------------------
(* Prices and AI calls.                                                    *)

LEMMA WindowFacts ==
    ASSUME AI!Assumption, NEW w \in AI!Window
    PROVE  /\ w.from \in 1..Horizon /\ w.to \in 2..AI!Open /\ w.from < w.to
           /\ w.from \in Nat /\ w.to \in Nat /\ AI!Open \in Nat /\ Horizon \in Nat
<1>1. Horizon \in Nat /\ AI!Open = Horizon + 2
  BY DEF AI!Assumption, AI!Open
<1>2. w.from \in 1..Horizon /\ w.to \in 2..AI!Open /\ w.from < w.to
  BY DEF AI!Window
<1> QED BY <1>1, <1>2

\* The overlap query lets exactly the disjoint windows through.
LEMMA OverlapsIsOverlap ==
    ASSUME AI!Assumption, NEW v \in AI!Window, NEW w \in AI!Window
    PROVE  ~AI!Overlaps(v, w) <=> AI!Disjoint(v, w)
BY WindowFacts DEF AI!Overlaps, AI!Disjoint

\* Disjoint windows have no time in common.
LEMMA OneWindowAround ==
    ASSUME AI!Assumption, AI!TypeOK, AI!PriceInv, NEW at \in 0..Horizon, NEW p \in AI!Around(at)
    PROVE  AI!Around(at) = {p}
<1>1. SUFFICES ASSUME NEW q \in AI!Around(at), q # p PROVE FALSE
  OBVIOUS
<1>2. /\ p \in DOMAIN windows /\ q \in DOMAIN windows
      /\ windows[p].from <= at /\ at < windows[p].to
      /\ windows[q].from <= at /\ at < windows[q].to
  BY DEF AI!Around
<1>3. AI!Disjoint(windows[p], windows[q])
  BY <1>1, <1>2 DEF AI!PriceInv
<1>4. /\ windows[p].from \in Nat /\ windows[p].to \in Nat
      /\ windows[q].from \in Nat /\ windows[q].to \in Nat /\ at \in Nat
  BY <1>2, WindowFacts DEF AI!TypeOK
<1> QED BY <1>2, <1>3, <1>4 DEF AI!Disjoint

-----------------------------------------------------------------------------
LEMMA AIInvInit == AI!Assumption /\ AI!Init => AI!IInv
<1> SUFFICES ASSUME AI!Assumption, AI!Init PROVE AI!IInv
  OBVIOUS
<1>1. Horizon \in Nat \ {0} /\ MaxToolCalls \in Nat
  BY DEF AI!Assumption
<1>2. DOMAIN windows = {}
  BY DEF AI!Init
<1>3. [from |-> 1, to |-> AI!Open] \in AI!Window
  BY <1>1 DEF AI!Window, AI!Open
<1>4. AI!Idle \in AI!Run /\ AI!Idle.executed = 0 /\ AI!Idle.requested = 0 /\ AI!Idle.step = "idle"
  BY <1>1 DEF AI!Idle, AI!Run, AI!Steps
<1>5. AI!TypeOK
  BY <1>1, <1>2, <1>3, <1>4 DEF AI!Init, AI!TypeOK, AI!Adding
<1>6. AI!PriceInv
  BY <1>2 DEF AI!Init, AI!PriceInv
<1>7. AI!CallInv
  BY <1>4 DEF AI!Init, AI!CallInv
<1> QED BY <1>5, <1>6, <1>7 DEF AI!IInv

\* What an add_price that is checked inserts leaves the windows there were.
LEMMA InsertEffect ==
    ASSUME AI!IInv, NEW p \in Prices, AI!InsertPrice(p)
    PROVE  /\ p \notin DOMAIN windows
           /\ DOMAIN windows' = DOMAIN windows \cup {p}
           /\ windows'[p] = adding[p].window
           /\ \A q \in DOMAIN windows : windows'[q] = windows[q]
           /\ \A at : AI!Around(at) \subseteq AI!Around(at)'
<1>1. p \notin DOMAIN windows
  BY DEF AI!IInv, AI!PriceInv, AI!InsertPrice
<1>2. /\ DOMAIN windows' = DOMAIN windows \cup {p}
      /\ windows'[p] = adding[p].window
      /\ \A q \in DOMAIN windows : windows'[q] = windows[q]
  BY <1>1 DEF AI!InsertPrice
<1> QED BY <1>1, <1>2 DEF AI!Around

LEMMA PriceStep ==
    ASSUME AI!Assumption, AI!IInv, NEW p \in Prices,
           (\E w \in AI!Window : AI!LockPrices(p, w)) \/ AI!CheckOverlap(p) \/ AI!InsertPrice(p)
    PROVE  AI!IInv'
<1>t. AI!TypeOK /\ AI!PriceInv /\ AI!CallInv
  BY DEF AI!IInv
<1>n. NoOne \notin Prices
  BY DEF AI!Assumption
<1>1. ASSUME NEW w \in AI!Window, AI!LockPrices(p, w) PROVE AI!IInv'
  <2>1. AI!TypeOK'
    BY <1>1, <1>t DEF AI!LockPrices, AI!TypeOK, AI!Adding
  <2>2. AI!PriceInv'
    BY <1>1, <1>t, <1>n DEF AI!LockPrices, AI!TypeOK, AI!PriceInv
  <2>3. AI!CallInv'
    BY <1>1, <1>t DEF AI!LockPrices, AI!CallInv, AI!Around
  <2> QED BY <2>1, <2>2, <2>3 DEF AI!IInv
<1>2. CASE AI!CheckOverlap(p)
  <2> DEFINE refused == \E q \in DOMAIN windows : AI!Overlaps(windows[q], adding[p].window)
  <2>1. /\ adding[p].step = "locked" /\ pricing = p
        /\ adding' = [adding EXCEPT ![p].step = IF refused THEN "done" ELSE "checked"]
        /\ pricing' = IF refused THEN NoOne ELSE pricing
        /\ UNCHANGED <<windows, run, now>>
    BY <1>2, <1>t DEF AI!CheckOverlap, AI!PriceInv
  <2>2. ~refused => \A q \in DOMAIN windows : AI!Disjoint(windows[q], adding[p].window)
    BY <1>t, OverlapsIsOverlap DEF AI!TypeOK
  <2> HIDE DEF refused
  <2>3. AI!TypeOK'
    BY <2>1, <1>t DEF AI!TypeOK, AI!Adding
  <2>4. AI!PriceInv'
    BY <2>1, <2>2, <1>t, <1>n DEF AI!TypeOK, AI!PriceInv
  <2>5. AI!CallInv'
    BY <2>1, <1>t DEF AI!CallInv, AI!Around
  <2> QED BY <2>3, <2>4, <2>5 DEF AI!IInv
<1>3. CASE AI!InsertPrice(p)
  <2>1. /\ adding[p].step = "checked" /\ pricing = p
        /\ adding' = [adding EXCEPT ![p].step = "done"]
        /\ pricing' = NoOne
        /\ UNCHANGED <<run, now>>
    BY <1>3, <1>t DEF AI!InsertPrice, AI!PriceInv
  <2>2. \A q \in DOMAIN windows : /\ AI!Disjoint(windows[q], adding[p].window)
                                  /\ AI!Disjoint(adding[p].window, windows[q])
    BY <2>1, <1>t DEF AI!PriceInv, AI!Disjoint
  <2>e. /\ p \notin DOMAIN windows
        /\ DOMAIN windows' = DOMAIN windows \cup {p}
        /\ windows'[p] = adding[p].window
        /\ \A q \in DOMAIN windows : windows'[q] = windows[q]
    BY <1>3, InsertEffect
  <2>a. /\ adding \in [Prices -> [step : AI!Adding, window : AI!Window]]
        /\ adding' \in [Prices -> [step : AI!Adding, window : AI!Window]]
        /\ adding'[p].step = "done"
        /\ \A q \in Prices : q # p => adding'[q] = adding[q]
    BY <2>1, <1>t DEF AI!TypeOK, AI!Adding
  <2>w. /\ DOMAIN windows' \subseteq Prices
        /\ \A q \in DOMAIN windows' : windows'[q] \in AI!Window
    BY <2>e, <2>a, <1>t DEF AI!TypeOK
  <2>3. AI!TypeOK'
    BY <2>1, <2>a, <2>w, <1>t DEF AI!TypeOK
  <2>4. AI!PriceInv'
    <3>1. \A q, s \in DOMAIN windows' : q # s => AI!Disjoint(windows'[q], windows'[s])
      BY <2>2, <2>e, <1>t DEF AI!PriceInv
    <3>2. \A q \in DOMAIN windows' : adding'[q].step = "done"
      BY <2>e, <2>a, <2>w, <1>t DEF AI!PriceInv
    <3>3. \A q \in Prices : adding'[q].step \notin {"locked", "checked"}
      BY <2>1, <2>a, <1>t DEF AI!PriceInv
    <3> QED BY <3>1, <3>2, <3>3 DEF AI!PriceInv, AI!Disjoint
  <2>5. AI!CallInv'
    BY <2>1, <1>3, <1>t, InsertEffect DEF AI!CallInv
  <2> QED BY <2>3, <2>4, <2>5 DEF AI!IInv
<1> QED BY <1>1, <1>2, <1>3

\* A call that does what the code allows keeps the invariant of the prices.
LEMMA RunStep ==
    ASSUME AI!Assumption, AI!IInv, UNCHANGED <<windows, adding, pricing, now>>,
           NEW c \in Calls, NEW r \in AI!Run, run' = [run EXCEPT ![c] = r],
           r.executed <= r.requested, r.step # "idle" => r.started > 0,
           r.step \in {"priced", "SUCCEEDED"} /\ r.price # NoPrice
             => r.price \in AI!Around(r.started)
    PROVE  AI!IInv'
<1>1. AI!TypeOK'
  BY DEF AI!IInv, AI!TypeOK
<1>2. AI!PriceInv'
  BY DEF AI!IInv, AI!PriceInv
<1>3. AI!CallInv'
  BY DEF AI!IInv, AI!TypeOK, AI!CallInv, AI!Around
<1> QED BY <1>1, <1>2, <1>3 DEF AI!IInv

LEMMA CallStep ==
    ASSUME AI!Assumption, AI!IInv, NEW c \in Calls,
           \/ AI!Execute(c) \/ AI!ProviderError(c) \/ AI!RecordCall(c) \/ AI!Raise(c)
           \/ \E price \in Prices \cup {NoPrice} : AI!Answer(c, price)
           \/ \E tools \in 1..2, executed \in 0..2 :
                 executed <= tools /\ AI!UseTools(c, tools, executed)
    PROVE  AI!IInv'
<1>t. /\ run \in [Calls -> AI!Run] /\ run[c] \in AI!Run /\ now \in 1..Horizon
      /\ Horizon \in Nat /\ MaxToolCalls \in Nat /\ MaxRounds \in Nat
  BY DEF AI!IInv, AI!TypeOK, AI!Assumption
<1>i. /\ run[c].executed <= run[c].requested
      /\ run[c].step # "idle" => run[c].started > 0
      /\ run[c].step \in {"priced", "SUCCEEDED"} /\ run[c].price # NoPrice
           => run[c].price \in AI!Around(run[c].started)
  BY DEF AI!IInv, AI!CallInv
<1>1. CASE AI!Execute(c)
  <2> DEFINE r == [run[c] EXCEPT !.step = "generating", !.started = now]
  <2>1. run' = [run EXCEPT ![c] = r] /\ UNCHANGED <<windows, adding, pricing, now>>
    BY <1>1, <1>t DEF AI!Execute
  <2>n. now \in 0..Horizon /\ now > 0
    BY <1>t
  <2>2. /\ r \in AI!Run /\ r.step = "generating" /\ r.started = now
        /\ r.executed = run[c].executed /\ r.requested = run[c].requested
    BY <1>t, <2>n DEF AI!Run, AI!Steps
  <2> HIDE DEF r
  <2> QED BY <1>i, <2>1, <2>n, <2>2, RunStep
<1>2. ASSUME NEW step \in {"recording", "SUCCEEDED", "ERROR", "raised"},
             run' = [run EXCEPT ![c].step = step],
             run[c].step # "idle", step = "SUCCEEDED" => run[c].step = "priced",
             UNCHANGED <<windows, adding, pricing, now>>
      PROVE  AI!IInv'
  <2> DEFINE r == [run[c] EXCEPT !.step = step]
  <2>1. run' = [run EXCEPT ![c] = r]
    BY <1>2, <1>t
  <2>2. /\ r \in AI!Run /\ r.step = step /\ r.started = run[c].started /\ r.price = run[c].price
        /\ r.executed = run[c].executed /\ r.requested = run[c].requested
    BY <1>2, <1>t DEF AI!Run, AI!Steps
  <2> HIDE DEF r
  <2> QED BY <1>2, <1>i, <2>1, <2>2, RunStep
<1>3. CASE AI!ProviderError(c) \/ AI!RecordCall(c) \/ AI!Raise(c)
  BY <1>2, <1>3 DEF AI!ProviderError, AI!RecordCall, AI!Raise, AI!At
<1>4. ASSUME NEW price \in Prices \cup {NoPrice}, AI!Answer(c, price) PROVE AI!IInv'
  <2> DEFINE r == [run[c] EXCEPT !.step = "priced", !.price = price]
  <2>1. run' = [run EXCEPT ![c] = r] /\ UNCHANGED <<windows, adding, pricing, now>>
    BY <1>4, <1>t DEF AI!Answer
  <2>2. /\ r \in AI!Run /\ r.step = "priced" /\ r.started = run[c].started /\ r.price = price
        /\ r.executed = run[c].executed /\ r.requested = run[c].requested
    BY <1>4, <1>t DEF AI!Run, AI!Steps
  <2>3. price # NoPrice => price \in AI!Around(run[c].started)
    BY <1>4 DEF AI!Answer, AI!Effective
  <2>4. run[c].started > 0
    BY <1>4, <1>i DEF AI!Answer, AI!At
  <2> HIDE DEF r
  <2> QED BY <1>i, <2>1, <2>2, <2>3, <2>4, RunStep
<1>5. ASSUME NEW tools \in 1..2, NEW executed \in 0..2, executed <= tools,
             AI!UseTools(c, tools, executed)
      PROVE  AI!IInv'
  <2> DEFINE requested == run[c].requested + tools
             done == IF AI!LimitExceeded(c, tools) THEN run[c].executed
                                                ELSE run[c].executed + executed
             rounds == run[c].rounds + 1
             step == IF AI!LimitExceeded(c, tools) \/ executed < tools
                     THEN "recording" ELSE run[c].step
             r == [run[c] EXCEPT !.rounds = rounds, !.requested = requested,
                                 !.executed = done, !.step = step]
  <2>1. run[c].step = "generating" /\ UNCHANGED <<windows, adding, pricing, now>>
    BY <1>5 DEF AI!UseTools, AI!At
  <2>2. run' = [run EXCEPT ![c] = r]
    BY <1>5, <1>t DEF AI!UseTools
  <2>3. /\ run[c].requested \in Nat /\ run[c].executed \in 0..MaxToolCalls
        /\ run[c].rounds \in Nat
    BY <1>t DEF AI!Run
  <2>4. requested \in Nat /\ rounds \in Nat /\ done \in 0..MaxToolCalls /\ done <= requested
    BY <1>5, <1>t, <1>i, <2>3 DEF AI!LimitExceeded
  <2>5. step \in {"recording", "generating"}
    BY <2>1
  <2> HIDE DEF requested, done, rounds, step
  <2>6. /\ r \in AI!Run /\ r.step = step /\ r.started = run[c].started
        /\ r.executed = done /\ r.requested = requested
    BY <1>t, <2>4, <2>5 DEF AI!Run, AI!Steps
  <2> HIDE DEF r
  <2> QED BY <1>i, <2>1, <2>2, <2>4, <2>5, <2>6, RunStep
<1> QED BY <1>1, <1>3, <1>4, <1>5

LEMMA AIInvStep == AI!Assumption /\ AI!IInv /\ [AI!Next]_AI!vars => AI!IInv'
<1> SUFFICES ASSUME AI!Assumption, AI!IInv, [AI!Next]_AI!vars PROVE AI!IInv'
  OBVIOUS
<1>1. CASE UNCHANGED AI!vars
  BY <1>1 DEF AI!vars, AI!IInv, AI!TypeOK, AI!PriceInv, AI!CallInv, AI!Around
<1>2. CASE AI!Tick
  <2>1. now' \in 1..Horizon
    BY <1>2 DEF AI!Tick, AI!IInv, AI!TypeOK, AI!Assumption
  <2> QED BY <1>2, <2>1 DEF AI!Tick, AI!IInv, AI!TypeOK, AI!PriceInv, AI!CallInv, AI!Around
<1> QED BY <1>1, <1>2, PriceStep, CallStep DEF AI!Next

-----------------------------------------------------------------------------
(* Reading a mailbox.                                                      *)

LEMMA EpochFacts ==
    Mail!Assumption => /\ MaxEpoch \in Nat /\ Mail!NoFolder = MaxEpoch + 1
                       /\ Mail!NoFolder \in 0..Mail!NoFolder
                  /\ 1 \in 1..MaxEpoch /\ Mail!Broken \in 0..Mail!NoFolder
                  /\ \A e \in 1..MaxEpoch : e \in 0..Mail!NoFolder /\ e # Mail!Broken
                                            /\ e # Mail!NoFolder
BY DEF Mail!Assumption, Mail!NoFolder, Mail!Broken

LEMMA ImapInvInit == Mail!Assumption /\ Mail!Init => Mail!IInv
<1> SUFFICES ASSUME Mail!Assumption, Mail!Init PROVE Mail!IInv
  OBVIOUS
<1>1. op \in Mail!Operation /\ op.step = "end"
  BY DEF Mail!Init, Mail!Operation
<1> QED BY <1>1, EpochFacts DEF Mail!Init, Mail!IInv, Mail!TypeOK, Mail!FolderInv,
       Mail!RightMail, Mail!Doing

\* What a step makes of the operation that runs.
LEMMA OperationSteps ==
    ASSUME op \in Mail!Operation
    PROVE  /\ \A step \in {"select", "command", "end"} :
                 /\ [op EXCEPT !.step = step] \in Mail!Operation
                 /\ [op EXCEPT !.step = step].step = step
                 /\ [op EXCEPT !.step = step].kind = op.kind
                 /\ [op EXCEPT !.step = step].about = op.about
           /\ [op EXCEPT !.attempt = 1, !.step = "select"] \in Mail!Operation
           /\ [op EXCEPT !.attempt = 1, !.step = "select"].step = "select"
<1>1. 1 \in 0..1
  OBVIOUS
<1>2. ASSUME NEW step \in {"select", "command", "end"}
      PROVE  /\ [op EXCEPT !.step = step] \in Mail!Operation
             /\ [op EXCEPT !.step = step].step = step
             /\ [op EXCEPT !.step = step].kind = op.kind
             /\ [op EXCEPT !.step = step].about = op.about
  BY DEF Mail!Operation
<1>3. /\ [op EXCEPT !.attempt = 1, !.step = "select"] \in Mail!Operation
      /\ [op EXCEPT !.attempt = 1, !.step = "select"].step = "select"
  BY <1>1 DEF Mail!Operation
<1> QED BY <1>2, <1>3

LEMMA ImapInvStep == Mail!Assumption /\ Mail!IInv /\ [Mail!Next]_Mail!vars => Mail!IInv'
<1> SUFFICES ASSUME Mail!Assumption, Mail!IInv, [Mail!Next]_Mail!vars PROVE Mail!IInv'
  OBVIOUS
<1>t. /\ Mail!TypeOK /\ Mail!FolderInv /\ Mail!RightMail
      /\ op \in Mail!Operation /\ epoch \in 1..MaxEpoch /\ selected \in 0..Mail!NoFolder
  BY DEF Mail!IInv, Mail!TypeOK
<1>n. ASSUME op'.step # "command" PROVE Mail!FolderInv'
  BY <1>n DEF Mail!FolderInv, Mail!Doing
<1>1. CASE UNCHANGED Mail!vars
  BY <1>1, <1>t DEF Mail!vars, Mail!IInv, Mail!TypeOK, Mail!FolderInv, Mail!RightMail,
     Mail!Doing, Mail!Connected
<1>2. CASE Mail!Recreate
  <2>1. epoch' \in 1..MaxEpoch /\ selected' \in 0..Mail!NoFolder
    BY <1>2, <1>t, EpochFacts DEF Mail!Recreate
  <2>2. Mail!TypeOK'
    BY <1>2, <1>t, <2>1 DEF Mail!Recreate, Mail!TypeOK
  <2>3. Mail!FolderInv'
    BY <1>2, <1>t DEF Mail!Recreate, Mail!FolderInv, Mail!Doing, Mail!Connected
  <2> QED BY <1>2, <1>t, <2>2, <2>3 DEF Mail!Recreate, Mail!IInv, Mail!RightMail
<1>3. ASSUME NEW uid \in Uids, Mail!Expunge(uid) PROVE Mail!IInv'
  BY <1>3, <1>t DEF Mail!Expunge, Mail!IInv, Mail!TypeOK, Mail!FolderInv, Mail!RightMail,
     Mail!Doing, Mail!Connected
<1>4. ASSUME NEW kind \in {"list", "get"}, NEW about \in Mail!Locator \cup {Mail!Nowhere},
             Mail!Begin(kind, about)
      PROVE  Mail!IInv'
  <2>1. op' \in Mail!Operation /\ op'.step = "select"
    BY <1>4 DEF Mail!Begin, Mail!Operation
  <2> QED BY <1>4, <1>t, <1>n, <2>1 DEF Mail!Begin, Mail!IInv, Mail!TypeOK, Mail!RightMail
<1>5. CASE Mail!Connect
  <2>1. op'.step = "select"
    BY <1>5 DEF Mail!Connect
  <2> QED BY <1>5, <1>t, <1>n, <2>1, EpochFacts DEF Mail!Connect, Mail!IInv, Mail!TypeOK,
         Mail!RightMail
<1>6. CASE Mail!Select
  <2>1. /\ op' \in Mail!Operation /\ op'.kind = op.kind /\ op'.about = op.about
        /\ op'.step = IF Mail!Accepted THEN "command" ELSE "end"
    BY <1>6, <1>t, OperationSteps DEF Mail!Select
  <2>2. Mail!FolderInv'
    BY <1>6, <2>1, <1>t DEF Mail!Select, Mail!Accepted, Mail!FolderInv, Mail!Doing
  <2> QED BY <1>6, <1>t, <2>1, <2>2, EpochFacts DEF Mail!Select, Mail!IInv, Mail!TypeOK,
         Mail!RightMail
<1>7. CASE Mail!Search
  <2>1. op' \in Mail!Operation /\ op'.step = "end"
    BY <1>7, <1>t, OperationSteps DEF Mail!Search, Mail!End
  <2>2. selected \in 1..MaxEpoch
    BY <1>7, <1>t DEF Mail!Search, Mail!FolderInv
  <2>3. locators' \subseteq Mail!Locator
    BY <1>7, <1>t, <2>2 DEF Mail!Search, Mail!Locator, Mail!TypeOK
  <2> QED BY <1>7, <1>t, <1>n, <2>1, <2>3 DEF Mail!Search, Mail!IInv, Mail!TypeOK,
         Mail!RightMail
<1>8. CASE Mail!Fetch
  <2>1. op' \in Mail!Operation /\ op'.step = "end"
    BY <1>8, <1>t, OperationSteps DEF Mail!Fetch, Mail!End
  <2>2. op.about.uidvalidity = epoch
    BY <1>8, <1>t DEF Mail!Fetch, Mail!FolderInv
  <2>3. op.about = [uidvalidity |-> op.about.uidvalidity, uid |-> op.about.uid]
    BY <1>t DEF Mail!Operation, Mail!Locator, Mail!Nowhere
  <2>4. Mail!RightMail'
    BY <1>8, <1>t, <2>2, <2>3 DEF Mail!Fetch, Mail!RightMail
  <2> QED BY <1>8, <1>t, <1>n, <2>1, <2>4 DEF Mail!Fetch, Mail!IInv, Mail!TypeOK
<1>9. CASE Mail!Reconnect
  <2>1. op' \in Mail!Operation /\ op'.step # "command"
    BY <1>9, <1>t, OperationSteps DEF Mail!Reconnect
  <2> QED BY <1>9, <1>t, <1>n, <2>1, EpochFacts DEF Mail!Reconnect, Mail!IInv, Mail!TypeOK,
         Mail!RightMail
<1> QED BY <1>1, <1>2, <1>3, <1>4, <1>5, <1>6, <1>7, <1>8, <1>9, <1>t DEF Mail!Next, Mail!TypeOK

-----------------------------------------------------------------------------
(* The services together.                                                  *)

LEMMA PartAssumptions ==
    Storage!Assumption /\ Access!Assumption /\ AI!Assumption /\ Mail!Assumption
BY ServicesAssumption

\* A step of the whole is a step of each part, or leaves it alone.
LEMMA PartSteps ==
    [Next]_vars => /\ [Storage!Next]_Storage!vars /\ [Access!Next]_Access!vars
                   /\ [AI!Next]_AI!vars /\ [Mail!Next]_Mail!vars
BY DEF Next, Step, vars, storageVars, accessVars, aiVars, mailVars, Storage!vars, Access!vars,
       AI!vars, Mail!vars

\* What each part keeps invariant.  The directories, and what a power failure may
\* leave of them, stay consistent with the step of _store or delete they are at;
\* the lock of bootstrap covers what create_first_admin checks, and the row of a
\* session shows the commits of its login and its logout; add_price keeps the windows
\* disjoint; a command runs only in the folder that is on the server.
THEOREM ServicesInvariant == Spec => []IInv
<1>1. Init => IInv
  BY PartAssumptions, StorageInvInit, AccessInvInit, AIInvInit, ImapInvInit DEF Init, IInv
<1>2. IInv /\ [Next]_vars => IInv'
  BY PartAssumptions, PartSteps, StorageInvStep, AccessInvStep, AIInvStep, ImapInvStep DEF IInv
<1> QED BY <1>1, <1>2, PTL DEF Spec

\* The types of every part, and never more tools in one call than max_tool_calls,
\* for every pattern of rounds the model may ask for (OpenAIProvider.generate).
THEOREM ServicesTypeCorrect == Spec => []ServicesTypeOK
<1>1. IInv => ServicesTypeOK
  BY DEF IInv, ServicesTypeOK, Storage!IInv, Access!IInv, AI!IInv, Mail!IInv
<1> QED BY <1>1, ServicesInvariant, PTL

\* The price in a telemetry row is the only one in force at the time the call
\* started, now and after any later add_price.
THEOREM CostsStayTrueHolds == Spec => []CostsStayTrue
<1>1. IInv => CostsStayTrue
  <2>1. AI!IInv => AI!CostsStayTrue
    BY PartAssumptions, OneWindowAround DEF AI!IInv, AI!CallInv, AI!CostsStayTrue, AI!TypeOK,
       AI!Run
  <2> QED BY <2>1 DEF IInv, CostsStayTrue
<1> QED BY <1>1, ServicesInvariant, PTL

\* get_message never returns another mail than the one its locator was listed for,
\* however often the connection breaks and the folder is made anew.
THEOREM RightMailHolds == Spec => []RightMail
<1>1. IInv => RightMail
  BY DEF IInv, Mail!IInv, RightMail
<1> QED BY <1>1, ServicesInvariant, PTL

\* LocalStorageProvider keeps what StorageProvider promises: a key that store
\* returned reads back whole through any number of process deaths and power
\* failures until delete is asked for, and nothing is readable half-way.
THEOREM StorageRefinement == Spec => ImplementsObjectStore
<1>1. Init => Storage!Abstract!Init
  BY DEF Init, Storage!Init, Storage!Abstract!Init, Storage!Readable, Storage!Deleted,
         Storage!OpenRead, Storage!Metadata, Storage!Nothing
<1>2. IInv /\ IInv' /\ [Next]_vars => [Storage!Abstract!Next]_(Storage!Abstract!vars)
  BY PartAssumptions, PartSteps, StorageRefines DEF IInv
<1> QED BY <1>1, <1>2, ServicesInvariant, PTL DEF Spec, Storage!Abstract!Spec,
        ImplementsObjectStore, Storage!ImplementsObjectStore

\* With any number of first visitors at once there is at most one administrator;
\* and a session lets in only between its commit and that of any logout of it, not
\* expired.  An answer to a logout is no more than that: get_database may commit
\* after it, and while nothing fails only that commit is still to come.
THEOREM AccessStaysClosedHolds == Spec => AccessStaysClosed
<1>1. ASSUME Access!IInv, Access!IInv', [Access!Next]_Access!vars
      PROVE  /\ \A u, v \in users' : u = v
             /\ \A r \in Requests, t \in Requests :
                   (r # t /\ Access!At(r, "idle") /\ call'[r].cookie = t) => Access!LetsIn(t)
  <2>1. \A u, v \in users' : u = v
    BY <1>1 DEF Access!IInv, Access!BootstrapInv
  <2>2. ASSUME NEW r \in Requests, NEW t \in Requests,
               r # t, Access!At(r, "idle"), call'[r].cookie = t
        PROVE  Access!LetsIn(t)
    <3>1. call \in [Requests -> [step : Access!Steps, cookie : Requests]] /\ call[r].cookie = r
      BY <1>1, <2>2 DEF Access!IInv, Access!TypeOK, Access!SessionInv, Access!At
    <3>2. Access!Resolves(t)
      <4>1. ASSUME NEW q \in Requests, NEW step \in Access!Steps, Access!GoTo(q, step) PROVE FALSE
        BY <2>2, <3>1, <4>1 DEF Access!GoTo
      <4>2. ASSUME UNCHANGED call PROVE FALSE
        BY <2>2, <3>1, <4>2
      <4>3. ASSUME NEW q \in Requests, NEW s \in Requests,
                   Access!Visit(q, s) \/ Access!Logout(q, s)
            PROVE  Access!Resolves(t)
        BY <2>2, <3>1, <4>3 DEF Access!Visit, Access!Logout
      <4>4. \/ UNCHANGED call
            \/ \E q \in Requests, step \in Access!Steps : Access!GoTo(q, step)
            \/ \E q, s \in Requests : Access!Visit(q, s) \/ Access!Logout(q, s)
        BY <1>1 DEF Access!Next, Access!vars, Access!Lock, Access!CreateFirstAdmin,
                    Access!BootstrapUnavailable, Access!CommitBootstrap, Access!CommitLogin,
                    Access!CommitLogout, Access!Answer, Access!RollBack, Access!Login,
                    Access!Tick, Access!Steps, Access!Pending
      <4> QED BY <4>1, <4>2, <4>3, <4>4
    <3>3. /\ t \in DOMAIN sessions /\ sessions[t].state = "open"
          /\ sessions[t].user \in users /\ sessions[t].expires > today
      BY <3>2 DEF Access!Resolves
    <3>4. Access!At(t, "done")
      BY <1>1, <3>3 DEF Access!IInv, Access!SessionInv
    <3>5. ASSUME NEW q \in Requests \ {t}, call[q].cookie = t
          PROVE  /\ ~Access!At(q, "done")
                 /\ q \in answered => (Access!At(q, "revoking") \/ failures > 0)
      BY <1>1, <3>3, <3>5 DEF Access!IInv, Access!SessionInv, Access!Pending, Access!At
    <3> QED BY <3>3, <3>4, <3>5 DEF Access!LetsIn
  <2> QED BY <2>1, <2>2
<1>2. /\ IInv => Access!IInv
      /\ [Next]_vars => [Access!Next]_Access!vars
  BY PartSteps DEF IInv
<1> QED BY <1>1, <1>2, ServicesInvariant, PTL
        DEF Spec, AccessStaysClosed, Access!AccessStaysClosed

=============================================================================
