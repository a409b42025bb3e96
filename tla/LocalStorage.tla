---------------------------- MODULE LocalStorage ----------------------------
(***************************************************************************)
(* LocalStorageProvider: an object is a directory with a payload and its   *)
(* metadata.json.  _store prepares the directory in a staging area and     *)
(* renames it; delete takes it apart.  Between two of these steps the      *)
(* process may die, a step may fail, and the machine may lose power, after *)
(* which the disk has what was synced and any part of what was not.        *)
(*                                                                         *)
(* An object is named by its id, which uuid4 never repeats.                *)
(***************************************************************************)
EXTENDS Naturals, FiniteSets

CONSTANTS Objects, MaxFaults

Entries == {"payload", "metadata"}
Places  == {"nowhere", "staging", "area"}
Dir     == [at : Places, has : SUBSET Entries]
Nothing == [at |-> "nowhere", has |-> {}]

VARIABLES dir,      \* what processes see of the directory of an object
          disk,     \* what may be there after a power failure
          store,    \* the step of the _store call that makes the object
          delete,   \* the step of the delete call that removes it: none before it
          owed,     \* keys returned and not given to delete
          faults

vars == <<dir, disk, store, delete, owed, faults>>

Init == /\ dir = [o \in Objects |-> Nothing]
        /\ disk = [o \in Objects |-> {Nothing}]
        /\ store = [o \in Objects |-> "idle"]
        /\ delete = [o \in Objects |-> "none"]
        /\ owed = {}
        /\ faults = 0

Fault == faults < MaxFaults /\ faults' = faults + 1

\* A change that is not synced yet: the disk has it or not.
Change(o, F(_)) ==
    /\ dir' = [dir EXCEPT ![o] = F(@)]
    /\ disk' = [disk EXCEPT ![o] = @ \cup {F(d) : d \in @}]

\* fsync of the area: the directory is where processes see it.  The area itself is
\* made once and taken to be on the disk.
Synced(o) == disk' = [disk EXCEPT ![o] = {dir[o]}]

AddEntry(entry, d)    == [d EXCEPT !.has = @ \cup {entry}]
RemoveEntry(entry, d) == [d EXCEPT !.has = @ \ {entry}]
Put(place, d)         == IF d.at = "nowhere" THEN d ELSE [d EXCEPT !.at = place]

\* metadata: the directory and its metadata.json are there.
Metadata(o) == dir[o].at = "area" /\ "metadata" \in dir[o].has

\* open_read: and so is the payload, which matches its digest.
OpenRead(o) == Metadata(o) /\ "payload" \in dir[o].has

-----------------------------------------------------------------------------
\* mkdtemp, and the payload written and synced.
Stage(o) ==
    /\ store[o] = "idle"
    /\ store' = [store EXCEPT ![o] = "staged"]
    /\ dir' = [dir EXCEPT ![o] = [at |-> "staging", has |-> {"payload"}]]
    /\ disk' = [disk EXCEPT ![o] = {Nothing} \cup [at : {"staging"}, has : {{}, {"payload"}}]]
    /\ UNCHANGED <<delete, owed, faults>>

\* The payload is validated and given its name, and the metadata is written.
Describe(o) ==
    /\ store[o] = "staged"
    /\ store' = [store EXCEPT ![o] = "described"]
    /\ Change(o, LAMBDA d : IF d.at = "staging" THEN AddEntry("metadata", d) ELSE d)
    /\ UNCHANGED <<delete, owed, faults>>

\* The entries of the staging directory are synced; its own place is not.
SyncStaging(o) ==
    /\ store[o] = "described"
    /\ store' = [store EXCEPT ![o] = "synced"]
    /\ disk' = [disk EXCEPT ![o] = {Nothing, dir[o]}]
    /\ UNCHANGED <<dir, delete, owed, faults>>

\* os.rename.
Publish(o) ==
    /\ store[o] = "synced"
    /\ store' = [store EXCEPT ![o] = "published"]
    /\ Change(o, LAMBDA d : Put("area", d))
    /\ UNCHANGED <<delete, owed, faults>>

\* Mutant of Return: the rename is not synced.
ReturnUnsynced(o) ==
    /\ store[o] = "published"
    /\ store' = [store EXCEPT ![o] = "done"]
    /\ owed' = owed \cup {o}
    /\ UNCHANGED <<dir, disk, delete, faults>>

\* The area is synced and the metadata, with the key, returned.
Return(o) ==
    /\ store[o] = "published"
    /\ store' = [store EXCEPT ![o] = "done"]
    /\ Synced(o)
    /\ owed' = owed \cup {o}
    /\ UNCHANGED <<dir, delete, faults>>

\* A step raises: the upload is refused or the disk fails.  What is in staging is
\* removed; a directory that was renamed already stays, and nobody has its key.
Refuse(o) ==
    /\ store[o] \in {"staged", "described", "synced", "published"}
    /\ store' = [store EXCEPT ![o] = "done"]
    /\ IF dir[o].at = "staging" THEN Change(o, LAMBDA d : Nothing)
                                ELSE UNCHANGED <<dir, disk>>
    /\ UNCHANGED <<delete, owed, faults>>

\* delete, approved by someone who has the key, of an object that is complete.
Delete(o) ==
    /\ o \in owed \/ delete[o] = "ended"
    /\ OpenRead(o)
    /\ delete' = [delete EXCEPT ![o] = "payload"]
    /\ owed' = owed \ {o}
    /\ UNCHANGED <<dir, disk, store, faults>>

UnlinkPayload(o) ==
    /\ delete[o] = "payload"
    /\ delete' = [delete EXCEPT ![o] = "metadata"]
    /\ Change(o, LAMBDA d : RemoveEntry("payload", d))
    /\ UNCHANGED <<store, owed, faults>>

UnlinkMetadata(o) ==
    /\ delete[o] = "metadata"
    /\ delete' = [delete EXCEPT ![o] = "directory"]
    /\ Change(o, LAMBDA d : RemoveEntry("metadata", d))
    /\ UNCHANGED <<store, owed, faults>>

RemoveDirectory(o) ==
    /\ delete[o] = "directory"
    /\ delete' = [delete EXCEPT ![o] = "sync"]
    /\ Change(o, LAMBDA d : IF d.has = {} THEN Nothing ELSE d)
    /\ UNCHANGED <<store, owed, faults>>

SyncRemoval(o) ==
    /\ delete[o] = "sync"
    /\ delete' = [delete EXCEPT ![o] = "ended"]
    /\ Synced(o)
    /\ UNCHANGED <<dir, store, owed, faults>>

\* A process dies in the middle of a call.
Die(o) ==
    /\ Fault
    /\ \/ /\ store[o] \notin {"idle", "done"}
          /\ store' = [store EXCEPT ![o] = "done"]
          /\ UNCHANGED delete
       \/ /\ delete[o] \notin {"none", "ended"}
          /\ delete' = [delete EXCEPT ![o] = "ended"]
          /\ UNCHANGED store
    /\ UNCHANGED <<dir, disk, owed>>

\* The machine loses power: every process dies.
LosePower ==
    /\ Fault
    /\ dir' \in {d \in [Objects -> UNION {disk[o] : o \in Objects}] :
                   \A o \in Objects : d[o] \in disk[o]}
    /\ disk' = [o \in Objects |-> {dir'[o]}]
    /\ store' = [o \in Objects |-> IF store[o] = "idle" THEN "idle" ELSE "done"]
    /\ delete' = [o \in Objects |-> IF delete[o] = "none" THEN "none" ELSE "ended"]
    /\ UNCHANGED owed

-----------------------------------------------------------------------------
Next == \/ \E o \in Objects : \/ Stage(o) \/ Describe(o) \/ SyncStaging(o) \/ Publish(o)
                              \/ Return(o) \/ Refuse(o) \/ Delete(o) \/ UnlinkPayload(o)
                              \/ UnlinkMetadata(o) \/ RemoveDirectory(o)
                              \/ SyncRemoval(o) \/ Die(o)
        \/ LosePower

Readable == {o \in Objects : OpenRead(o)}
Deleted  == {o \in Objects : delete[o] # "none"}

Abstract == INSTANCE ObjectStore WITH readable <- Readable, deleted <- Deleted

Spec == Init /\ [][Next]_vars

-----------------------------------------------------------------------------
(* Properties.                                                             *)

Assumption == MaxFaults \in Nat

TypeOK == /\ dir \in [Objects -> Dir]
          /\ disk \in [Objects -> SUBSET Dir]
          /\ store \in [Objects -> {"idle", "staged", "described", "synced",
                                    "published", "done"}]
          /\ delete \in [Objects -> {"none", "payload", "metadata", "directory",
                                     "sync", "ended"}]
          /\ owed \subseteq Objects
          /\ faults \in 0..MaxFaults

\* Through process deaths and power failures the directories of LocalStorage are
\* an ObjectStore: what was stored and returned is whole until it is deleted, and
\* nothing is readable before it is complete.
ImplementsObjectStore == Abstract!Spec

\* A directory that open_read takes for a whole object.
Whole(d) == d.at = "area" /\ d.has = Entries

\* What the calls leave on the disk: nothing in the area before the rename, the
\* whole object when its key is returned, and nothing a power failure could make
\* readable that was not, unless it was being deleted.
Consistent(o) ==
    /\ o \in owed => /\ store[o] = "done" /\ delete[o] = "none"
                     /\ Whole(dir[o]) /\ disk[o] = {dir[o]}
    /\ delete[o] # "none" => store[o] = "done"
    /\ store[o] \in {"staged", "described", "synced"} =>
          /\ dir[o].at = "staging"
          /\ \A d \in disk[o] : d.at # "area"
    /\ store[o] = "staged" => dir[o].has = {"payload"}
    /\ store[o] \in {"described", "synced"} => dir[o].has = Entries
    /\ store[o] = "published" => Whole(dir[o])
    /\ delete[o] = "none" /\ ~Whole(dir[o]) => \A d \in disk[o] : ~Whole(d)

IInv == TypeOK /\ \A o \in Objects : Consistent(o)
=============================================================================
