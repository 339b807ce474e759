----------------------------- MODULE SettingsStore -----------------------------
(***************************************************************************)
(* The store of the user's settings (internal/userconfig/store.go): loads  *)
(* create a default document, saves are optimistic (they name the document *)
(* they were made from) and repair an invalid document after copying it to *)
(* a backup.  A new document is written to a temporary file, synced, and   *)
(* renamed over the old one.                                               *)
(*                                                                         *)
(* Other programs edit the file at any time, every step may fail, and the  *)
(* machine may crash: then the directory goes back to some state since the *)
(* last time it was synced, and a file that was not synced is torn.        *)
(***************************************************************************)
EXTENDS Naturals, FiniteSets

CONSTANTS
    Caller,       \* callers of LoadOrCreate and Save
    Candidate,    \* the values of the settings
    Default,      \* the default settings
    MaxRevision,  \* largest revision (2^64-1 in the code)
    MaxStamp      \* bound: number of files ever written

ASSUME StoreAssumption ==
    /\ Default \in Candidate
    /\ MaxRevision \in Nat \ {0} /\ MaxStamp \in Nat \ {0}

\* A document: valid with a revision and a candidate, or one that decodeLoaded
\* refuses.
Valid(rev, cand) == [kind |-> "valid", rev |-> rev, cand |-> cand]
Invalid          == [kind |-> "invalid", rev |-> 0, cand |-> Default]
Torn             == [kind |-> "torn", rev |-> 0, cand |-> Default]
NoDoc            == [kind |-> "none", rev |-> 0, cand |-> Default]

Document == {Valid(rev, cand) : rev \in 1 .. MaxRevision, cand \in Candidate} \cup {Invalid, Torn, NoDoc}

\* A file.  The stamp stands for the DocumentToken: hash, size, modification
\* time and identity.  A file that the store wrote tells the document it
\* replaced.
File == [doc : Document, stamp : 0 .. MaxStamp, synced : BOOLEAN, over : Document, ours : BOOLEAN]
Foreign(doc, stamp) == [doc |-> doc, stamp |-> stamp, synced |-> TRUE, over |-> NoDoc, ours |-> FALSE]
NoFile == Foreign(NoDoc, 0)

Directory == [file : File, backup : File]

Steps == {"idle", "read", "copy", "recheckCopy", "replaceBackup", "write", "sync", "recheck",
          "replace", "syncDirectory"}

VARIABLES
    dir,        \* the settings file and its backup
    survivors,  \* the directories that a crash may leave
    stamps,     \* stamps given out
    locked,     \* Store.lock is taken
    pc, op,
    loaded,     \* the file a caller has loaded, or NoFile
    cand,       \* the candidate of a Save
    seen,       \* the authoritative file of a call
    temp        \* its temporary file

callVars == <<op, loaded, cand, seen, temp>>
storeVars == <<dir, survivors, stamps, locked, pc, callVars>>

StoreInit ==
    /\ dir \in {[file |-> NoFile, backup |-> NoFile],
                [file |-> Foreign(Invalid, 1), backup |-> NoFile]}
    /\ survivors = {dir}
    /\ stamps = 1
    /\ locked = FALSE
    /\ pc = [c \in Caller |-> "idle"]
    /\ op = [c \in Caller |-> "none"]
    /\ loaded = [c \in Caller |-> NoFile] /\ seen = [c \in Caller |-> NoFile]
    /\ cand = [c \in Caller |-> Default]
    /\ temp = [c \in Caller |-> NoFile]

-----------------------------------------------------------------------------
At(c, step) == pc[c] = step

Go(c, step) == pc' = [pc EXCEPT ![c] = step] /\ UNCHANGED locked

\* Return releases the lock and removes the temporary file.
Return(c) ==
    /\ pc' = [pc EXCEPT ![c] = "idle"]
    /\ temp' = [temp EXCEPT ![c] = NoFile]
    /\ locked' = FALSE

Fails(c) == Return(c) /\ UNCHANGED <<dir, survivors, stamps, op, loaded, cand, seen>>

\* An I/O error, or the end of the context, at any step before the replacement.
Error(c) == pc[c] \notin {"idle", "syncDirectory"} /\ Fails(c)

Begin(c, kind) ==
    /\ At(c, "idle")
    /\ ~locked /\ locked' = TRUE
    /\ op' = [op EXCEPT ![c] = kind]
    /\ pc' = [pc EXCEPT ![c] = "read"]
    /\ UNCHANGED <<dir, survivors, stamps, loaded, seen, temp>>

LoadOrCreate(c) == Begin(c, "load") /\ UNCHANGED cand

Save(c, s) ==
    /\ loaded[c] # NoFile
    /\ Begin(c, "save")
    /\ cand' = [cand EXCEPT ![c] = s]

-----------------------------------------------------------------------------
(* Reading. *)

ReadLoad(c) ==
    /\ At(c, "read") /\ op[c] = "load"
    /\ \/ /\ dir.file = NoFile
          /\ Go(c, "write")
          /\ seen' = [seen EXCEPT ![c] = NoFile]
          /\ UNCHANGED <<loaded, temp>>
       \/ /\ dir.file # NoFile
          /\ loaded' = [loaded EXCEPT ![c] = dir.file]
          /\ Return(c)
          /\ UNCHANGED seen
    /\ UNCHANGED <<dir, survivors, stamps, op, cand>>

\* The document has not changed since the caller loaded it.
AnyDocument(c) == dir.file # NoFile
Unchanged(c) == dir.file # NoFile /\ dir.file.stamp = loaded[c].stamp

\* The settings are equal to the candidate, or there is no further revision.
Settled(c) == dir.file.doc.kind = "valid" /\ (dir.file.doc.cand = cand[c] \/ dir.file.doc.rev = MaxRevision)

ReadSave(c) ==
    /\ At(c, "read") /\ op[c] = "save"
    /\ \/ /\ ~Unchanged(c) \/ Settled(c)
          /\ Return(c)
          /\ UNCHANGED seen
       \/ /\ Unchanged(c) /\ ~Settled(c)
          /\ seen' = [seen EXCEPT ![c] = dir.file]
          /\ Go(c, IF dir.file.doc.kind = "valid" THEN "write" ELSE "copy")
          /\ UNCHANGED temp
    /\ UNCHANGED <<dir, survivors, stamps, op, loaded, cand>>

-----------------------------------------------------------------------------
(* Writing. *)

\* The document has not changed since the call read it.  A file that did not
\* exist may not exist yet.
Same(c) == dir.file.stamp = seen[c].stamp

Written(doc, over, synced) ==
    [doc |-> doc, stamp |-> stamps', synced |-> synced, over |-> over, ours |-> TRUE]

\* copyCurrentToTemporary, with its own check, and its sync
Copy(c) ==
    /\ At(c, "copy")
    /\ stamps < MaxStamp /\ stamps' = stamps + 1
    /\ Same(c)
    /\ temp' = [temp EXCEPT ![c] = Written(dir.file.doc, NoDoc, TRUE)]
    /\ Go(c, "recheckCopy")
    /\ UNCHANGED <<dir, survivors, op, loaded, cand, seen>>

\* The document that a call writes: the defaults, the next revision or, over an
\* invalid document, the first.
NextDocument(c) ==
    IF op[c] = "load" THEN Valid(1, Default)
    ELSE Valid(IF seen[c].doc.kind = "valid" THEN seen[c].doc.rev + 1 ELSE 1, cand[c])

WriteTemporary(c) ==
    /\ At(c, "write")
    /\ stamps < MaxStamp /\ stamps' = stamps + 1
    /\ temp' = [temp EXCEPT ![c] = Written(NextDocument(c), seen[c].doc, FALSE)]
    /\ Go(c, "sync")
    /\ UNCHANGED <<dir, survivors, op, loaded, cand, seen>>

\* finishTemporary
CloseUnsynced(c) ==
    /\ At(c, "sync") /\ Go(c, "recheck")
    /\ UNCHANGED <<dir, survivors, stamps, callVars>>

FinishTemporary(c) ==
    /\ At(c, "sync") /\ Go(c, "recheck")
    /\ temp' = [temp EXCEPT ![c].synced = TRUE]
    /\ UNCHANGED <<dir, survivors, stamps, op, loaded, cand, seen>>

\* replaceTemporary: the check, the rename and the sync of the directory, which
\* is best effort.
Recheck(c) ==
    /\ \/ At(c, "recheckCopy") /\ Go(c, "replaceBackup")
       \/ At(c, "recheck") /\ Go(c, "replace")
    /\ Same(c)
    /\ UNCHANGED <<dir, survivors, stamps, callVars>>

Conflict(c) == pc[c] \in {"copy", "recheckCopy", "recheck"} /\ ~Same(c) /\ Fails(c)

Renamed == survivors' = survivors \cup {dir'}

ReplaceBackup(c) ==
    /\ At(c, "replaceBackup") /\ Go(c, "write")
    /\ dir' = [dir EXCEPT !.backup = temp[c]]
    /\ \/ Renamed
       \/ survivors' = {dir'}
    /\ temp' = [temp EXCEPT ![c] = NoFile]
    /\ UNCHANGED <<stamps, op, loaded, cand, seen>>

Replace(c) ==
    /\ At(c, "replace") /\ Go(c, "syncDirectory")
    /\ dir' = [dir EXCEPT !.file = temp[c]]
    /\ Renamed
    /\ temp' = [temp EXCEPT ![c] = NoFile]
    /\ loaded' = [loaded EXCEPT ![c] = temp[c]]
    /\ UNCHANGED <<stamps, op, cand, seen>>

SyncDirectory(c) ==
    /\ At(c, "syncDirectory")
    /\ survivors' \in {survivors, {dir}}
    /\ Return(c)
    /\ UNCHANGED <<dir, stamps, op, loaded, cand, seen>>

-----------------------------------------------------------------------------
(* Other programs and crashes. *)

\* Another program writes or removes the settings file.
Edit(doc) ==
    /\ stamps < MaxStamp /\ stamps' = stamps + 1
    /\ dir' = [dir EXCEPT !.file =
                 IF doc = NoDoc THEN NoFile ELSE Foreign(doc, stamps')]
    /\ survivors' = {dir'}
    /\ UNCHANGED <<locked, pc, callVars>>

AfterCrash(file) == IF file.synced THEN file ELSE Foreign(Torn, file.stamp)

\* The machine stops; temporary files stay behind and are never read.
Crash ==
    /\ \E d \in survivors :
         dir' = [file |-> AfterCrash(d.file), backup |-> AfterCrash(d.backup)]
    /\ survivors' = {dir'}
    /\ locked' = FALSE
    /\ pc' = [c \in Caller |-> "idle"] /\ op' = [c \in Caller |-> "none"]
    /\ loaded' = [c \in Caller |-> NoFile] /\ seen' = [c \in Caller |-> NoFile]
    /\ cand' = [c \in Caller |-> Default] /\ temp' = [c \in Caller |-> NoFile]
    /\ UNCHANGED stamps

-----------------------------------------------------------------------------
Progress(c) ==
    \/ Error(c) \/ ReadLoad(c) \/ ReadSave(c) \/ Copy(c) \/ WriteTemporary(c) \/ FinishTemporary(c)
    \/ Recheck(c) \/ Conflict(c) \/ ReplaceBackup(c) \/ Replace(c) \/ SyncDirectory(c)

StoreNext ==
    \/ \E c \in Caller : LoadOrCreate(c) \/ Progress(c) \/ \E s \in Candidate : Save(c, s)
    \/ \E doc \in {Valid(1, s) : s \in Candidate} \cup {Invalid, NoDoc} : Edit(doc)
    \/ Crash

StoreSpec == StoreInit /\ [][StoreNext]_storeVars

-----------------------------------------------------------------------------
(* Properties. *)

TypeOK ==
    /\ dir \in Directory /\ survivors \subseteq Directory
    /\ stamps \in 0 .. MaxStamp /\ locked \in BOOLEAN
    /\ pc \in [Caller -> Steps]
    /\ op \in [Caller -> {"none", "load", "save"}]
    /\ loaded \in [Caller -> File] /\ seen \in [Caller -> File] /\ temp \in [Caller -> File]
    /\ cand \in [Caller -> Candidate]

\* Whenever the machine crashes, the settings file and the backup are whole: the
\* old document or the new one, never a torn one.
NeverTorn == dir.file.doc # Torn /\ dir.backup.doc # Torn

\* An invalid document that a Save repaired is in the backup, also after a crash
\* that undoes some of the renames.
RepairKeepsInvalid ==
    \A d \in survivors \cup {dir} : d.file.over.kind = "invalid" => d.backup.doc = d.file.over

\* Files are whole, their revisions within uint64, and nothing repaired is lost.
FilesAreWhole == TypeOK /\ NeverTorn /\ RepairKeepsInvalid

\* Step of call c that renames its file over the settings.
Replaces(c) == pc[c] = "replace" /\ pc'[c] = "syncDirectory"

\* A Save replaces the document that its caller loaded, with the next revision,
\* and a load creates the defaults only where there is no document: neither
\* overwrites what another caller saved in between.
ReplacesLoaded ==
    \A c \in Caller : Replaces(c) /\ dir.file.ours =>
      /\ op[c] = "save"
      /\ dir.file.stamp = loaded[c].stamp
      /\ dir.file.doc.kind = "valid" => dir'.file.doc.rev = dir.file.doc.rev + 1

\* A document that another program wrote is overwritten only in the moment
\* between the last check and the rename, or when it is the one that was loaded.
EditsAreConflicts ==
    \A c \in Caller : pc[c] = "recheck" /\ pc'[c] = "replace" =>
      dir.file.stamp = IF op[c] = "save" THEN loaded[c].stamp ELSE 0

\* No step overwrites what the caller has not seen.
NoLostSave == [][ReplacesLoaded /\ EditsAreConflicts]_storeVars

=============================================================================
