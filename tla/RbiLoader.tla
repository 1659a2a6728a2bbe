------------------------------ MODULE RbiLoader ------------------------------
(***************************************************************************)
(* LazyRbiLoader (src/src/sorbet/rbi.rs): which `.rbi` files declare a      *)
(* class, the files parsed so far, and the shape of each class, merged from *)
(* all the files that declare it and shared by every analysis.              *)
(*                                                                         *)
(* Processes.  Threads that analyse Ruby files and ask for the shape of a   *)
(* class; in a server one thread that reloads the files the watcher names,  *)
(* under the lock of LspState, which analysing threads do not hold; other   *)
(* programs, which write the files.  Each of the loader's maps has a mutex  *)
(* of its own, and nothing holds two of them: a step is one such section,   *)
(* or one use of a OnceLock.                                                *)
(*                                                                         *)
(* Data.  The content of a file is a number that is never used twice and    *)
(* the classes the file declares; a file that is missing declares none.     *)
(* The files of a class form a set: which of two declarations of a method   *)
(* wins is left out.                                                        *)
(***************************************************************************)
EXTENDS Naturals, Sequences, FiniteSets

CONSTANTS
  RbiFiles,     \* paths of `.rbi` files
  RbiClasses,   \* names of classes
  RbiThreads,   \* threads that analyse files
  FileSlots,    \* identities of file slots, enough for those in use at once
  NoSlot,       \* no slot
  Cap,          \* file_cache.cap
  MaxWrites     \* bound: files written

ASSUME RbiConstants ==
  /\ Cap \in Nat \ {0}
  /\ MaxWrites \in Nat
  /\ NoSlot \notin FileSlots

INSTANCE BoundedFileCache WITH Keys <- RbiFiles

VARIABLES
  in_server,         \* the loader of a server, which reloads files; else of a batch run
  rbi_disk,          \* path |-> content
  rbi_writes,        \* contents written so far
  rbi_events,        \* changes the watcher has yet to tell
  pending_files,     \* files that are not indexed yet
  index_materialized,\* OnceLock: "new", "running" or "set"
  file_to_classes,   \* path |-> classes; class_to_files is its inverse
  file_cache,        \* the cache of file slots
  slot_content,      \* file slot |-> the content it was initialised with, or Unset
  epoch,             \* how often shared_shapes was cleared
  shapes,            \* <<class, epoch>> |-> the slot created for the class in that epoch
  users,             \* what each thread is doing
  reload,            \* the reload under way
  reloaded,          \* history: the content a file had at its last reload
  racing             \* history: slots whose files were looked up in the middle of a reload

rbiVars == <<in_server, rbi_disk, rbi_writes, rbi_events, pending_files, index_materialized,
             file_to_classes, file_cache, slot_content, epoch, shapes, users, reload,
             reloaded, racing>>
rbi_files == <<in_server, rbi_disk, rbi_writes, rbi_events>>
rbi_index == <<pending_files, index_materialized, file_to_classes>>
rbi_cache == <<file_cache, slot_content>>
rbi_history == <<reloaded, racing>>

Unset == [stamp |-> 0, classes |-> {}, set |-> FALSE]
Content(stamp, classes) == [stamp |-> stamp, classes |-> classes, set |-> TRUE]
Epochs == 0 .. MaxWrites

\* A slot of shared_shapes: nobody has used it, a thread is building the shape, or the shape
\* is there: the pairs of a file and the content merged from it, none for None.
NewShape == [state |-> "new", parts |-> {}]
Resting == [pc |-> "idle", slot |-> <<>>, files |-> {}, file |-> <<>>, fslot |-> NoSlot,
            parts |-> {}]
NoReload == [pc |-> "none", file |-> <<>>, stamp |-> 0, classes |-> {}]

LookupClassFiles(class) == {p \in RbiFiles : class \in file_to_classes[p]}

\* LazyRbiLoader::new, for a batch run, leaves all files pending; from_indexed_file_classes,
\* for a server, has indexed them.
RbiInit ==
  /\ in_server \in BOOLEAN
  /\ \E declared \in [RbiFiles -> SUBSET RbiClasses] :
       /\ rbi_disk = [p \in RbiFiles |-> Content(0, declared[p])]
       /\ \/ in_server /\ pending_files = {} /\ file_to_classes = declared
          \/ /\ ~in_server /\ pending_files = RbiFiles
             /\ file_to_classes = [p \in RbiFiles |-> {}]
  /\ rbi_writes = 0
  /\ rbi_events = {}
  /\ index_materialized = "new"
  /\ file_cache = EmptyCache
  /\ slot_content = [s \in FileSlots |-> Unset]
  /\ epoch = 0
  /\ shapes = [s \in RbiClasses \X Epochs |-> NewShape]
  /\ users = [t \in RbiThreads |-> Resting]
  /\ reload = NoReload
  /\ reloaded = [p \in RbiFiles |-> 0]
  /\ racing = {}

-----------------------------------------------------------------------------
(* Other programs. *)

RbiWrite(p, classes) ==
  /\ in_server /\ rbi_writes < MaxWrites
  /\ rbi_writes' = rbi_writes + 1
  /\ rbi_disk' = [rbi_disk EXCEPT ![p] = Content(rbi_writes + 1, classes)]
  /\ rbi_events' = rbi_events \union {p}
  /\ UNCHANGED <<in_server, rbi_index, rbi_cache, epoch, shapes, users, reload, rbi_history>>

-----------------------------------------------------------------------------
(* merge_class_into, by a thread that analyses a file. *)

Users(t, u) ==
  /\ users' = [users EXCEPT ![t] = u]
  /\ UNCHANGED <<rbi_files, epoch, reload, reloaded>>

\* The slot of the class, as it is or fresh.
TakeShapeSlot(t, class) ==
  /\ users[t].pc = "idle"
  /\ Users(t, [Resting EXCEPT !.pc = "slot", !.slot = <<class, epoch>>])
  /\ UNCHANGED <<rbi_index, rbi_cache, shapes, racing>>

\* Mutant: whoever finds no shape builds it.
UseShapeSlotTwice(t) ==
  /\ users[t].pc = "slot"
  /\ LET s == users[t].slot IN
     \/ /\ shapes[s].state # "set"
        /\ shapes' = [shapes EXCEPT ![s].state = "building"]
        /\ Users(t, [users[t] EXCEPT !.pc = "index"])
     \/ /\ shapes[s].state = "set"
        /\ Users(t, Resting)
        /\ UNCHANGED shapes
  /\ UNCHANGED <<rbi_index, rbi_cache, racing>>

\* get_or_init: the first thread builds the shape, the others wait for it.
UseShapeSlot(t) ==
  /\ users[t].pc = "slot"
  /\ LET s == users[t].slot IN
     \/ /\ shapes[s].state = "new"
        /\ shapes' = [shapes EXCEPT ![s].state = "building"]
        /\ Users(t, [users[t] EXCEPT !.pc = "index"])
     \/ /\ shapes[s].state = "set"
        /\ Users(t, Resting)
        /\ UNCHANGED shapes
  /\ UNCHANGED <<rbi_index, rbi_cache, racing>>

\* The first build takes the files that are not indexed, and the other builds wait for it;
\* then the files of the class are looked up.
TakePending(t) ==
  /\ users[t].pc = "index" /\ index_materialized = "new"
  /\ index_materialized' = "running"
  /\ pending_files' = {}
  /\ Users(t, [users[t] EXCEPT !.pc = "indexing", !.files = pending_files])
  /\ UNCHANGED <<file_to_classes, rbi_cache, shapes, racing>>

IndexPending(t) ==
  /\ users[t].pc = "indexing"
  /\ index_materialized' = "set"
  /\ file_to_classes' = [p \in RbiFiles |->
       IF p \in users[t].files THEN rbi_disk[p].classes ELSE file_to_classes[p]]
  /\ Users(t, [users[t] EXCEPT !.pc = "index", !.files = {}])
  /\ UNCHANGED <<pending_files, rbi_cache, shapes, racing>>

\* Mutant: the files are looked up while another thread still indexes.
LookUpEarly(t) ==
  /\ users[t].pc = "index" /\ index_materialized # "new"
  /\ Users(t, [users[t] EXCEPT !.pc = "load", !.files = LookupClassFiles(users[t].slot[1])])
  /\ racing' = IF reload.pc \in {"read", "insert"} THEN racing \union {users[t].slot} ELSE racing
  /\ UNCHANGED <<rbi_index, rbi_cache, shapes>>

LookUp(t) ==
  /\ users[t].pc = "index" /\ index_materialized = "set"
  /\ Users(t, [users[t] EXCEPT !.pc = "load", !.files = LookupClassFiles(users[t].slot[1])])
  /\ racing' = IF reload.pc \in {"read", "insert"} THEN racing \union {users[t].slot} ELSE racing
  /\ UNCHANGED <<rbi_index, rbi_cache, shapes>>

\* A slot that neither the cache nor a thread holds is gone.
FreeSlot(s) ==
  /\ \A p \in RbiFiles : file_cache.entries[p] # s
  /\ \A t \in RbiThreads : users[t].fslot # s

\* load_file_registry: the slot of the file comes from the cache or goes into it, which may
\* give up another one ...
TakeFileSlot(t, p) ==
  /\ users[t].pc = "load" /\ p \in users[t].files
  /\ LET fresh == CHOOSE s \in FileSlots : FreeSlot(s)
         cached == file_cache.entries[p] # NoSlot
         s == IF cached THEN file_cache.entries[p] ELSE fresh
     IN /\ cached \/ \E free \in FileSlots : FreeSlot(free)
        /\ file_cache' = IF cached THEN file_cache ELSE CacheInsert(file_cache, p, s)
        /\ slot_content' = IF cached THEN slot_content ELSE [slot_content EXCEPT ![s] = Unset]
        /\ Users(t, [users[t] EXCEPT !.pc = "parse", !.file = p, !.fslot = s,
                                     !.files = @ \ {p}])
  /\ UNCHANGED <<rbi_index, shapes, racing>>

\* ... and the file is read by the first thread that uses the slot, whoever else holds it.
ParseFile(t) ==
  /\ users[t].pc = "parse"
  /\ LET p == users[t].file
         s == users[t].fslot
         content == IF slot_content[s].set THEN slot_content[s] ELSE rbi_disk[p]
         part == IF users[t].slot[1] \in content.classes THEN {<<p, content.stamp>>} ELSE {}
     IN /\ slot_content' = [slot_content EXCEPT ![s] = content]
        /\ Users(t, [users[t] EXCEPT !.pc = "load", !.file = <<>>, !.fslot = NoSlot,
                                     !.parts = @ \union part])
  /\ UNCHANGED <<rbi_index, file_cache, shapes, racing>>

\* The shape is built; the slot may be one that shared_shapes no longer holds.
SetShape(t) ==
  /\ users[t].pc = "load" /\ users[t].files = {}
  /\ shapes' = [shapes EXCEPT ![users[t].slot] = [state |-> "set", parts |-> users[t].parts]]
  /\ Users(t, Resting)
  /\ UNCHANGED <<rbi_index, rbi_cache, racing>>

-----------------------------------------------------------------------------
(* reload_path, one section of each mutex after the other. *)

ReloadIndex(p) ==
  /\ in_server /\ reload.pc = "none" /\ p \in rbi_events
  /\ rbi_events' = rbi_events \ {p}
  /\ file_to_classes' = [file_to_classes EXCEPT ![p] = {}]
  /\ pending_files' = pending_files \ {p}
  /\ reload' = [NoReload EXCEPT !.pc = "cache", !.file = p]
  /\ UNCHANGED <<in_server, rbi_disk, rbi_writes, index_materialized, rbi_cache, epoch, shapes,
                 users, rbi_history>>

\* Mutant: the file is not taken out of the cache.
ReloadLeavesCache ==
  /\ reload.pc = "cache"
  /\ reload' = [reload EXCEPT !.pc = "shapes", !.stamp = rbi_disk[reload.file].stamp]
  /\ UNCHANGED <<rbi_files, rbi_index, rbi_cache, epoch, shapes, users, rbi_history>>

ReloadCache ==
  /\ reload.pc = "cache"
  /\ file_cache' = CacheRemove(file_cache, reload.file)
  /\ reload' = [reload EXCEPT !.pc = "shapes", !.stamp = rbi_disk[reload.file].stamp]
  /\ UNCHANGED <<rbi_files, rbi_index, slot_content, epoch, shapes, users, rbi_history>>

\* Mutant: the shapes built so far are kept.
ReloadKeepsShapes ==
  /\ reload.pc = "shapes"
  /\ reload' = [reload EXCEPT !.pc = "read"]
  /\ reloaded' = [reloaded EXCEPT ![reload.file] = reload.stamp]
  /\ UNCHANGED <<rbi_files, rbi_index, rbi_cache, epoch, shapes, users, racing>>

\* Threads may still hold slots of the epoch that ends.
ReloadShapes ==
  /\ reload.pc = "shapes"
  /\ epoch' = epoch + 1
  /\ reload' = [reload EXCEPT !.pc = "read"]
  /\ reloaded' = [reloaded EXCEPT ![reload.file] = reload.stamp]
  /\ UNCHANGED <<rbi_files, rbi_index, rbi_cache, shapes, users, racing>>

ReloadRead ==
  /\ reload.pc = "read"
  /\ reload' = [reload EXCEPT !.pc = "insert", !.classes = rbi_disk[reload.file].classes]
  /\ UNCHANGED <<rbi_files, rbi_index, rbi_cache, epoch, shapes, users, rbi_history>>

ReloadInsert ==
  /\ reload.pc = "insert"
  /\ file_to_classes' = [file_to_classes EXCEPT ![reload.file] = reload.classes]
  /\ reload' = NoReload
  /\ UNCHANGED <<rbi_files, pending_files, index_materialized, rbi_cache, epoch, shapes, users,
                 rbi_history>>

-----------------------------------------------------------------------------
RbiNext ==
  \/ \E p \in RbiFiles, classes \in SUBSET RbiClasses : RbiWrite(p, classes)
  \/ \E t \in RbiThreads :
       \/ \E class \in RbiClasses : TakeShapeSlot(t, class)
       \/ UseShapeSlot(t) \/ TakePending(t) \/ IndexPending(t) \/ LookUp(t)
       \/ \E p \in RbiFiles : TakeFileSlot(t, p)
       \/ ParseFile(t) \/ SetShape(t)
  \/ \E p \in RbiFiles : ReloadIndex(p)
  \/ ReloadCache \/ ReloadShapes \/ ReloadRead \/ ReloadInsert

RbiSpec == RbiInit /\ [][RbiNext]_rbiVars

-----------------------------------------------------------------------------
(* Properties. *)

\* Types; and what is being built, the index or a shape, has exactly one thread that builds it.
RbiTypeOK ==
  /\ in_server \in BOOLEAN
  /\ rbi_writes \in Epochs /\ epoch \in Epochs
  /\ rbi_events \in SUBSET RbiFiles /\ pending_files \in SUBSET RbiFiles
  /\ index_materialized \in {"new", "running", "set"}
  /\ file_to_classes \in [RbiFiles -> SUBSET RbiClasses]
  /\ file_cache.entries \in [RbiFiles -> FileSlots \union {NoSlot}]
  /\ shapes \in [RbiClasses \X Epochs ->
       [state : {"new", "building", "set"}, parts : SUBSET (RbiFiles \X Epochs)]]
  /\ index_materialized = "running" <=> \E t \in RbiThreads : users[t].pc = "indexing"
  /\ \A s \in RbiClasses \X Epochs :
       LET builders == {t \in RbiThreads :
                          users[t].slot = s /\ users[t].pc \notin {"idle", "slot"}}
       IN Cardinality(builders) = IF shapes[s].state = "building" THEN 1 ELSE 0

\* The shape the loader hands out for a class, when there is one.
CachedShape(class) == shapes[<<class, epoch>>]

\* What the files on disk declare for the class.
Declared(class) ==
  {<<p, rbi_disk[p].stamp>> : p \in {p \in RbiFiles : class \in rbi_disk[p].classes}}

\* However the threads that build shapes interleave with a reload, with each other and with
\* evictions from the file cache, no cached shape is merged from a content older than the
\* last reload of its file.
NoShapeOutdated ==
  \A class \in RbiClasses : \A part \in CachedShape(class).parts : part[2] >= reloaded[part[1]]

\* "Avoids permanently caching a transient `None` as the shape while the lazy indexer isn't
\* fully materialized yet": the first threads of a run find every declaring file, although
\* one of them still fills the index.
FirstShapesWhole ==
  \A class \in RbiClasses :
    rbi_writes = 0 /\ CachedShape(class).state = "set"
      => CachedShape(class).parts = Declared(class)

\* The changes the watcher reported have been handled.
RbiQuiet == rbi_events = {} /\ reload.pc = "none"

\* Once the changes are handled, a cached shape is merged from all the files that declare
\* the class, as they are, unless its files were looked up between the moment a reload
\* cleared the shapes and the moment it put the file back into the index.
ShapesWholeOutsideReload ==
  RbiQuiet => \A class \in RbiClasses :
    CachedShape(class).state = "set" /\ <<class, epoch>> \notin racing
      => CachedShape(class).parts = Declared(class)

\* "Canonical shape build: merges all declaring `.rbi` files": no exception.
ShapesWhole ==
  RbiQuiet => \A class \in RbiClasses :
    CachedShape(class).state = "set" => CachedShape(class).parts = Declared(class)

\* The bookkeeping of the file cache stays together under misses, evictions and reloads.
FileCacheCoherent == Coherent(file_cache)
===============================================================================
