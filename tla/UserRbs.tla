------------------------------- MODULE UserRbs -------------------------------
(***************************************************************************)
(* state.user_rbs, what the `.rbs` files of a workspace declare, and        *)
(* type_file_classes, which classes each of them declared when it was read  *)
(* last (src/src/rbs/workspace.rs, src/src/rbs/import.rs).  A change of a   *)
(* file takes the classes it declared out of user_rbs and loads the file    *)
(* again; all of it happens under the lock of LspState.  Only the names of  *)
(* classes are remembered, and of a class only what nothing else marked as  *)
(* user defined is taken out with it.                                       *)
(*                                                                         *)
(* Data.  A declaration is the file it is in and the number of the file's   *)
(* content, which is never used twice.  A file that is missing, or that     *)
(* does not parse, declares nothing.  What a type means where an alias is   *)
(* used in it is settled when the file is loaded, and left out.  A class    *)
(* alias counts as a constant; that its name is remembered with those of    *)
(* the classes is left out.                                                 *)
(***************************************************************************)
EXTENDS Naturals

CONSTANTS
  RbsFiles,     \* paths of `.rbs` files
  RbsClasses,   \* names of classes, modules and interfaces
  RbsNames,     \* names of type aliases, constants and globals
  RbsAliases,   \* those of type aliases
  RbsContents,  \* what a file can declare: classes, names, and the lasting classes, which have
                \* a superclass or a constant in it, or are modules or interfaces
  MaxRbsWrites  \* bound: files written

ASSUME RbsConstants ==
  /\ MaxRbsWrites \in Nat
  /\ RbsContents \subseteq
       [classes : SUBSET RbsClasses, lasting : SUBSET RbsClasses, names : SUBSET RbsNames]

VARIABLES
  rbs_disk,           \* path |-> its content
  rbs_stamp,          \* path |-> the number of its content
  rbs_writes,         \* contents written so far
  rbs_events,         \* changes the watcher has yet to tell
  type_file_classes,  \* path |-> classes
  user_methods,       \* class |-> the declarations its methods are from
  user_classes,       \* class |-> those its superclass, mixins and variables are from
  user_defined,       \* the classes with ClassData.user_defined
  user_names,         \* name |-> the declaration it is from, if there is one
  sharers             \* history: class or name |-> the files that ever declared it

rbsVars == <<rbs_disk, rbs_stamp, rbs_writes, rbs_events, type_file_classes, user_methods,
             user_classes, user_defined, user_names, sharers>>

\* What loading the files now gives for a class, and for a name.
DeclarationIn(p) == <<p, rbs_stamp[p]>>
OnDiskFor(class) == {DeclarationIn(p) : p \in {q \in RbsFiles : class \in rbs_disk[q].classes}}
NamedOnDisk(name) == {DeclarationIn(p) : p \in {q \in RbsFiles : name \in rbs_disk[q].names}}

Declares(content) == content.classes \union content.names

\* load_rbs_definitions_with_classes.  Of several declarations of a name one is the last.
RbsInit ==
  /\ rbs_disk \in [RbsFiles -> RbsContents]
  /\ rbs_stamp = [p \in RbsFiles |-> 0]
  /\ rbs_writes = 0
  /\ rbs_events = {}
  /\ type_file_classes = [p \in RbsFiles |-> rbs_disk[p].classes]
  /\ user_methods = [class \in RbsClasses |-> OnDiskFor(class)]
  /\ user_classes = user_methods
  /\ user_defined = UNION {rbs_disk[p].lasting : p \in RbsFiles}
  /\ \E last \in [RbsNames -> RbsFiles] :
       /\ \A name \in RbsNames :
            NamedOnDisk(name) # {} => DeclarationIn(last[name]) \in NamedOnDisk(name)
       /\ user_names = [name \in RbsNames |->
            NamedOnDisk(name) \intersect {DeclarationIn(last[name])}]
  /\ sharers = [it \in RbsClasses \union RbsNames |->
       {p \in RbsFiles : it \in Declares(rbs_disk[p])}]

RbsWrite(p, content) ==
  /\ rbs_writes < MaxRbsWrites
  /\ rbs_writes' = rbs_writes + 1
  /\ rbs_disk' = [rbs_disk EXCEPT ![p] = content]
  /\ rbs_stamp' = [rbs_stamp EXCEPT ![p] = rbs_writes + 1]
  /\ rbs_events' = rbs_events \union {p}
  /\ sharers' = [it \in RbsClasses \union RbsNames |->
       IF it \in Declares(content) THEN sharers[it] \union {p} ELSE sharers[it]]
  /\ UNCHANGED <<type_file_classes, user_methods, user_classes, user_defined, user_names>>

\* Mutant: the classes of the new content are taken out, not those of the last one.
CutNew(p) == rbs_disk[p].classes

\* The classes whose declarations a reload takes out, whatever file they are in.
Cut(p) == type_file_classes[p]

\* What a file gives a class.
Loaded(p, class) == IF class \in rbs_disk[p].classes THEN {DeclarationIn(p)} ELSE {}

\* resolve_rbs_type_aliases starts from the aliases that are there, and leaves them.
AliasKept(name) == name \in RbsAliases /\ user_names[name] # {}

\* reload_external_type_file: the methods of a class go, and the class with them unless it is
\* marked as user defined.
RbsReload(p) ==
  /\ p \in rbs_events
  /\ rbs_events' = rbs_events \ {p}
  /\ user_methods' = [class \in RbsClasses |->
       (IF class \in Cut(p) THEN {} ELSE user_methods[class]) \union Loaded(p, class)]
  /\ user_classes' = [class \in RbsClasses |->
       (IF class \in Cut(p) \ user_defined THEN {} ELSE user_classes[class])
         \union Loaded(p, class)]
  /\ user_defined' = user_defined \union rbs_disk[p].lasting
  /\ user_names' = [name \in RbsNames |->
       IF name \in rbs_disk[p].names /\ ~AliasKept(name) THEN {DeclarationIn(p)}
       ELSE user_names[name]]
  /\ type_file_classes' = [type_file_classes EXCEPT ![p] = rbs_disk[p].classes]
  /\ UNCHANGED <<rbs_disk, rbs_stamp, rbs_writes, sharers>>

RbsNext ==
  \E p \in RbsFiles : RbsReload(p) \/ \E content \in RbsContents : RbsWrite(p, content)

RbsSpec == RbsInit /\ [][RbsNext]_rbsVars

-----------------------------------------------------------------------------
(* Properties. *)

RbsDeclarations == RbsFiles \X (0 .. rbs_writes)

RbsTypeOK ==
  /\ rbs_writes \in 0 .. MaxRbsWrites
  /\ rbs_disk \in [RbsFiles -> RbsContents]
  /\ rbs_stamp \in [RbsFiles -> 0 .. rbs_writes]
  /\ rbs_events \in SUBSET RbsFiles
  /\ type_file_classes \in [RbsFiles -> SUBSET RbsClasses]
  /\ user_methods \in [RbsClasses -> SUBSET RbsDeclarations]
  /\ user_classes \in [RbsClasses -> SUBSET RbsDeclarations]
  /\ user_defined \in SUBSET RbsClasses
  /\ user_names \in [RbsNames -> SUBSET RbsDeclarations]
  /\ sharers \in [RbsClasses \union RbsNames -> SUBSET RbsFiles]

\* At most one file ever declared it.
Unshared(it) == \A p, q \in sharers[it] : p = q

\* Whatever files were written, and in whatever order the watcher told, once all is told no
\* method is one its file no longer has, nor is anything else of a class that was never marked
\* as user defined; and what at most one file ever declared is there as that file declares it:
\* classes whole, constants and globals, while of a type alias there may be an older
\* declaration.  (A class that two files declare loses what the one says when the other is
\* reloaded.  A constant, a global or an alias that no file declares any more stays, and so do
\* the superclass, the mixins and the variables of a class that is marked.)
UserRbsTrue ==
  rbs_events = {} =>
    /\ \A class \in RbsClasses :
         /\ user_methods[class] \subseteq OnDiskFor(class)
         /\ class \notin user_defined => user_classes[class] \subseteq OnDiskFor(class)
         /\ Unshared(class) =>
              OnDiskFor(class) \subseteq user_methods[class] \intersect user_classes[class]
    /\ \A name \in RbsNames : Unshared(name) /\ NamedOnDisk(name) # {} =>
         /\ user_names[name] # {}
         /\ name \notin RbsAliases => user_names[name] = NamedOnDisk(name)
===============================================================================
