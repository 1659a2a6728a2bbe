------------------------------ MODULE MCTypeFiles ------------------------------
(***************************************************************************)
(* The components that read files and keep what they read, on a small       *)
(* instance: the stamps of Ruby files (FileStamp), the loader of `.rbi`     *)
(* files (RbiLoader) and the declarations of `.rbs` files (UserRbs).  They  *)
(* share no state, so they are checked side by side: each behaviour takes   *)
(* the steps of one of them, and the others keep one initial state.  The    *)
(* `.rbs` part may rest when nothing is left to tell.                       *)
(***************************************************************************)
EXTENDS FileStamp, RbiLoader, UserRbs, TLC

VARIABLE part   \* the component whose steps are taken

MCvars == <<part, vars, rbiVars, rbsVars>>

\* What a `.rbs` file declares: nothing, a class with or without a superclass, another class
\* or both, an alias or a constant, alone or with the class.
MCContent(classes, lasting, names) == [classes |-> classes, lasting |-> lasting, names |-> names]
MCEmpty == MCContent({}, {}, {})
MCRbsContents ==
  {MCEmpty, MCContent({"C"}, {}, {}), MCContent({"C"}, {"C"}, {}), MCContent({"D"}, {}, {}),
   MCContent({"C", "D"}, {}, {}), MCContent({}, {}, {"alias"}), MCContent({"C"}, {}, {"K"})}

MCInit ==
  /\ part \in {"stamps", "rbi", "rbs"}
  /\ Init /\ RbiInit /\ RbsInit
  /\ part # "stamps" => OnDisk = {}
  /\ part # "rbi" => ~in_server /\ \A p \in RbiFiles : rbi_disk[p].classes = {}
  /\ part # "rbs" => \A p \in RbsFiles : rbs_disk[p] = MCEmpty

MCNext ==
  /\ UNCHANGED part
  /\ \/ part = "stamps" /\ Next /\ UNCHANGED <<rbiVars, rbsVars>>
     \/ part = "rbi" /\ RbiNext /\ UNCHANGED <<vars, rbsVars>>
     \/ part = "rbs" /\ RbsNext /\ UNCHANGED <<vars, rbiVars>>
     \/ part = "rbs" /\ rbs_events = {} /\ UNCHANGED <<vars, rbiVars, rbsVars>>

MCSpec == MCInit /\ [][MCNext]_MCvars

\* The paths of `.rbi` files, their classes and the threads can be exchanged.
MCSymmetry ==
  Permutations(RbiFiles) \union Permutations(RbiClasses) \union Permutations(RbiThreads)
===============================================================================
