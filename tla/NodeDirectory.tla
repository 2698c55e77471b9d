----------------------------- MODULE NodeDirectory -----------------------------
(***************************************************************************)
(* nodeDirectory of cmd/ws-ntfy/main.go: the names of the nodes, in memory *)
(* and in a file that is replaced as a whole.                              *)
(*                                                                         *)
(* set is called by one goroutine, that of the NATS subscription to        *)
(* node_info; the lock protects it against titleFor only.  save copies the *)
(* map under the lock and then writes a file beside the one it replaces,   *)
(* in steps between which the process may end.                             *)
(***************************************************************************)
EXTENDS Naturals, Sequences

CONSTANTS
    Nodes,
    Names,
    NoName,     \* the empty string, or no entry
    WriteFails, \* TRUE if a file may fail to be written or renamed
    ReadFails   \* TRUE if the file may fail to be read although it is there

ASSUME DirectoryAssumption ==
    /\ NoName \notin Names
    /\ WriteFails \in BOOLEAN
    /\ ReadFails \in BOOLEAN

VARIABLES
    names,      \* the map in memory
    file,       \* the file; a missing one is one without names
    tmp,        \* the file being written
    saving,     \* where save is
    raw         \* what it writes

directoryVars == <<names, file, tmp, saving, raw>>

Directory == [Nodes -> Names \cup {NoName}]
Nobody == [n \in Nodes |-> NoName]

\* Content that load can parse, and the rest of a write that did not finish.
Whole(d) == [whole |-> TRUE, names |-> d]
Broken == [whole |-> FALSE, names |-> Nobody]
Files == [whole : BOOLEAN, names : Directory]

\* Types of the directory and of its files
DirectoryTypeOK ==
    /\ names \in Directory
    /\ file \in Files
    /\ tmp \in Files
    /\ saving \in {"no", "open", "write", "rename"}
    /\ raw \in Directory

DirectoryInit ==
    /\ names = Nobody
    /\ file = Whole(Nobody)
    /\ tmp = Broken
    /\ saving = "no"
    /\ raw = Nobody

\* newNodeDirectory: what cannot be read or parsed is taken for nothing.
Load ==
    /\ \/ names' = IF file.whole THEN file.names ELSE Nobody
       \/ ReadFails /\ names' = Nobody
    /\ UNCHANGED <<file, tmp, saving, raw>>

\* The process ends; the files stay.
Forget ==
    /\ names' = Nobody
    /\ saving' = "no"
    /\ raw' = Nobody
    /\ UNCHANGED <<file, tmp>>

\* Slip: save runs in a goroutine of its own.
SetSlip(n, name) ==
    /\ names[n] # name
    /\ names' = [names EXCEPT ![n] = name]
    /\ IF saving = "no" THEN saving' = "open" /\ raw' = names'
       ELSE UNCHANGED <<saving, raw>>
    /\ UNCHANGED <<file, tmp>>

\* A name that is not known yet; save is called after the lock is released,
\* and copies the map under it again.
Set(n, name) ==
    /\ saving = "no" /\ names[n] # name
    /\ names' = [names EXCEPT ![n] = name]
    /\ saving' = "open"
    /\ raw' = names'
    /\ UNCHANGED <<file, tmp>>

\* Slip: the file itself is written.
OpenTmpSlip ==
    /\ saving = "open"
    /\ saving' = "write" /\ file' = Broken
    /\ UNCHANGED <<names, tmp, raw>>

\* os.WriteFile empties the file, writes and closes it.
OpenTmp ==
    /\ saving = "open"
    /\ \/ saving' = "write" /\ tmp' = Broken
       \/ WriteFails /\ saving' = "no" /\ UNCHANGED tmp
    /\ UNCHANGED <<names, file, raw>>

WriteTmp ==
    /\ saving = "write"
    /\ \/ saving' = "rename" /\ tmp' = Whole(raw)
       \/ WriteFails /\ saving' = "no" /\ UNCHANGED tmp
    /\ UNCHANGED <<names, file, raw>>

Rename ==
    /\ saving = "rename"
    /\ \/ file' = tmp /\ tmp' = Broken
       \/ WriteFails /\ UNCHANGED <<file, tmp>>
    /\ saving' = "no"
    /\ UNCHANGED <<names, raw>>

Save == OpenTmp \/ WriteTmp \/ Rename
===============================================================================
