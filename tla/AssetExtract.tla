---------------------------- MODULE AssetExtract ----------------------------
(* NativeTool.extractAssetFileToDataDir and the list overload of            *)
(* copy_assert_helper.h: assets of the installed package are copied to the  *)
(* app's files directory, unless a file of that name is there.  The calls   *)
(* come one after the other from the main looper; the process may be killed *)
(* between any two steps and the package updated, the files stay.           *)
EXTENDS Integers, Sequences

CONSTANTS
    Assets,      \* asset paths
    Files,       \* paths below the files directory
    Target,      \* Target[a]: sub directory and base name a is copied to
    Lists,       \* the lists the list overload is called with
    Faults,      \* the faults the environment may inject (subset of AllFaults)
    MaxVersion,  \* bound: versions of the package
    MaxKills     \* bound: times the process is killed, updates not counted

AllFaults == {"noDataDir",    \* the path of the files directory is NULL
              "noAsset",      \* AAssetManager_open returns NULL
              "noTarget",     \* fopen fails, the sub directory is missing
              "readFails",    \* AAsset_read returns -1
              "diskFull"}     \* fwrite or fclose writes less than asked

ASSUME AssetAssumption ==
    /\ Target \in [Assets -> Files]
    /\ Lists \subseteq Seq(Assets)
    /\ Faults \subseteq AllFaults
    /\ MaxVersion \in Nat \ {0}
    /\ MaxKills \in Nat

VARIABLES
    version,    \* of the installed package: its assets differ per version
    kills,
    file,       \* what each path of the files directory holds
    pc,
    todo,       \* assets of the call not copied yet
    list,       \* the call is one of the list overload
    answer,     \* what the last call returned: "none", "true" or "false"
    asked,      \* history: the assets the last call asked for
    before,     \* history: the files when that call began
    disturbed   \* history: a fault, a kill or an update left its mark

call == <<todo, list, answer, asked, before>>
vars == <<version, kills, file, pc, call, disturbed>>

\* A path holds nothing, or what has reached the disk of one asset.
NoFile   == [part |-> "absent"]
Contents == [of : Assets, version : 1..MaxVersion, part : {"empty", "some", "all"}]
Copy(a, part) == [of |-> a, version |-> version, part |-> part]

Init ==
    /\ version = 1 /\ kills = 0
    /\ file = [p \in Files |-> NoFile]
    /\ pc = "idle"
    /\ todo = <<>> /\ list = FALSE
    /\ answer = "none" /\ asked = <<>> /\ before = file
    /\ disturbed = FALSE

Path == Target[Head(todo)]

Disturb(b) == disturbed' = (disturbed \/ b)

-----------------------------------------------------------------------------
\* Mutant of Return: the rest of the list is kept.
ReturnKeeps(b) ==
    /\ pc' = "idle"
    /\ answer' = IF b THEN "true" ELSE "false"
    /\ UNCHANGED <<todo, list, asked, before>>

\* The call returns b.
Return(b) ==
    /\ pc' = "idle"
    /\ todo' = <<>>
    /\ answer' = IF b THEN "true" ELSE "false"
    /\ UNCHANGED <<list, asked, before>>

\* One asset is dealt with.  The single call returns the result; the list
\* overload stops at the first FALSE and returns TRUE all the same.
Copied(b) ==
    IF b /\ Len(todo) > 1
    THEN /\ pc' = "exists"
         /\ todo' = Tail(todo)
         /\ UNCHANGED <<list, answer, asked, before>>
    ELSE Return(list \/ b)

\* A call begins; without the data directory it returns FALSE at once.
Begin(assets, many) ==
    /\ pc = "idle"
    /\ asked' = assets /\ before' = file /\ list' = many
    /\ \/ /\ "noDataDir" \in Faults
          /\ answer' = "false"
          /\ UNCHANGED <<pc, todo>>
       \/ /\ assets # <<>>
          /\ pc' = "exists" /\ todo' = assets /\ answer' = "none"
       \/ /\ assets = <<>>
          /\ answer' = "true"
          /\ UNCHANGED <<pc, todo>>
    /\ UNCHANGED <<version, kills, file, disturbed>>

extractAssetFileToDataDir == \E a \in Assets : Begin(<<a>>, FALSE)
CopyAssetsFile2DataDir    == \E s \in Lists : Begin(s, TRUE)

\* Mutant of Present: a file that is not complete does not count.
PresentWhole(p) == file[p] # NoFile /\ file[p].part = "all"

\* access(path, F_OK)
Present(p) == file[p] # NoFile

\* A file that is there, whatever it holds, is taken for the copy.
isFileExist ==
    /\ pc = "exists"
    /\ IF Present(Path) THEN Copied(TRUE)
                        ELSE pc' = "open" /\ UNCHANGED call
    /\ UNCHANGED <<version, kills, file, disturbed>>

\* Mutant of Opened: the target is created before the asset is looked for.
OpenedLate == [file EXCEPT ![Path] = Copy(Head(todo), "empty")]

\* AAssetManager_open leaves the files alone.
Opened == file

AAssetManager_open ==
    /\ pc = "open"
    /\ \/ pc' = "fopen" /\ UNCHANGED <<call, disturbed>>
       \/ "noAsset" \in Faults /\ Copied(FALSE) /\ Disturb(list)
    /\ file' = Opened
    /\ UNCHANGED <<version, kills>>

\* fopen(path, "w+") creates the file or truncates it.
fopen ==
    /\ pc = "fopen"
    /\ \/ /\ pc' = "write"
          /\ file' = [file EXCEPT ![Path] = Copy(Head(todo), "empty")]
          /\ UNCHANGED <<call, disturbed>>
       \/ /\ "noTarget" \in Faults
          /\ Copied(FALSE) /\ Disturb(list)
          /\ UNCHANGED file
    /\ UNCHANGED <<version, kills>>

\* The process is gone; the files are as far as they were written.
Die ==
    /\ pc' = "idle"
    /\ todo' = <<>> /\ answer' = "none"
    /\ UNCHANGED <<list, asked, before>>

\* AAsset_read and fwrite of the whole length: some of it stays in the stream's
\* buffer.  A failed read gives fwrite the length (size_t)-1, out of the buffer.
fwrite ==
    /\ pc = "write"
    /\ \/ /\ pc' = "close"
          /\ \E part \in {"empty", "some", "all"} :
                file' = [file EXCEPT ![Path] = Copy(Head(todo), part)]
          /\ UNCHANGED <<call, disturbed>>
       \/ /\ "readFails" \in Faults
          /\ Die /\ Disturb(TRUE)
          /\ \E part \in {"empty", "some"} :
                file' = [file EXCEPT ![Path] = Copy(Head(todo), part)]
    /\ UNCHANGED <<version, kills>>

\* Mutant of Flushed: what is in the stream's buffer is lost.
FlushedNot(p) == file

\* The files after fclose wrote the rest of p.
Flushed(p) == [file EXCEPT ![p] = Copy(Head(todo), "all")]

\* fclose writes the rest; what it and fwrite return is not looked at.
fclose ==
    /\ pc = "close"
    /\ \/ file' = Flushed(Path) /\ UNCHANGED disturbed
       \/ "diskFull" \in Faults /\ UNCHANGED file /\ Disturb(TRUE)
    /\ Copied(TRUE)
    /\ UNCHANGED <<version, kills>>

\* The system or the user kills the process, at any time.
Kill ==
    /\ kills < MaxKills
    /\ kills' = kills + 1
    /\ Die /\ Disturb(pc \in {"write", "close"})
    /\ UNCHANGED <<version, file>>

\* A new version of the package is installed: the process is killed and the
\* files directory kept.
Update ==
    /\ version < MaxVersion
    /\ version' = version + 1
    /\ Die /\ Disturb(TRUE)
    /\ UNCHANGED <<kills, file>>

CopyAssetFile == AAssetManager_open \/ fopen \/ fwrite \/ fclose

Next ==
    \/ extractAssetFileToDataDir \/ CopyAssetsFile2DataDir
    \/ isFileExist \/ CopyAssetFile
    \/ Kill \/ Update

Spec == Init /\ [][Next]_vars

-----------------------------------------------------------------------------
(* Properties                                                               *)

Asked == {asked[i] : i \in 1..Len(asked)}

\* Every variable holds a value of its type, and a call in progress has an
\* asset to work on.
TypeOK ==
    /\ version \in 1..MaxVersion /\ kills \in 0..MaxKills
    /\ file \in [Files -> {NoFile} \cup Contents]
    /\ pc \in {"idle", "exists", "open", "fopen", "write", "close"}
    /\ todo \in Seq(Assets) /\ (pc = "idle" <=> todo = <<>>)
    /\ list \in BOOLEAN
    /\ answer \in {"none", "true", "false"}
    /\ asked \in Seq(Assets)
    /\ before \in [Files -> {NoFile} \cup Contents]
    /\ disturbed \in BOOLEAN

\* A call that returns FALSE has changed no file, so the next one tries again:
\* the asset is opened before the target is created.
FalseMeansUntouched == answer = "false" => file = before

\* A call changes a path only when nothing was there when the call began: a
\* file in place is neither harmed nor, when an earlier call left it short or
\* of an old version, ever repaired.
OnlyMissingWritten ==
    [][\A p \in Files : file'[p] # file[p] => before'[p] = NoFile]_vars

\* A call that returns TRUE left a whole copy of each asset asked for, of the
\* version installed.
TrueMeansCopied ==
    answer = "true" => \A a \in Asked : file[Target[a]] = Copy(a, "all")

\* What a path may hold when all went well: a whole copy of an asset that is
\* copied to it, of the version installed.
Whole(p) == {Copy(b, "all") : b \in {c \in Assets : Target[c] = p}}

\* Until a write fails or is cut short, a list stops half way or the package
\* is updated, TRUE means that a whole copy is in place for each asset asked
\* for, the process killed anywhere else included; two assets of one target
\* share the copy of the first.
CopiedUnlessDisturbed ==
    answer = "true" /\ ~disturbed =>
        \A a \in Asked : file[Target[a]] \in Whole(Target[a])
=============================================================================
