------------------------- MODULE AssetExtractProofs -------------------------
(* Proofs about AssetExtract, for any assets, lists, faults and kills.      *)
EXTENDS AssetExtract, TLAPS

\* A call works on an asset whose target was not there when it began; until it
\* creates it, a single call has changed nothing.
CallInv ==
    /\ TypeOK
    /\ FalseMeansUntouched
    /\ pc # "idle" =>
          /\ answer = "none"
          /\ ~list => Len(todo) = 1
          /\ \A p \in Files : before[p] # NoFile => file[p] # NoFile
    /\ pc \in {"exists", "open", "fopen"} /\ ~list => file = before
    /\ pc \in {"open", "fopen", "write", "close"} => before[Path] = NoFile

LEMMA CallInvInit == Init => CallInv
<1> SUFFICES ASSUME Init PROVE CallInv
  OBVIOUS
<1>1. <<>> \in Seq(Assets)
  OBVIOUS
<1>2. file \in [Files -> {NoFile} \cup Contents] /\ before = file
  BY DEF Init
<1>3. version \in 1..MaxVersion /\ kills \in 0..MaxKills
  BY AssetAssumption DEF Init
<1>4. list \in BOOLEAN /\ disturbed \in BOOLEAN
  BY DEF Init
<1>5. /\ pc = "idle" /\ todo = <<>> /\ answer = "none" /\ asked = <<>>
      /\ todo \in Seq(Assets) /\ asked \in Seq(Assets)
  BY <1>1 DEF Init
<1>6. TypeOK
  BY <1>2, <1>3, <1>4, <1>5 DEF TypeOK
<1> QED
  BY <1>5, <1>6 DEF CallInv, FalseMeansUntouched

\* The asset at hand and its target.
LEMMA AtHand ==
    ASSUME TypeOK, pc # "idle"
    PROVE  /\ todo # <<>> /\ Head(todo) \in Assets /\ Path \in Files
           /\ Len(todo) \in Nat \ {0} /\ Tail(todo) \in Seq(Assets)
           /\ Len(Tail(todo)) = Len(todo) - 1
           /\ Len(todo) > 1 => Tail(todo) # <<>>
           /\ \A part \in {"empty", "some", "all"} :
                 Copy(Head(todo), part) \in Contents /\ Copy(Head(todo), part) # NoFile
<1>1. todo # <<>> /\ todo \in Seq(Assets)
  BY DEF TypeOK
<1>2. Head(todo) \in Assets /\ Tail(todo) \in Seq(Assets)
      /\ Len(todo) \in Nat \ {0} /\ Len(Tail(todo)) = Len(todo) - 1
  BY <1>1
<1>4. Len(todo) > 1 => Tail(todo) # <<>>
  <2> DEFINE rest == Tail(todo)
  <2>1. rest \in Seq(Assets) /\ Len(rest) = Len(todo) - 1
    BY <1>2
  <2> HIDE DEF rest
  <2>2. rest = <<>> => Len(rest) = 0
    BY <2>1
  <2>3. Len(todo) > 1 => rest # <<>>
    BY <1>2, <2>1, <2>2
  <2> QED
    BY <2>3 DEF rest
<1>3. ASSUME NEW part \in {"empty", "some", "all"}
      PROVE  /\ Copy(Head(todo), part) \in Contents
             /\ Copy(Head(todo), part) # NoFile
  <2>1. Copy(Head(todo), part).part = part
    BY DEF Copy
  <2>2. NoFile.part = "absent"
    BY DEF NoFile
  <2>3. Copy(Head(todo), part) \in Contents
    BY <1>2 DEF Copy, Contents, TypeOK
  <2> QED
    BY <2>1, <2>2, <2>3
<1> QED
  BY <1>1, <1>2, <1>3, <1>4, AssetAssumption DEF Path

\* What dealing with an asset does to the call.
LEMMA CopiedTrue ==
    ASSUME TypeOK, pc # "idle", Copied(TRUE)
    PROVE  /\ asked' = asked /\ before' = before /\ list' = list
           /\ \/ /\ Len(todo) > 1
                 /\ pc' = "exists" /\ todo' = Tail(todo) /\ answer' = answer
              \/ /\ Len(todo) = 1
                 /\ pc' = "idle" /\ todo' = <<>> /\ answer' = "true"
<1>1. Len(todo) \in Nat \ {0}
  BY AtHand
<1>2. CASE Len(todo) > 1
  BY <1>2 DEF Copied
<1>3. CASE ~(Len(todo) > 1)
  <2>1. Return(list \/ TRUE)
    BY <1>3 DEF Copied
  <2> QED
    BY <1>1, <1>3, <2>1 DEF Return
<1> QED
  BY <1>2, <1>3

LEMMA CopiedFalse ==
    ASSUME Copied(FALSE)
    PROVE  /\ asked' = asked /\ before' = before /\ list' = list
           /\ pc' = "idle" /\ todo' = <<>>
           /\ answer' = IF list THEN "true" ELSE "false"
<1>1. Return(list \/ FALSE)
  BY DEF Copied
<1> QED
  BY <1>1 DEF Return

LEMMA CallInvNext == CallInv /\ [Next]_vars => CallInv'
<1> SUFFICES ASSUME CallInv, [Next]_vars PROVE CallInv'
  OBVIOUS
<1>0. TypeOK /\ <<>> \in Seq(Assets)
  BY DEF CallInv
<1>00. disturbed' \in BOOLEAN
  BY <1>0 DEF TypeOK, Next, vars, extractAssetFileToDataDir, CopyAssetsFile2DataDir,
     Begin, isFileExist, CopyAssetFile, AAssetManager_open, fopen, fwrite, fclose,
     Kill, Update, Disturb
<1> USE DEF call
<1>1. ASSUME NEW assets \in Seq(Assets), NEW many \in BOOLEAN, Begin(assets, many),
             ~many => Len(assets) = 1
      PROVE  CallInv'
  <2>1. TypeOK'
    BY <1>0, <1>00, <1>1 DEF Begin, TypeOK
  <2>2. file' = before' /\ pc' \in {"idle", "exists"}
    BY <1>0, <1>00, <1>1 DEF Begin, TypeOK
  <2>3. pc' # "idle" => answer' = "none" /\ (~list' => Len(todo') = 1)
    BY <1>0, <1>00, <1>1 DEF Begin, TypeOK
  <2> QED
    BY <2>1, <2>2, <2>3 DEF CallInv, FalseMeansUntouched
<1>2. CASE extractAssetFileToDataDir
  <2>1. PICK a \in Assets : Begin(<<a>>, FALSE)
    BY <1>2 DEF extractAssetFileToDataDir
  <2>2. <<a>> \in Seq(Assets) /\ Len(<<a>>) = 1
    OBVIOUS
  <2> QED
    BY <1>1, <2>1, <2>2
<1>3. CASE CopyAssetsFile2DataDir
  BY <1>1, <1>3, AssetAssumption DEF CopyAssetsFile2DataDir
<1>4. CASE isFileExist
  <2>1. /\ pc = "exists" /\ UNCHANGED <<version, kills, file>>
        /\ \/ Copied(TRUE)
           \/ file[Path] = NoFile /\ pc' = "open" /\ UNCHANGED call
    BY <1>4 DEF isFileExist, Present
  <2>2. CASE Copied(TRUE)
    <3>1. /\ UNCHANGED <<asked, before, list>>
          /\ \/ /\ pc' = "exists" /\ todo' = Tail(todo) /\ answer' = "none"
                /\ Len(todo) > 1
             \/ pc' = "idle" /\ todo' = <<>> /\ answer' = "true"
      BY <1>0, <1>00, <2>1, <2>2, CopiedTrue DEF CallInv
    <3>2. todo' \in Seq(Assets) /\ (pc' = "idle" <=> todo' = <<>>)
      <4>1. CASE pc' = "exists" /\ todo' = Tail(todo) /\ Len(todo) > 1
        BY <1>0, <1>00, <2>1, <4>1, AtHand
      <4>2. CASE pc' = "idle" /\ todo' = <<>>
        BY <1>0, <1>00, <4>2
      <4> QED
        BY <3>1, <4>1, <4>2
    <3>3. TypeOK'
      BY <1>0, <1>00, <2>1, <3>1, <3>2 DEF TypeOK
    <3> QED
      BY <1>0, <1>00, <2>1, <3>1, <3>3, AtHand DEF CallInv, FalseMeansUntouched
  <2>3. CASE file[Path] = NoFile /\ pc' = "open" /\ UNCHANGED call
    <3>1. before[Path] = NoFile /\ Path' = Path
      BY <1>0, <1>00, <2>1, <2>3, AtHand DEF CallInv, Path
    <3> QED
      BY <1>0, <1>00, <2>1, <2>3, <3>1 DEF CallInv, TypeOK, FalseMeansUntouched
  <2> QED
    BY <2>1, <2>2, <2>3
<1>5. CASE AAssetManager_open \/ (fopen /\ Copied(FALSE) /\ UNCHANGED file)
  <2>1. /\ pc \in {"open", "fopen"} /\ UNCHANGED <<version, kills, file>>
        /\ Copied(FALSE) \/ (pc' = "fopen" /\ UNCHANGED call)
    BY <1>5 DEF AAssetManager_open, fopen, Opened
  <2>2. CASE Copied(FALSE)
    <3>1. /\ UNCHANGED <<asked, before, list>> /\ pc' = "idle" /\ todo' = <<>>
          /\ answer' = IF list THEN "true" ELSE "false"
      BY <1>0, <1>00, <2>1, <2>2, CopiedFalse
    <3>2. ~list => file = before
      BY <2>1 DEF CallInv
    <3> QED
      BY <1>0, <1>00, <2>1, <3>1, <3>2 DEF CallInv, TypeOK, FalseMeansUntouched
  <2>3. CASE pc' = "fopen" /\ UNCHANGED call
    BY <1>0, <1>00, <2>1, <2>3 DEF CallInv, TypeOK, FalseMeansUntouched, Path
  <2> QED
    BY <2>1, <2>2, <2>3
<1>6. ASSUME NEW part \in {"empty", "some", "all"},
             pc \in {"fopen", "write"}, UNCHANGED <<version, kills>>,
             file' = [file EXCEPT ![Path] = Copy(Head(todo), part)],
             \/ pc' \in {"write", "close"} /\ UNCHANGED call
             \/ Die
      PROVE  CallInv'
  <2>1. file' \in [Files -> {NoFile} \cup Contents]
        /\ \A p \in Files : file[p] # NoFile => file'[p] # NoFile
    BY <1>0, <1>00, <1>6, AtHand DEF TypeOK
  <2>2. CASE pc' \in {"write", "close"} /\ UNCHANGED call
    <3>1. Path' = Path
      BY <2>2 DEF Path
    <3> QED
      BY <1>0, <1>00, <1>6, <2>1, <2>2, <3>1 DEF CallInv, TypeOK, FalseMeansUntouched
  <2>3. CASE Die
    BY <1>0, <1>00, <1>6, <2>1, <2>3 DEF Die, CallInv, TypeOK, FalseMeansUntouched
  <2> QED
    BY <1>6, <2>2, <2>3
<1>7. CASE fopen /\ ~(Copied(FALSE) /\ UNCHANGED file)
  BY <1>6, <1>7 DEF fopen
<1>8. CASE fwrite
  BY <1>6, <1>8 DEF fwrite
<1>9. CASE fclose
  <2>1. /\ pc = "close" /\ Copied(TRUE) /\ UNCHANGED <<version, kills>>
        /\ file' \in {file, [file EXCEPT ![Path] = Copy(Head(todo), "all")]}
    BY <1>9 DEF fclose, Flushed
  <2>2. /\ file' \in [Files -> {NoFile} \cup Contents]
        /\ \A p \in Files : file[p] # NoFile => file'[p] # NoFile
    BY <1>0, <1>00, <2>1, AtHand DEF TypeOK
  <2>3. ~list => Len(todo) = 1
    BY <2>1 DEF CallInv
  <2>4. /\ UNCHANGED <<asked, before, list>>
        /\ \/ /\ pc' = "exists" /\ todo' = Tail(todo) /\ answer' = "none"
              /\ Len(todo) > 1
           \/ pc' = "idle" /\ todo' = <<>> /\ answer' = "true"
    BY <1>0, <1>00, <2>1, CopiedTrue DEF CallInv
  <2>6. todo' \in Seq(Assets) /\ (pc' = "idle" <=> todo' = <<>>)
    <3>1. CASE pc' = "exists" /\ todo' = Tail(todo) /\ Len(todo) > 1
      BY <1>0, <1>00, <2>1, <3>1, AtHand
    <3>2. CASE pc' = "idle" /\ todo' = <<>>
      BY <1>0, <1>00, <3>2
    <3> QED
      BY <2>4, <3>1, <3>2
  <2>5. TypeOK'
    BY <1>0, <1>00, <2>1, <2>2, <2>4, <2>6 DEF TypeOK
  <2> QED
    BY <1>0, <1>00, <2>1, <2>2, <2>3, <2>4, <2>5, AtHand DEF CallInv, FalseMeansUntouched
<1>10. CASE Kill \/ Update
  <2>1. /\ pc' = "idle" /\ todo' = <<>> /\ answer' = "none"
        /\ UNCHANGED <<list, asked, before, file>>
    BY <1>10 DEF Kill, Update, Die
  <2>3. /\ version \in 1..MaxVersion /\ kills \in 0..MaxKills
        /\ MaxVersion \in Nat \ {0} /\ MaxKills \in Nat
    BY <1>0, AssetAssumption DEF TypeOK
  <2>2. version' \in 1..MaxVersion /\ kills' \in 0..MaxKills
    <3>1. CASE Kill
      BY <2>3, <3>1 DEF Kill
    <3>2. CASE Update
      BY <2>3, <3>2 DEF Update
    <3> QED
      BY <1>10, <3>1, <3>2
  <2> QED
    BY <1>0, <1>00, <2>1, <2>2 DEF CallInv, TypeOK, FalseMeansUntouched
<1>11. CASE UNCHANGED vars
  BY <1>11 DEF vars, CallInv, TypeOK, FalseMeansUntouched, Path
<1> QED
  BY <1>2, <1>3, <1>4, <1>5, <1>7, <1>8, <1>9, <1>10, <1>11
     DEF Next, CopyAssetFile

LEMMA CallInvAlways == Spec => []CallInv
BY CallInvInit, CallInvNext, PTL DEF Spec

\* Every variable keeps its type, and a call in progress has an asset.
THEOREM TypeCorrect == Spec => []TypeOK
<1>1. CallInv => TypeOK
  BY DEF CallInv
<1> QED
  BY <1>1, CallInvAlways, PTL

\* A call that returns FALSE has changed no file, whatever failed.
THEOREM FalseUntouched == Spec => []FalseMeansUntouched
<1>1. CallInv => FalseMeansUntouched
  BY DEF CallInv
<1> QED
  BY <1>1, CallInvAlways, PTL

\* A file in place is never written again, whatever it holds.
THEOREM InPlaceKept == Spec => OnlyMissingWritten
<1> DEFINE Kept == \A p \in Files : file'[p] # file[p] => before'[p] = NoFile
<1>1. CallInv /\ [Next]_vars => [Kept]_vars
  <2> SUFFICES ASSUME CallInv, Next PROVE Kept
    BY DEF vars
  <2>1. TypeOK
    BY DEF CallInv
  <2>2. CASE fopen \/ fwrite \/ fclose
    <3>1. /\ pc \in {"fopen", "write", "close"}
          /\ \/ file' = file
             \/ \E part \in {"empty", "some", "all"} :
                   file' = [file EXCEPT ![Path] = Copy(Head(todo), part)]
      BY <2>2 DEF fopen, fwrite, fclose, Flushed
    <3>2. before' = before
      BY <2>1, <2>2, <3>1, CopiedTrue, CopiedFalse DEF fopen, fwrite, fclose, Die, call
    <3>3. before[Path] = NoFile
      BY <3>1 DEF CallInv
    <3>4. \A p \in Files \ {Path} : file'[p] = file[p]
      BY <2>1, <3>1 DEF TypeOK
    <3> QED
      BY <3>2, <3>3, <3>4
  <2>3. CASE ~(fopen \/ fwrite \/ fclose)
    <3>1. file' = file
      BY <2>3 DEF Next, CopyAssetFile, extractAssetFileToDataDir,
         CopyAssetsFile2DataDir, Begin, isFileExist, AAssetManager_open, Opened,
         Kill, Update
    <3> QED
      BY <3>1
  <2> QED
    BY <2>2, <2>3
<1> QED
  BY <1>1, CallInvAlways, PTL DEF Spec, OnlyMissingWritten
-----------------------------------------------------------------------------
(* Until something goes wrong                                               *)

Writing == pc \in {"write", "close"}
NbDone  == Len(asked) - Len(todo)

\* Every file in place is a whole copy but the one being written, and so are
\* the copies of the assets of the call before the one at hand.
CopyWhole ==
    /\ CopiedUnlessDisturbed
    /\ \A p \in Files : file[p] \in {NoFile} \cup Whole(p) \/ (Writing /\ p = Path)
    /\ pc \in {"open", "fopen"} => file[Path] = NoFile
    /\ pc # "idle" =>
          /\ NbDone \in Nat
          /\ \A i \in 1..Len(todo) : todo[i] = asked[NbDone + i]
          /\ \A i \in 1..NbDone : /\ file[Target[asked[i]]] \in Whole(Target[asked[i]])
                                  /\ Writing => Target[asked[i]] # Path

CopyInv == CallInv /\ (~disturbed => CopyWhole)

LEMMA WholeFacts ==
    ASSUME NEW a \in Assets
    PROVE  /\ Copy(a, "all") \in Whole(Target[a])
           /\ \A p \in Files : NoFile \notin Whole(p)
<1>1. \A b \in Assets : Copy(b, "all") # NoFile
  <2> SUFFICES ASSUME NEW b \in Assets PROVE Copy(b, "all") # NoFile
    OBVIOUS
  <2>1. Copy(b, "all").part = "all" /\ NoFile.part = "absent"
    BY DEF Copy, NoFile
  <2> QED
    BY <2>1
<1> QED
  BY <1>1 DEF Whole

\* The asset at hand is whole: the call goes on with the next or returns TRUE.
LEMMA Advance ==
    ASSUME CallInv, CopyWhole, CallInv', pc # "idle", Copied(TRUE),
           version' = version,
           file' \in [Files -> {NoFile} \cup Contents],
           file'[Path] \in Whole(Path),
           \A p \in Files \ {Path} : file'[p] = file[p]
    PROVE  CopyWhole'
<1>0. \A i \in 1..NbDone : file[Target[asked[i]]] \in Whole(Target[asked[i]])
  BY DEF CopyWhole
<1>1. /\ TypeOK /\ todo \in Seq(Assets) /\ asked \in Seq(Assets)
      /\ Len(todo) \in Nat \ {0} /\ Len(asked) \in Nat /\ NbDone \in Nat
      /\ Head(todo) = todo[1] /\ Path \in Files /\ Head(todo) \in Assets
      /\ todo[1] = asked[NbDone + 1] /\ Path = Target[Head(todo)]
  <2>1. TypeOK
    BY DEF CallInv
  <2>2. todo \in Seq(Assets) /\ asked \in Seq(Assets)
    BY <2>1 DEF TypeOK
  <2>3. /\ todo # <<>> /\ Head(todo) \in Assets /\ Path \in Files
        /\ Len(todo) \in Nat \ {0}
    BY <2>1, AtHand
  <2>4. /\ NbDone \in Nat
        /\ \A i \in 1..Len(todo) : todo[i] = asked[NbDone + i]
    BY DEF CopyWhole
  <2>5. todo[1] = asked[NbDone + 1]
    BY <2>3, <2>4
  <2>6. Head(todo) = todo[1] /\ Len(asked) \in Nat
    BY <2>2, <2>3
  <2>7. Path = Target[Head(todo)]
    BY DEF Path
  <2> QED
    BY <2>1, <2>2, <2>3, <2>4, <2>5, <2>6, <2>7
<1>2. \A p \in Files : Whole(p)' = Whole(p)
  BY DEF Whole, Copy
<1>3. \A p \in Files : file'[p] \in {NoFile} \cup Whole(p)
  BY <1>1 DEF CopyWhole
<1>4. \A i \in 1..(NbDone + 1) : /\ asked[i] \in Assets /\ Target[asked[i]] \in Files
                                 /\ file'[Target[asked[i]]] \in Whole(Target[asked[i]])
  <2> SUFFICES ASSUME NEW i \in 1..(NbDone + 1)
               PROVE  /\ asked[i] \in Assets /\ Target[asked[i]] \in Files
                      /\ file'[Target[asked[i]]] \in Whole(Target[asked[i]])
    OBVIOUS
  <2>1. NbDone + 1 <= Len(asked)
    BY <1>1 DEF NbDone
  <2>2. asked[i] \in Assets /\ Target[asked[i]] \in Files
    BY <1>1, <2>1, AssetAssumption
  <2>3. i \in 1..NbDone => file[Target[asked[i]]] \in Whole(Target[asked[i]])
    BY <1>0
  <2>4. i \in 1..NbDone \/ i = NbDone + 1
    BY <1>1
  <2>5. CASE i \in 1..NbDone /\ Target[asked[i]] # Path
    BY <2>2, <2>3, <2>5
  <2>6. CASE Target[asked[i]] = Path \/ i = NbDone + 1
    BY <1>1, <2>2, <2>6
  <2> QED
    BY <2>2, <2>4, <2>5, <2>6
<1>5. /\ asked' = asked
      /\ \/ /\ Len(todo) > 1 /\ pc' = "exists" /\ todo' = Tail(todo)
            /\ answer' = "none"
         \/ Len(todo) = 1 /\ pc' = "idle"
  BY <1>1, CopiedTrue DEF CallInv
<1>8. \A p \in Files : (file[p] \in {NoFile} \cup Whole(p))'
  BY <1>2, <1>3
<1>6. CASE Len(todo) > 1 /\ pc' = "exists" /\ todo' = Tail(todo) /\ answer' = "none"
  <2>1. NbDone' = NbDone + 1 /\ Len(todo') = Len(todo) - 1
    BY <1>1, <1>5, <1>6 DEF NbDone
  <2>2. \A i \in 1..Len(todo') : todo'[i] = asked[NbDone' + i]
    <3> SUFFICES ASSUME NEW i \in 1..Len(todo')
                 PROVE  todo'[i] = asked[NbDone' + i]
      OBVIOUS
    <3>1. todo'[i] = todo[i + 1] /\ i + 1 \in 1..Len(todo)
      BY <1>1, <1>6, <2>1
    <3>2. todo[i + 1] = asked[NbDone + (i + 1)]
      BY <3>1 DEF CopyWhole
    <3> QED
      BY <1>1, <2>1, <3>1, <3>2
  <2>4. ~Writing' /\ NbDone' \in Nat
    BY <1>1, <1>6, <2>1 DEF Writing
  <2> HIDE DEF NbDone, Writing
  <2>6. \A i \in 1..NbDone' : (file[Target[asked[i]]] \in Whole(Target[asked[i]]))'
    BY <1>1, <1>2, <1>4, <1>5, <2>1
  <2>7. \A i \in 1..Len(todo') : todo'[i] = asked'[NbDone' + i]
    BY <1>5, <2>2
  <2> QED
    BY <1>6, <1>8, <2>4, <2>6, <2>7 DEF CopyWhole, CopiedUnlessDisturbed
<1>7. CASE Len(todo) = 1 /\ pc' = "idle"
  <2>1. Len(asked) = NbDone + 1
    BY <1>1, <1>7 DEF NbDone
  <2>2. \A a \in Asked' : /\ Target[a] \in Files
                          /\ file'[Target[a]] \in Whole(Target[a])
    BY <1>4, <1>5, <2>1 DEF Asked
  <2>3. \A a \in Asked' : (file[Target[a]] \in Whole(Target[a]))'
    BY <1>2, <2>2
  <2> QED
    BY <1>7, <1>8, <2>3 DEF CopyWhole, CopiedUnlessDisturbed
<1> QED
  BY <1>5, <1>6, <1>7

LEMMA CopyInvInit == Init => CopyInv
<1> SUFFICES ASSUME Init PROVE CopyInv
  OBVIOUS
<1>1. \A p \in Files : file[p] = NoFile
  BY DEF Init
<1>2. CallInv /\ pc = "idle" /\ answer = "none"
  BY CallInvInit DEF Init
<1> QED
  BY <1>1, <1>2 DEF CopyInv, CopyWhole, CopiedUnlessDisturbed

\* A step inside the call on the asset at hand that changes no other file.
LEMMA Proceed ==
    ASSUME CallInv, CopyWhole, CallInv', pc # "idle", pc' # "idle",
           UNCHANGED <<version, call>>,
           \A p \in Files \ {Path} : file'[p] = file[p],
           \/ file' = file /\ pc' \in {"open", "fopen"}
           \/ pc' \in {"write", "close"} /\ pc \in {"fopen", "write"},
           pc' \in {"open", "fopen"} => file'[Path] = NoFile
    PROVE  CopyWhole'
<1> USE DEF call
<1>1. /\ TypeOK /\ Path \in Files /\ Path' = Path /\ NbDone' = NbDone
      /\ NbDone \in Nat /\ answer' = "none" /\ asked \in Seq(Assets)
  BY AtHand DEF CopyWhole, CallInv, TypeOK, Path, NbDone
<1>2. \A p \in Files : Whole(p)' = Whole(p)
  BY DEF Whole, Copy
<1>3. \A i \in 1..NbDone : asked[i] \in Assets /\ Target[asked[i]] \in Files
  <2>1. NbDone <= Len(asked)
    BY <1>1 DEF NbDone, TypeOK
  <2> QED
    BY <1>1, <2>1, AssetAssumption
<1>4. \A i \in 1..NbDone : /\ file'[Target[asked[i]]] \in Whole(Target[asked[i]])
                           /\ Writing' => Target[asked[i]] # Path
  <2> SUFFICES ASSUME NEW i \in 1..NbDone
               PROVE  /\ file'[Target[asked[i]]] \in Whole(Target[asked[i]])
                      /\ Writing' => Target[asked[i]] # Path
    OBVIOUS
  <2>1. /\ file[Target[asked[i]]] \in Whole(Target[asked[i]])
        /\ Writing => Target[asked[i]] # Path
    BY DEF CopyWhole
  <2>2. CASE file' = file /\ pc' \in {"open", "fopen"}
    BY <2>1, <2>2 DEF Writing
  <2>4. CASE pc' \in {"write", "close"} /\ pc \in {"fopen", "write"}
    <3>1. pc = "fopen" => file[Path] = NoFile
      BY DEF CopyWhole
    <3>2. NoFile \notin Whole(Path)
      BY <1>1, <1>3, WholeFacts
    <3>3. Target[asked[i]] # Path
      BY <2>1, <2>4, <3>1, <3>2 DEF Writing
    <3> QED
      BY <1>3, <2>1, <3>3
  <2> QED
    BY <2>2, <2>4
<1>5. \A p \in Files : \/ file'[p] \in {NoFile} \cup Whole(p)
                       \/ Writing' /\ p = Path
  BY <1>1 DEF CopyWhole, Writing
<1>6. \A i \in 1..Len(todo) : todo[i] = asked[NbDone + i]
  BY DEF CopyWhole
<1> HIDE DEF NbDone, Writing, Path
<1>7. \A p \in Files : \/ (file[p] \in {NoFile} \cup Whole(p))'
                       \/ Writing' /\ p = Path'
  BY <1>1, <1>2, <1>5
<1>8. \A i \in 1..NbDone' : (/\ file[Target[asked[i]]] \in Whole(Target[asked[i]])
                             /\ Writing => Target[asked[i]] # Path)'
  BY <1>1, <1>2, <1>3, <1>4
<1>9. CopiedUnlessDisturbed'
  BY <1>1 DEF CopiedUnlessDisturbed
<1> QED
  BY <1>1, <1>6, <1>7, <1>8, <1>9 DEF CopyWhole

\* The copies in place stay whole for as long as nothing is disturbed.
LEMMA CopyWholeNext ==
    ASSUME CallInv, CopyWhole, Next, ~disturbed' PROVE CopyWhole'
<1>0. CallInv' /\ TypeOK
  BY CallInvNext DEF CallInv
<1> USE DEF call
<1>9. ASSUME pc' = "idle", answer' # "true", version' = version, file' = file, ~Writing
      PROVE  CopyWhole'
  <2>1. \A p \in Files : (file[p] \in {NoFile} \cup Whole(p))'
    BY <1>9 DEF CopyWhole, Whole, Copy
  <2> QED
    BY <1>9, <2>1 DEF CopyWhole, CopiedUnlessDisturbed
<1>1. ASSUME NEW assets \in Seq(Assets), NEW many \in BOOLEAN, Begin(assets, many)
      PROVE  CopyWhole'
  <2>1. /\ version' = version /\ file' = file /\ ~Writing /\ asked' = assets
        /\ \/ pc' = "exists" /\ todo' = assets /\ answer' = "none"
           \/ pc' = "idle" /\ (answer' = "false" \/ assets = <<>>)
    BY <1>1 DEF Begin, Writing
  <2>2. \A p \in Files : (file[p] \in {NoFile} \cup Whole(p))'
    BY <2>1 DEF CopyWhole, Whole, Copy
  <2>3. CASE pc' = "exists" /\ todo' = assets /\ answer' = "none"
    <3>1. NbDone' = 0 /\ Len(assets) \in Nat
      BY <2>1, <2>3 DEF NbDone
    <3>2. \A i \in 1..Len(todo') : todo'[i] = asked'[NbDone' + i]
      BY <2>1, <2>3, <3>1
    <3>3. CopiedUnlessDisturbed'
      BY <2>3 DEF CopiedUnlessDisturbed
    <3> HIDE DEF NbDone
    <3> QED
      BY <1>0, <2>1, <2>2, <2>3, <3>1, <3>2, <3>3 DEF CopyWhole
  <2>4. CASE pc' = "idle" /\ (answer' = "false" \/ assets = <<>>)
    <3>1. assets = <<>> => Asked' = {}
      BY <2>1 DEF Asked
    <3>2. CopiedUnlessDisturbed'
      BY <2>4, <3>1 DEF CopiedUnlessDisturbed
    <3> QED
      BY <1>0, <2>1, <2>2, <2>4, <3>2 DEF CopyWhole
  <2> QED
    BY <2>1, <2>3, <2>4
<1>2. CASE extractAssetFileToDataDir \/ CopyAssetsFile2DataDir
  <2>1. \A a \in Assets : <<a>> \in Seq(Assets)
    OBVIOUS
  <2> QED
    BY <1>1, <1>2, <2>1, AssetAssumption
       DEF extractAssetFileToDataDir, CopyAssetsFile2DataDir
<1>10. ASSUME Copied(FALSE), Disturb(list), UNCHANGED <<version, file>>, ~Writing
       PROVE  CopyWhole'
  <2>1. pc' = "idle" /\ answer' = IF list THEN "true" ELSE "false"
    BY <1>10, CopiedFalse
  <2>2. ~list
    BY <1>10 DEF Disturb
  <2> QED
    BY <1>9, <1>10, <2>1, <2>2
<1>3. CASE isFileExist
  <2>1. pc = "exists" /\ file' = file /\ version' = version
    BY <1>3 DEF isFileExist
  <2>2. Path \in Files /\ file \in [Files -> {NoFile} \cup Contents]
    BY <1>0, <2>1, AtHand DEF TypeOK
  <2>3. CASE Present(Path)
    <3>1. Copied(TRUE)
      BY <1>3, <2>3 DEF isFileExist
    <3>2. file[Path] \in Whole(Path)
      BY <2>1, <2>2, <2>3 DEF CopyWhole, Present, Writing
    <3> QED
      BY <1>0, <2>1, <2>2, <3>1, <3>2, Advance
  <2>4. CASE ~Present(Path)
    <3>1. pc' = "open" /\ UNCHANGED <<version, call>> /\ file'[Path] = NoFile
      BY <1>3, <2>1, <2>4 DEF isFileExist, Present
    <3> QED
      BY <1>0, <2>1, <3>1, Proceed
  <2> QED
    BY <2>3, <2>4
<1>4. CASE AAssetManager_open
  <2>1. pc = "open" /\ UNCHANGED <<version, file>> /\ ~Writing
    BY <1>4 DEF AAssetManager_open, Opened, Writing
  <2>2. CASE Copied(FALSE) /\ Disturb(list)
    BY <1>10, <2>1, <2>2
  <2>3. CASE pc' = "fopen" /\ UNCHANGED call
    <3>1. file'[Path] = NoFile
      BY <2>1 DEF CopyWhole
    <3> QED
      BY <1>0, <2>1, <2>3, <3>1, Proceed
  <2> QED
    BY <1>4, <2>2, <2>3 DEF AAssetManager_open
<1>5. CASE fopen \/ fwrite
  <2>1. version' = version /\ pc \in {"fopen", "write"}
    BY <1>5 DEF fopen, fwrite
  <2>2. CASE fopen /\ Copied(FALSE) /\ Disturb(list) /\ UNCHANGED file
    BY <1>10, <2>1, <2>2 DEF fopen, Writing
  <2>3. CASE ~(fopen /\ Copied(FALSE) /\ Disturb(list) /\ UNCHANGED file)
    <3>1. /\ pc' \in {"write", "close"} /\ UNCHANGED call
          /\ \E part \in {"empty", "some", "all"} :
                file' = [file EXCEPT ![Path] = Copy(Head(todo), part)]
      BY <1>5, <2>3 DEF fopen, fwrite, Disturb
    <3>2. \A p \in Files \ {Path} : file'[p] = file[p]
      BY <1>0, <3>1 DEF TypeOK
    <3> QED
      BY <1>0, <2>1, <3>1, <3>2, Proceed
  <2> QED
    BY <2>2, <2>3
<1>6. CASE fclose
  <2>1. /\ pc = "close" /\ Copied(TRUE) /\ version' = version
        /\ file' = [file EXCEPT ![Path] = Copy(Head(todo), "all")]
    BY <1>6 DEF fclose, Flushed, Disturb
  <2>2. Head(todo) \in Assets /\ Path \in Files /\ Path = Target[Head(todo)]
    BY <1>0, <2>1, AtHand DEF Path
  <2>3. /\ file' \in [Files -> {NoFile} \cup Contents]
        /\ file'[Path] = Copy(Head(todo), "all")
        /\ \A p \in Files \ {Path} : file'[p] = file[p]
    BY <1>0, <2>1, <2>2, AtHand DEF TypeOK
  <2>4. file'[Path] \in Whole(Path)
    BY <2>2, <2>3, WholeFacts
  <2> QED
    BY <1>0, <2>1, <2>3, <2>4, Advance
<1>7. CASE Kill \/ Update
  <2>1. Kill /\ ~Writing
    BY <1>7 DEF Kill, Update, Disturb, Writing
  <2>2. pc' = "idle" /\ answer' = "none" /\ UNCHANGED <<version, file>>
    BY <2>1 DEF Kill, Die
  <2> QED
    BY <1>9, <2>1, <2>2
<1> QED
  BY <1>2, <1>3, <1>4, <1>5, <1>6, <1>7 DEF Next, CopyAssetFile

LEMMA CopyInvNext == CopyInv /\ [Next]_vars => CopyInv'
<1> SUFFICES ASSUME CopyInv, [Next]_vars PROVE CopyInv'
  OBVIOUS
<1>1. CallInv /\ CallInv'
  BY CallInvNext DEF CopyInv
<1>2. CASE Next
  <2>1. ~disturbed' => ~disturbed
    BY <1>1, <1>2 DEF CallInv, TypeOK, Next, extractAssetFileToDataDir,
       CopyAssetsFile2DataDir, Begin, isFileExist, CopyAssetFile,
       AAssetManager_open, fopen, fwrite, fclose, Kill, Update, Disturb, call
  <2> QED
    BY <1>1, <1>2, <2>1, CopyWholeNext DEF CopyInv
<1>3. CASE UNCHANGED vars
  <2>1. /\ Path' = Path /\ NbDone' = NbDone /\ Asked' = Asked /\ Writing' = Writing
        /\ UNCHANGED <<version, file, pc, todo, asked, answer, disturbed>>
    BY <1>3 DEF vars, call, Path, NbDone, Asked, Writing
  <2>2. \A p : Whole(p)' = Whole(p)
    BY <2>1 DEF Whole, Copy
  <2> HIDE DEF Whole
  <2> QED
    BY <1>1, <2>1, <2>2 DEF CopyInv, CopyWhole, CopiedUnlessDisturbed
<1> QED
  BY <1>2, <1>3

\* Until a fault, a kill or an update has left its mark, a call that returns
\* TRUE left a whole copy in place for each asset it was asked for.
THEOREM CopiedUntilDisturbed == Spec => []CopiedUnlessDisturbed
<1>1. CopyInv => CopiedUnlessDisturbed
  BY DEF CopyInv, CopyWhole, CopiedUnlessDisturbed
<1> QED
  BY <1>1, CopyInvInit, CopyInvNext, PTL DEF Spec
=============================================================================
