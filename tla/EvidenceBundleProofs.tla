------------------------- MODULE EvidenceBundleProofs -------------------------
(***************************************************************************)
(* EvidenceBundle: a file that vouches for others is never seen without    *)
(* them, what was reported as retained stays, and a failed invocation      *)
(* leaves nothing; for any number of writers and of invocations.           *)
(***************************************************************************)
EXTENDS EvidenceBundle, SequenceTheorems, TLAPS

Places == {"idle", "check", "open", "fill", "append", "written", "discard", "rollback"}
Working == Places \ {"idle", "check"}
Holding == {"fill", "append", "discard"}

-----------------------------------------------------------------------------
(* The inductive invariant.                                                *)

(* The local `written` is a prefix of the order of the writes.             *)
WrittenFits(w) ==
  /\ Len(written[w]) <= Len(WriteOrder(w))
  /\ \A i \in 1..Len(written[w]) : written[w][i] = WriteOrder(w)[i]
  /\ pc[w] = "check" => Len(written[w]) = 0
  /\ pc[w] \in {"open"} \cup Holding => Len(written[w]) = at[w] - 1
  /\ pc[w] = "written" => Len(written[w]) = Len(WriteOrder(w))

(* The files of a writer at work are whole, but for the one it holds.      *)
FilesFit(w) ==
  /\ pc[w] \in Working =>
       \A i \in 1..Len(written[w]) : disk[WriteOrder(w)[i]] = Content(w, TRUE)
  /\ pc[w] = "fill" => disk[File(w)] = Content(w, FALSE)
  /\ pc[w] = "append" => disk[File(w)] = Content(w, TRUE)
  /\ pc[w] = "discard" => \E whole \in BOOLEAN : disk[File(w)] = Content(w, whole)

(* It knows of every file of its own, unless it lost track of one.         *)
Tracks(w, file) ==
  \/ \E i \in 1..Len(written[w]) : file = WriteOrder(w)[i]
  \/ pc[w] \in Holding /\ file = File(w)
  \/ Invocation(w) \in unrecorded

FilesTracked(w) ==
  pc[w] # "idle" =>
    \A file \in Files : Exists(file) /\ disk[file].by = Invocation(w) => Tracks(w, file)

(* Invocations are numbered in order, and return when they are over.       *)
Numbered(w) ==
  /\ \A n \in Nat : <<w, n>> \in returned => n <= starts[w]
  /\ \A file \in Files, n \in Nat :
       Exists(file) /\ disk[file].by = <<w, n>> => n <= starts[w]
  /\ pc[w] # "idle" => starts[w] >= 1 /\ Invocation(w) \notin returned

WriterInv(w) == WrittenFits(w) /\ FilesFit(w) /\ FilesTracked(w) /\ Numbered(w)

MarkerInv ==
  Whole(Marker) /\ disk[Marker].by \notin unrecorded =>
    \A file \in disk[Marker].names : disk[file] = disk[Marker]

IInv == /\ TypeOK
        /\ \A w \in Writers : WriterInv(w)
        /\ MarkerInv /\ RetainedStays /\ FailureLeavesNothing

-----------------------------------------------------------------------------
(* The order of the writes: the marker comes last, and once.               *)

LEMMA FourthJoined ==
  ASSUME NEW a, NEW b, NEW c, NEW d
  PROVE  <<a, b, c>> \o <<d>> = <<a, b, c, d>>
  <1> DEFINE joined == <<a, b, c>> \o <<d>>
             listed == <<a, b, c, d>>
             elements == {a, b, c, d}
  <1>1. /\ joined \in Seq(elements) /\ Len(joined) = 4
        /\ listed \in Seq(elements) /\ Len(listed) = 4
    OBVIOUS
  <1>2. /\ joined[1] = listed[1]
        /\ joined[2] = listed[2]
        /\ joined[3] = listed[3]
        /\ joined[4] = listed[4]
    OBVIOUS
  <1> HIDE DEF joined, listed, elements
  <1>3. \A i \in 1..Len(joined) : joined[i] = listed[i]
    BY <1>1, <1>2
  <1>4. joined = listed
    BY <1>1, <1>3, SeqEqual
  <1> QED
    BY <1>4 DEF joined, listed

LEMMA FifthJoined ==
  ASSUME NEW a, NEW b, NEW c, NEW d, NEW e
  PROVE  <<a, b, c, d>> \o <<e>> = <<a, b, c, d, e>>
  <1> DEFINE joined == <<a, b, c, d>> \o <<e>>
             listed == <<a, b, c, d, e>>
             elements == {a, b, c, d, e}
  <1>1. /\ joined \in Seq(elements) /\ Len(joined) = 5
        /\ listed \in Seq(elements) /\ Len(listed) = 5
    OBVIOUS
  <1>2. /\ joined[1] = listed[1]
        /\ joined[2] = listed[2]
        /\ joined[3] = listed[3]
        /\ joined[4] = listed[4]
        /\ joined[5] = listed[5]
    OBVIOUS
  <1> HIDE DEF joined, listed, elements
  <1>3. \A i \in 1..Len(joined) : joined[i] = listed[i]
    BY <1>1, <1>2
  <1>4. joined = listed
    BY <1>1, <1>3, SeqEqual
  <1> QED
    BY <1>4 DEF joined, listed

LEMMA Orders ==
  ASSUME NEW w \in Writers
  PROVE  /\ kind = "creation" => /\ WriteOrder(w) = <<"archive", "receipt", "metadata">>
                                 /\ BundlePaths(w) = <<"archive", "receipt", "metadata">>
         /\ kind # "creation" /\ journal[w] =>
              /\ WriteOrder(w) = <<"archive", "payload", "source", "dispatchJournal", "evidence">>
              /\ BundlePaths(w) = <<"archive", "payload", "source", "evidence", "dispatchJournal">>
         /\ kind # "creation" /\ ~journal[w] =>
              /\ WriteOrder(w) = <<"archive", "payload", "source", "evidence">>
              /\ BundlePaths(w) = <<"archive", "payload", "source", "evidence">>
  <1>1. /\ <<"archive", "payload", "source">> \o <<"dispatchJournal">>
            = <<"archive", "payload", "source", "dispatchJournal">>
        /\ <<"archive", "payload", "source">> \o <<"evidence">>
            = <<"archive", "payload", "source", "evidence">>
    BY FourthJoined
  <1>2. /\ <<"archive", "payload", "source", "dispatchJournal">> \o <<"evidence">>
            = <<"archive", "payload", "source", "dispatchJournal", "evidence">>
        /\ <<"archive", "payload", "source", "evidence">> \o <<"dispatchJournal">>
            = <<"archive", "payload", "source", "evidence", "dispatchJournal">>
    BY FifthJoined
  <1>3. /\ <<"archive", "payload", "source">> \o <<>> = <<"archive", "payload", "source">>
        /\ <<"archive", "payload", "source", "evidence">> \o <<>>
            = <<"archive", "payload", "source", "evidence">>
    OBVIOUS
  <1> QED
    BY <1>1, <1>2, <1>3, Zenon DEF WriteOrder, BundlePaths

LEMMA OrderIs ==
  ASSUME NEW w \in Writers
  PROVE  /\ WriteOrder(w) \in Seq(Files) /\ Len(WriteOrder(w)) \in 3..5
         /\ Len(BundlePaths(w)) = Len(WriteOrder(w))
         /\ DOMAIN WriteOrder(w) = 1..Len(WriteOrder(w))
         /\ \A i \in 1..Len(WriteOrder(w)) :
              /\ WriteOrder(w)[i] \in Files
              /\ WriteOrder(w)[i] = Marker <=> i = Len(WriteOrder(w))
              /\ \A j \in 1..Len(WriteOrder(w)) :
                   WriteOrder(w)[i] = WriteOrder(w)[j] => i = j
  <1>1. CASE kind = "creation"
    <2>1. /\ WriteOrder(w) = <<"archive", "receipt", "metadata">>
          /\ BundlePaths(w) = <<"archive", "receipt", "metadata">>
          /\ Marker = "metadata"
      BY <1>1, Orders DEF Marker
    <2> QED
      BY <2>1 DEF Files
  <1>2. CASE kind # "creation" /\ journal[w]
    <2>1. /\ WriteOrder(w) = <<"archive", "payload", "source", "dispatchJournal", "evidence">>
          /\ BundlePaths(w) = <<"archive", "payload", "source", "evidence", "dispatchJournal">>
          /\ Marker = "evidence"
      BY <1>2, Orders DEF Marker
    <2> QED
      BY <2>1 DEF Files
  <1>3. CASE kind # "creation" /\ ~journal[w]
    <2>1. /\ WriteOrder(w) = <<"archive", "payload", "source", "evidence">>
          /\ BundlePaths(w) = <<"archive", "payload", "source", "evidence">>
          /\ Marker = "evidence"
      BY <1>3, Orders DEF Marker
    <2> QED
      BY <2>1 DEF Files
  <1> QED
    BY <1>1, <1>2, <1>3

-----------------------------------------------------------------------------
(* Types, and the frame of a step.                                         *)

Step(w) ==
  \/ Start(w) \/ CheckAbsent(w) \/ RefuseToOverwrite(w)
  \/ Open(w) \/ OpenFails(w) \/ Fill(w) \/ FillOrDiscard(w) \/ Discard(w)
  \/ Record(w) \/ Return(w) \/ TakeBack(w) \/ Raise(w)
  \/ Interrupt(w) \/ Kill(w)

LEMMA Types ==
  ASSUME TypeOK, NEW w \in Writers
  PROVE  /\ kind \in {"capture", "creation"} /\ pc[w] \in Places
         /\ pc \in [Writers -> Places] /\ journal \in [Writers -> BOOLEAN]
         /\ at \in [Writers -> Nat] /\ written \in [Writers -> Seq(Files)]
         /\ raised \in [Writers -> {"error", "interrupt"}]
         /\ starts \in [Writers -> 0..MaxStarts] /\ MaxStarts \in Nat
         /\ disk \in [Files -> Contents \cup {NoFile}]
         /\ at[w] \in Nat /\ at[w] >= 1 /\ at[w] <= Len(WriteOrder(w))
         /\ written[w] \in Seq(Files) /\ Len(written[w]) \in Nat
         /\ starts[w] \in 0..MaxStarts /\ starts[w] \in Nat
         /\ File(w) \in Files
         /\ \A i \in 1..Len(written[w]) : written[w][i] \in Files
         /\ \A file \in Files : disk[file] \in Contents \cup {NoFile}
         /\ returned \cup unrecorded \cup cut \subseteq Writers \X (1..MaxStarts)
  <1>1. /\ kind \in {"capture", "creation"} /\ pc \in [Writers -> Places]
        /\ journal \in [Writers -> BOOLEAN] /\ at \in [Writers -> Nat]
        /\ written \in [Writers -> Seq(Files)]
        /\ raised \in [Writers -> {"error", "interrupt"}]
        /\ starts \in [Writers -> 0..MaxStarts]
        /\ disk \in [Files -> Contents \cup {NoFile}]
        /\ at[w] \in 1..Len(WriteOrder(w))
        /\ returned \cup unrecorded \cup cut \subseteq Writers \X (1..MaxStarts)
    BY DEF TypeOK, Places
  <1>2. /\ Len(WriteOrder(w)) \in 3..5
        /\ \A i \in 1..Len(WriteOrder(w)) : WriteOrder(w)[i] \in Files
    BY OrderIs
  <1>3. at[w] \in Nat /\ at[w] >= 1 /\ at[w] <= Len(WriteOrder(w)) /\ File(w) \in Files
    BY <1>1, <1>2 DEF File
  <1>4. /\ written[w] \in Seq(Files) /\ Len(written[w]) \in Nat
        /\ \A i \in 1..Len(written[w]) : written[w][i] \in Files
    BY <1>1
  <1>5. starts[w] \in Nat /\ MaxStarts \in Nat /\ starts[w] \in 0..MaxStarts
    BY <1>1, BundleAssumption
  <1> QED
    BY <1>1, <1>3, <1>4, <1>5

LEMMA ContentIs ==
  ASSUME TypeOK, NEW w \in Writers, starts[w] >= 1, NEW whole \in BOOLEAN
  PROVE  /\ Content(w, whole) \in Contents /\ Content(w, whole) # NoFile
         /\ Content(w, whole).by = Invocation(w) /\ Content(w, whole).whole = whole
         /\ Content(w, whole).names = {WriteOrder(w)[i] : i \in 1..Len(WriteOrder(w))}
  <1>1. ToSet(WriteOrder(w)) = {WriteOrder(w)[i] : i \in 1..Len(WriteOrder(w))}
    BY OrderIs DEF ToSet
  <1>2. ToSet(WriteOrder(w)) \subseteq Files
    BY <1>1, OrderIs
  <1>3. Invocation(w) \in Writers \X (1..MaxStarts)
    BY Types DEF Invocation
  <1>4. Content(w, whole) \in Contents
    BY <1>2, <1>3 DEF Content, Contents
  <1> QED
    BY <1>1, <1>4, FileAssumption DEF Content

(* A step of one writer leaves the others where they are.                  *)
LEMMA OthersStay ==
  ASSUME TypeOK, NEW w \in Writers, Step(w), NEW v \in Writers, v # w
  PROVE  /\ pc'[v] = pc[v] /\ at'[v] = at[v] /\ written'[v] = written[v]
         /\ starts'[v] = starts[v] /\ raised'[v] = raised[v]
         /\ journal'[v] = journal[v] /\ kind' = kind
         /\ WriteOrder(v)' = WriteOrder(v) /\ Invocation(v)' = Invocation(v)
         /\ File(v)' = File(v)
         /\ \A whole \in BOOLEAN : Content(v, whole)' = Content(v, whole)
  <1>1. kind' = kind /\ pc'[v] = pc[v]
    BY Types DEF Step, Start, CheckAbsent, RefuseToOverwrite, Open, OpenFails, Fill,
       FillOrDiscard, Discard, Record, Return, TakeBack, Raise, Interrupt, Kill,
       Go, Unwind
  <1>2. /\ at'[v] = at[v] /\ written'[v] = written[v] /\ journal'[v] = journal[v]
        /\ starts'[v] = starts[v] /\ raised'[v] = raised[v]
    BY Types DEF Step, Start, CheckAbsent, RefuseToOverwrite, Open, OpenFails, Fill,
       FillOrDiscard, Discard, Record, Return, TakeBack, Raise, Interrupt, Kill,
       Unwind, locals
  <1>3. WriteOrder(v)' = WriteOrder(v)
    BY <1>1, <1>2 DEF WriteOrder, BundlePaths
  <1>4. Invocation(v)' = Invocation(v)
    BY <1>2 DEF Invocation
  <1> QED
    BY <1>1, <1>2, <1>3, <1>4 DEF File, Content

(* The histories only grow, by the invocation that takes the step.         *)
LEMMA HistoriesGrow ==
  ASSUME TypeOK, NEW w \in Writers, Step(w)
  PROVE  /\ returned \subseteq returned' /\ returned' \subseteq returned \cup {Invocation(w)}
         /\ unrecorded \subseteq unrecorded'
         /\ unrecorded' \subseteq unrecorded \cup {Invocation(w)}
         /\ cut \subseteq cut' /\ cut' \subseteq cut \cup {Invocation(w)}
         /\ (unrecorded' # unrecorded \/ cut' # cut \/ returned' # returned)
              => pc[w] # "idle"
  BY Types DEF Step, Start, CheckAbsent, RefuseToOverwrite, Open, OpenFails, Fill,
     FillOrDiscard, Discard, Record, Return, TakeBack, Raise, Interrupt, Kill,
     Unlink, Unwind, history

(* A step writes or removes one file at most, and none of another          *)
(* invocation.                                                             *)
Touches(w, file, content) ==
  /\ pc[w] \in Working
  /\ disk' = [disk EXCEPT ![file] = content]
  /\ disk[file] = NoFile \/ disk[file].by = Invocation(w)
  /\ content = NoFile \/ content.by = Invocation(w)

LEMMA StepTouches ==
  ASSUME TypeOK, NEW w \in Writers, WriterInv(w), Step(w)
  PROVE  \/ disk' = disk
         \/ \E file \in Files, content \in Contents \cup {NoFile} : Touches(w, file, content)
  <1>0. /\ File(w) \in Files
        /\ pc[w] # "idle" => starts[w] >= 1
        /\ \A i \in 1..Len(written[w]) : written[w][i] = WriteOrder(w)[i]
    BY Types DEF WriterInv, Numbered, WrittenFits
  <1>1. CASE Open(w)
    <2>1. /\ pc[w] = "open" /\ disk[File(w)] = NoFile /\ starts[w] >= 1
          /\ disk' = [disk EXCEPT ![File(w)] = Content(w, FALSE)]
      BY <1>0, <1>1 DEF Open, Put, Exists
    <2>2. Content(w, FALSE) \in Contents /\ Content(w, FALSE).by = Invocation(w)
      BY <2>1, ContentIs
    <2>3. Touches(w, File(w), Content(w, FALSE))
      BY <2>1, <2>2 DEF Touches, Working, Places
    <2> QED
      BY <1>0, <2>2, <2>3
  <1>2. CASE Fill(w) \/ FillOrDiscard(w)
    <2>1. PICK whole \in BOOLEAN : /\ pc[w] = "fill" /\ starts[w] >= 1
                                   /\ disk' = [disk EXCEPT ![File(w)] = Content(w, whole)]
      BY <1>0, <1>2 DEF Fill, FillOrDiscard, Put
    <2>2. Content(w, whole) \in Contents /\ Content(w, whole).by = Invocation(w)
      BY <2>1, ContentIs
    <2>3. disk[File(w)].by = Invocation(w)
      BY <2>1, ContentIs DEF WriterInv, FilesFit
    <2>4. Touches(w, File(w), Content(w, whole))
      BY <2>1, <2>2, <2>3 DEF Touches, Working, Places
    <2> QED
      BY <1>0, <2>2, <2>4
  <1>3. CASE Discard(w)
    <2>1. pc[w] = "discard" /\ (disk' = disk \/ disk' = [disk EXCEPT ![File(w)] = NoFile])
      BY <1>3 DEF Discard, Unlink, Put
    <2>2. disk[File(w)].by = Invocation(w)
      BY <1>0, <2>1, ContentIs DEF WriterInv, FilesFit
    <2>3. disk' = disk \/ Touches(w, File(w), NoFile)
      BY <2>1, <2>2 DEF Touches, Working, Places
    <2> QED
      BY <1>0, <2>3
  <1>4. CASE TakeBack(w)
    <2>1. /\ pc[w] = "rollback" /\ Len(written[w]) \in 1..Len(written[w])
          /\ disk' = disk \/ disk' = [disk EXCEPT ![written[w][Len(written[w])]] = NoFile]
      <3>1. Len(written[w]) # 0
        BY <1>4, Types DEF TakeBack
      <3>2. pc[w] = "rollback" /\ Unlink(w, Last(written[w]))
        BY <1>4 DEF TakeBack
      <3> QED
        BY <3>1, <3>2, Types DEF Unlink, Put, Last
    <2>2. disk[written[w][Len(written[w])]].by = Invocation(w)
      BY <1>0, <2>1, ContentIs DEF WriterInv, FilesFit, Working, Places
    <2>3. written[w][Len(written[w])] \in Files
      BY <2>1, Types
    <2>4. disk' = disk \/ Touches(w, written[w][Len(written[w])], NoFile)
      BY <2>1, <2>2 DEF Touches, Working, Places
    <2> QED
      BY <2>3, <2>4
  <1>5. \/ Open(w) \/ Fill(w) \/ FillOrDiscard(w) \/ Discard(w) \/ TakeBack(w)
        \/ disk' = disk
    BY DEF Step, Start, CheckAbsent, RefuseToOverwrite, OpenFails, Record, Return,
       Raise, Interrupt, Kill
  <1> QED
    BY <1>1, <1>2, <1>3, <1>4, <1>5

(* The other writers' files and their accounts of them.                    *)
LEMMA OthersKept ==
  ASSUME TypeOK, NEW w \in Writers, WriterInv(w), Step(w),
         NEW v \in Writers, v # w, WriterInv(v)
  PROVE  WriterInv(v)'
  <1>1. /\ pc'[v] = pc[v] /\ at'[v] = at[v] /\ written'[v] = written[v]
        /\ starts'[v] = starts[v]
        /\ WriteOrder(v)' = WriteOrder(v) /\ Invocation(v)' = Invocation(v)
        /\ File(v)' = File(v)
        /\ \A whole \in BOOLEAN : Content(v, whole)' = Content(v, whole)
    BY OthersStay
  <1>2. /\ unrecorded \subseteq unrecorded'
        /\ returned' \subseteq returned \cup {Invocation(w)}
    BY HistoriesGrow
  <1>3. Invocation(w) # Invocation(v)
    BY DEF Invocation
  <1>4. \A file \in Files :
          \/ disk'[file] = disk[file]
          \/ /\ disk[file] = NoFile \/ disk[file].by = Invocation(w)
             /\ disk'[file] = NoFile \/ disk'[file].by = Invocation(w)
    <2>1. CASE disk' = disk
      BY <2>1
    <2>2. ASSUME NEW file \in Files, NEW content \in Contents \cup {NoFile},
                 Touches(w, file, content), NEW other \in Files
          PROVE  \/ disk'[other] = disk[other]
                 \/ /\ disk[other] = NoFile \/ disk[other].by = Invocation(w)
                    /\ disk'[other] = NoFile \/ disk'[other].by = Invocation(w)
      BY <2>2, Types DEF Touches
    <2> QED
      BY <2>1, <2>2, StepTouches
  <1>5. WrittenFits(v)'
    BY <1>1 DEF WriterInv, WrittenFits
  <1>6. FilesFit(v)'
    <2>1. ASSUME pc[v] # "idle", NEW file \in Files, NEW whole \in BOOLEAN,
                 disk[file] = Content(v, whole)
          PROVE  disk'[file] = Content(v, whole)
      <3>1. starts[v] >= 1
        BY <2>1 DEF WriterInv, Numbered
      <3>2. disk[file] # NoFile /\ disk[file].by = Invocation(v)
        BY <2>1, <3>1, ContentIs
      <3> QED
        BY <1>3, <1>4, <2>1, <3>2
    <2>2. pc[v] \in Working =>
            \A i \in 1..Len(written[v]) : disk'[WriteOrder(v)[i]] = Content(v, TRUE)
      <3> SUFFICES ASSUME pc[v] \in Working, NEW i \in 1..Len(written[v])
                   PROVE  disk'[WriteOrder(v)[i]] = Content(v, TRUE)
        OBVIOUS
      <3>1. WriteOrder(v)[i] \in Files
        BY Types DEF WriterInv, WrittenFits
      <3> QED
        BY <2>1, <3>1 DEF WriterInv, FilesFit, Working
    <2>3. /\ pc[v] = "fill" => disk'[File(v)] = Content(v, FALSE)
          /\ pc[v] = "append" => disk'[File(v)] = Content(v, TRUE)
          /\ pc[v] = "discard" => \E whole \in BOOLEAN : disk'[File(v)] = Content(v, whole)
      BY <2>1, Types DEF WriterInv, FilesFit
    <2> QED
      BY <1>1, <2>2, <2>3 DEF FilesFit
  <1>7. FilesTracked(v)'
    <2> SUFFICES ASSUME pc[v] # "idle", NEW file \in Files,
                        disk'[file] # NoFile, disk'[file].by = Invocation(v)
                 PROVE  Tracks(v, file)'
      BY <1>1 DEF FilesTracked, Exists
    <2>1. disk'[file] = disk[file]
      BY <1>3, <1>4
    <2>2. Tracks(v, file)
      BY <2>1 DEF WriterInv, FilesTracked, Exists
    <2> QED
      BY <1>1, <1>2, <2>2 DEF Tracks
  <1>8. Numbered(v)'
    <2>1. ASSUME NEW file \in Files, NEW n \in Nat,
                 disk'[file] # NoFile, disk'[file].by = <<v, n>>
          PROVE  n <= starts[v]
      <3>1. Invocation(w) # <<v, n>>
        BY DEF Invocation
      <3>2. disk'[file] = disk[file]
        BY <1>4, <2>1, <3>1
      <3> QED
        BY <2>1, <3>2 DEF WriterInv, Numbered, Exists
    <2>2. \A n \in Nat : Invocation(w) # <<v, n>>
      BY DEF Invocation
    <2>3. \A n \in Nat : <<v, n>> \in returned' => n <= starts[v]
      BY <1>2, <2>2 DEF WriterInv, Numbered
    <2>4. pc[v] # "idle" => starts[v] >= 1 /\ Invocation(v) \notin returned'
      BY <1>2, <1>3 DEF WriterInv, Numbered
    <2> QED
      BY <1>1, <2>1, <2>3, <2>4 DEF Numbered, Exists
  <1> QED
    BY <1>5, <1>6, <1>7, <1>8 DEF WriterInv

-----------------------------------------------------------------------------
(* The writer that takes the step.                                         *)

(* After Start an invocation keeps its name and its plan.                  *)
LEMMA OwnFrame ==
  ASSUME TypeOK, NEW w \in Writers, Step(w), ~Start(w)
  PROVE  /\ starts'[w] = starts[w] /\ journal'[w] = journal[w] /\ kind' = kind
         /\ WriteOrder(w)' = WriteOrder(w) /\ BundlePaths(w)' = BundlePaths(w)
         /\ Invocation(w)' = Invocation(w)
         /\ \A whole \in BOOLEAN : Content(w, whole)' = Content(w, whole)
         /\ pc[w] # "idle"
         /\ pc'[w] # "idle" => returned' = returned
  <1>1. starts'[w] = starts[w] /\ journal'[w] = journal[w] /\ kind' = kind /\ pc[w] # "idle"
    BY Types DEF Step, CheckAbsent, RefuseToOverwrite, Open, OpenFails, Fill,
       FillOrDiscard, Discard, Record, Return, TakeBack, Raise, Interrupt, Kill,
       Unwind, locals
  <1>2. WriteOrder(w)' = WriteOrder(w) /\ BundlePaths(w)' = BundlePaths(w)
    BY <1>1 DEF WriteOrder, BundlePaths
  <1>3. Invocation(w)' = Invocation(w)
    BY <1>1 DEF Invocation
  <1>4. \A whole \in BOOLEAN : Content(w, whole)' = Content(w, whole)
    BY <1>2, <1>3 DEF Content
  <1>5. pc'[w] # "idle" => returned' = returned
    BY Types DEF Step, CheckAbsent, RefuseToOverwrite, Open, OpenFails, Fill,
       FillOrDiscard, Discard, Record, Return, TakeBack, Raise, Interrupt, Kill,
       Unwind, Unlink, Go, history
  <1> QED
    BY <1>1, <1>2, <1>3, <1>4, <1>5

LEMMA NumberedKept ==
  ASSUME TypeOK, NEW w \in Writers, WriterInv(w), Step(w), ~Start(w)
  PROVE  Numbered(w)'
  <1>1. /\ starts'[w] = starts[w] /\ starts[w] \in Nat
        /\ Invocation(w)' = Invocation(w)
        /\ pc[w] # "idle"
        /\ pc'[w] # "idle" => returned' = returned
        /\ returned' \subseteq returned \cup {Invocation(w)}
    BY OwnFrame, HistoriesGrow, Types
  <1>2. \A n \in Nat : <<w, n>> \in returned' => n <= starts[w]
    BY <1>1 DEF WriterInv, Numbered, Invocation
  <1>3. ASSUME NEW file \in Files, NEW n \in Nat,
               disk'[file] # NoFile, disk'[file].by = <<w, n>>
        PROVE  n <= starts[w]
    <2>1. CASE disk' = disk
      BY <1>3, <2>1 DEF WriterInv, Numbered, Exists
    <2>2. ASSUME NEW other \in Files, NEW content \in Contents \cup {NoFile},
                 Touches(w, other, content)
          PROVE  n <= starts[w]
      <3>1. CASE file = other
        <4>1. disk'[file] = content
          BY <2>2, <3>1, Types DEF Touches
        <4> QED
          BY <1>1, <1>3, <2>2, <4>1 DEF Touches, Invocation
      <3>2. CASE file # other
        <4>1. disk'[file] = disk[file]
          BY <2>2, <3>2, Types DEF Touches
        <4> QED
          BY <1>3, <4>1 DEF WriterInv, Numbered, Exists
      <3> QED
        BY <3>1, <3>2
    <2> QED
      BY <2>1, <2>2, StepTouches
  <1>4. pc'[w] # "idle" => starts[w] >= 1 /\ Invocation(w) \notin returned'
    BY <1>1 DEF WriterInv, Numbered
  <1> QED
    BY <1>1, <1>2, <1>3, <1>4 DEF Numbered, Exists

(* A step that ends an invocation.                                         *)
LEMMA GoesIdle ==
  ASSUME TypeOK, NEW w \in Writers, WriterInv(w), Step(w), ~Start(w),
         pc'[w] = "idle", written'[w] = written[w]
  PROVE  WriterInv(w)'
  <1>1. WriteOrder(w)' = WriteOrder(w)
    BY OwnFrame
  <1>2. WrittenFits(w)'
    BY <1>1 DEF WriterInv, WrittenFits, Holding
  <1>3. FilesFit(w)' /\ FilesTracked(w)'
    BY DEF FilesFit, FilesTracked, Working
  <1> QED
    BY <1>2, <1>3, NumberedKept DEF WriterInv

(* A step to the rollback that leaves the files alone but for the one the  *)
(* writer held, if it held one, which goes or is lost track of.            *)
LEMMA GoesBack ==
  ASSUME TypeOK, NEW w \in Writers, WriterInv(w), Step(w), ~Start(w),
         pc[w] \in Working, pc'[w] = "rollback", written'[w] = written[w],
         \/ disk' = disk
         \/ pc[w] = "discard" /\ disk' = [disk EXCEPT ![File(w)] = NoFile],
         pc[w] \in Holding => \/ disk' = [disk EXCEPT ![File(w)] = NoFile]
                              \/ Invocation(w) \in unrecorded'
  PROVE  WriterInv(w)'
  <1>1. /\ WriteOrder(w)' = WriteOrder(w) /\ Invocation(w)' = Invocation(w)
        /\ Content(w, TRUE)' = Content(w, TRUE)
        /\ unrecorded \subseteq unrecorded'
    BY OwnFrame, HistoriesGrow
  <1>2. WrittenFits(w)'
    BY <1>1 DEF WriterInv, WrittenFits, Holding
  <1>3. FilesFit(w)'
    <2> SUFFICES ASSUME NEW i \in 1..Len(written[w])
                 PROVE  disk'[WriteOrder(w)[i]] = Content(w, TRUE)
      BY <1>1 DEF FilesFit
    <2>0. /\ Len(written[w]) <= Len(WriteOrder(w)) /\ Len(written[w]) \in Nat
          /\ Len(WriteOrder(w)) \in Nat
      BY Types, OrderIs DEF WriterInv, WrittenFits
    <2>1. /\ disk[WriteOrder(w)[i]] = Content(w, TRUE) /\ WriteOrder(w)[i] \in Files
          /\ i \in 1..Len(WriteOrder(w))
      <3>1. i \in 1..Len(WriteOrder(w))
        BY <2>0
      <3>2. disk[WriteOrder(w)[i]] = Content(w, TRUE)
        BY DEF WriterInv, FilesFit
      <3> QED
        BY <3>1, <3>2, OrderIs
    <2>2. CASE disk' = disk
      BY <2>1, <2>2
    <2>3. CASE pc[w] = "discard" /\ disk' = [disk EXCEPT ![File(w)] = NoFile]
      <3>1. Len(written[w]) = at[w] - 1 /\ at[w] \in 1..Len(WriteOrder(w))
        BY <2>3, Types, OrderIs DEF WriterInv, WrittenFits, Holding
      <3>2. i # at[w]
        BY <3>1, Types
      <3>3. WriteOrder(w)[i] # File(w)
        BY <2>1, <3>1, <3>2, OrderIs DEF File
      <3> QED
        BY <2>1, <2>3, <3>3, Types
    <2> QED
      BY <2>2, <2>3
  <1>4. FilesTracked(w)'
    <2> SUFFICES ASSUME NEW file \in Files,
                        disk'[file] # NoFile, disk'[file].by = Invocation(w)
                 PROVE  Tracks(w, file)'
      BY <1>1 DEF FilesTracked, Exists
    <2>1. disk'[file] = disk[file]
      BY Types
    <2>2. Tracks(w, file)
      BY <2>1 DEF WriterInv, FilesTracked, Exists, Working
    <2>3. pc[w] \in Holding /\ file = File(w) => Invocation(w) \in unrecorded'
      BY Types
    <2> QED
      BY <1>1, <2>2, <2>3 DEF Tracks
  <1> QED
    BY <1>2, <1>3, <1>4, NumberedKept DEF WriterInv

(* Facts about the position of a writer that is at the file it holds, or   *)
(* about to open it.                                                       *)
LEMMA PositionIs ==
  ASSUME TypeOK, NEW w \in Writers, WriterInv(w)
  PROVE  /\ Len(WriteOrder(w)) \in Nat /\ at[w] \in Nat /\ Len(written[w]) \in Nat
         /\ at[w] \in 1..Len(WriteOrder(w)) /\ Len(written[w]) <= Len(WriteOrder(w))
         /\ \A i \in 1..Len(written[w]) :
              /\ i \in 1..Len(WriteOrder(w)) /\ WriteOrder(w)[i] \in Files
              /\ written[w][i] = WriteOrder(w)[i]
         /\ pc[w] \in {"open"} \cup Holding =>
              /\ Len(written[w]) = at[w] - 1
              /\ \A i \in 1..Len(written[w]) : WriteOrder(w)[i] # File(w)
         /\ pc[w] \in Working =>
              /\ starts[w] >= 1
              /\ \A i \in 1..Len(written[w]) : disk[WriteOrder(w)[i]] = Content(w, TRUE)
  <1>1. /\ Len(WriteOrder(w)) \in Nat /\ at[w] \in Nat /\ Len(written[w]) \in Nat
        /\ at[w] \in 1..Len(WriteOrder(w)) /\ Len(written[w]) <= Len(WriteOrder(w))
    BY Types, OrderIs DEF WriterInv, WrittenFits
  <1>2. \A i \in 1..Len(written[w]) : i \in 1..Len(WriteOrder(w))
    BY <1>1
  <1>3. \A i \in 1..Len(written[w]) : /\ WriteOrder(w)[i] \in Files
                                      /\ written[w][i] = WriteOrder(w)[i]
    BY <1>2, OrderIs DEF WriterInv, WrittenFits
  <1>4. ASSUME pc[w] \in {"open"} \cup Holding
        PROVE  /\ Len(written[w]) = at[w] - 1
               /\ \A i \in 1..Len(written[w]) : WriteOrder(w)[i] # File(w)
    <2>1. Len(written[w]) = at[w] - 1
      BY <1>4 DEF WriterInv, WrittenFits
    <2>2. ASSUME NEW i \in 1..Len(written[w])
          PROVE  WriteOrder(w)[i] # File(w)
      <3>1. i # at[w]
        BY <1>1, <2>1
      <3> QED
        BY <1>1, <1>2, <3>1, OrderIs DEF File
    <2> QED
      BY <2>1, <2>2
  <1>5. pc[w] \in Working =>
          /\ starts[w] >= 1
          /\ \A i \in 1..Len(written[w]) : disk[WriteOrder(w)[i]] = Content(w, TRUE)
    BY DEF WriterInv, FilesFit, Numbered, Working
  <1> QED
    BY <1>1, <1>2, <1>3, <1>4, <1>5

LEMMA StartKept ==
  ASSUME TypeOK, NEW w \in Writers, WriterInv(w), Start(w)
  PROVE  WriterInv(w)'
  <1>1. /\ pc'[w] = "check" /\ starts'[w] = starts[w] + 1 /\ written'[w] = <<>>
        /\ starts[w] \in Nat /\ disk' = disk /\ returned' = returned
    BY Types DEF Start, Go, history
  <1>2. Invocation(w)' = <<w, starts[w] + 1>>
    BY <1>1 DEF Invocation
  <1>3. WrittenFits(w)'
    <2>1. Len(written'[w]) = 0
      BY <1>1
    <2>2. Len(WriteOrder(w))' \in Nat
      <3>1. \/ /\ kind' = "creation"
               /\ WriteOrder(w)' = <<"archive", "receipt", "metadata">>
            \/ \E given \in BOOLEAN : WriteOrder(w)' =
                 <<"archive", "payload", "source">>
                   \o (IF given THEN <<"dispatchJournal">> ELSE <<>>) \o <<"evidence">>
        BY <1>1, Types DEF Start, WriteOrder, BundlePaths
      <3> QED
        BY <3>1
    <2> QED
      BY <1>1, <2>1, <2>2 DEF WrittenFits, Holding
  <1>4. FilesFit(w)'
    BY <1>1 DEF FilesFit, Working
  <1>5. FilesTracked(w)' /\ Numbered(w)'
    BY <1>1, <1>2 DEF WriterInv, FilesTracked, Numbered, Exists
  <1> QED
    BY <1>3, <1>4, <1>5 DEF WriterInv

LEMMA CheckKept ==
  ASSUME TypeOK, NEW w \in Writers, WriterInv(w), CheckAbsent(w)
  PROVE  WriterInv(w)'
  <1>0. Step(w) /\ ~Start(w)
    BY DEF Step, CheckAbsent, Start
  <1>1. /\ pc[w] = "check" /\ pc'[w] \in {"check", "open"} /\ disk' = disk
        /\ written' = written /\ unrecorded' = unrecorded
        /\ pc'[w] = "open" => at'[w] = 1
    BY Types DEF CheckAbsent, Go, history
  <1>2. WriteOrder(w)' = WriteOrder(w) /\ Invocation(w)' = Invocation(w)
    BY <1>0, OwnFrame
  <1>3. WrittenFits(w)'
    BY <1>1, <1>2 DEF WriterInv, WrittenFits, Holding
  <1>4. Len(written[w]) = 0
    BY <1>1 DEF WriterInv, WrittenFits
  <1>5. FilesFit(w)'
    <2>1. Len(written'[w]) = 0 /\ \A i \in 1..Len(written'[w]) : FALSE
      BY <1>1, <1>4
    <2> QED
      BY <1>1, <2>1 DEF FilesFit
  <1>6. FilesTracked(w)'
    BY <1>1, <1>2 DEF WriterInv, FilesTracked, Exists, Tracks, Holding
  <1> QED
    BY <1>0, <1>3, <1>5, <1>6, NumberedKept DEF WriterInv

(* open("xb") and the write of the file: the writer holds a file at its    *)
(* position, before and after or just after.                               *)
LEMMA HoldKept ==
  ASSUME TypeOK, NEW w \in Writers, WriterInv(w), Step(w), ~Start(w),
         pc[w] \in {"open", "fill"}, pc'[w] \in Holding, NEW whole \in BOOLEAN,
         disk' = [disk EXCEPT ![File(w)] = Content(w, whole)],
         pc'[w] = "fill" => ~whole, pc'[w] = "append" => whole,
         UNCHANGED <<at, written, unrecorded>>
  PROVE  WriterInv(w)'
  <1>1. /\ WriteOrder(w)' = WriteOrder(w) /\ Invocation(w)' = Invocation(w)
        /\ \A other \in BOOLEAN : Content(w, other)' = Content(w, other)
        /\ File(w)' = File(w) /\ pc[w] \in Working /\ pc'[w] \in Working
    BY OwnFrame DEF File, Working, Places, Holding
  <1>2. WrittenFits(w)'
    BY <1>1 DEF WriterInv, WrittenFits, Holding
  <1>3. disk'[File(w)] = Content(w, whole) /\ File(w) \in Files
    BY Types
  <1>4. \A i \in 1..Len(written[w]) : disk'[WriteOrder(w)[i]] = Content(w, TRUE)
    <2>1. ASSUME NEW i \in 1..Len(written[w])
          PROVE  disk'[WriteOrder(w)[i]] = Content(w, TRUE)
      <3>1. /\ WriteOrder(w)[i] \in Files /\ WriteOrder(w)[i] # File(w)
            /\ disk[WriteOrder(w)[i]] = Content(w, TRUE)
        BY <1>1, PositionIs DEF Holding
      <3> QED
        BY <3>1, Types
    <2> QED
      BY <2>1
  <1>5. FilesFit(w)'
    BY <1>1, <1>3, <1>4 DEF FilesFit
  <1>6. FilesTracked(w)'
    <2> SUFFICES ASSUME NEW file \in Files,
                        disk'[file] # NoFile, disk'[file].by = Invocation(w)
                 PROVE  Tracks(w, file)'
      BY <1>1 DEF FilesTracked, Exists
    <2>1. CASE file = File(w)
      BY <1>1, <2>1 DEF Tracks
    <2>2. CASE file # File(w)
      <3>1. disk'[file] = disk[file]
        BY <2>2, Types
      <3>2. Tracks(w, file)
        BY <3>1 DEF WriterInv, FilesTracked, Exists
      <3> QED
        BY <1>1, <2>2, <3>2 DEF Tracks
    <2> QED
      BY <2>1, <2>2
  <1> QED
    BY <1>2, <1>5, <1>6, NumberedKept DEF WriterInv

LEMMA RecordKept ==
  ASSUME TypeOK, NEW w \in Writers, WriterInv(w), Record(w)
  PROVE  WriterInv(w)'
  <1>0. Step(w) /\ ~Start(w)
    BY DEF Step, Record, Start
  <1>1. /\ pc[w] = "append" /\ written'[w] = Append(written[w], File(w))
        /\ disk' = disk /\ unrecorded' = unrecorded
        /\ \/ at[w] < Len(WriteOrder(w)) /\ pc'[w] = "open" /\ at'[w] = at[w] + 1
           \/ ~(at[w] < Len(WriteOrder(w))) /\ pc'[w] = "written"
    BY Types DEF Record, Go, history
  <1>2. /\ WriteOrder(w)' = WriteOrder(w) /\ Invocation(w)' = Invocation(w)
        /\ Content(w, TRUE)' = Content(w, TRUE)
    BY <1>0, OwnFrame
  <1>3. /\ Len(written[w]) = at[w] - 1 /\ at[w] \in 1..Len(WriteOrder(w))
        /\ Len(WriteOrder(w)) \in Nat
        /\ \A i \in 1..Len(written[w]) : written[w][i] = WriteOrder(w)[i]
        /\ \A i \in 1..Len(written[w]) : disk[WriteOrder(w)[i]] = Content(w, TRUE)
        /\ disk[File(w)] = Content(w, TRUE) /\ File(w) = WriteOrder(w)[at[w]]
    BY <1>1, PositionIs DEF Holding, Working, Places, WriterInv, FilesFit, File
  <1>4. /\ Len(written'[w]) = at[w]
        /\ \A i \in 1..Len(written[w]) : written'[w][i] = written[w][i]
        /\ written'[w][at[w]] = File(w)
    BY <1>1, <1>3, Types
  <1>5. \A i \in 1..at[w] : /\ written'[w][i] = WriteOrder(w)[i]
                            /\ disk[WriteOrder(w)[i]] = Content(w, TRUE)
    <2>1. \A i \in 1..at[w] : i = at[w] \/ i \in 1..Len(written[w])
      BY <1>3
    <2> QED
      BY <1>3, <1>4, <2>1
  <1>6. WrittenFits(w)'
    <2>1. Len(written'[w]) <= Len(WriteOrder(w))
      BY <1>3, <1>4
    <2>2. /\ pc'[w] \notin {"check"} \cup Holding
          /\ pc'[w] = "open" => Len(written'[w]) = at'[w] - 1
          /\ pc'[w] = "written" => Len(written'[w]) = Len(WriteOrder(w))
      BY <1>1, <1>3, <1>4 DEF Holding
    <2> QED
      BY <1>2, <1>4, <1>5, <2>1, <2>2 DEF WrittenFits
  <1>7. FilesFit(w)'
    BY <1>1, <1>2, <1>4, <1>5 DEF FilesFit
  <1>8. FilesTracked(w)'
    <2> SUFFICES ASSUME NEW file \in Files,
                        disk[file] # NoFile, disk[file].by = Invocation(w)
                 PROVE  Tracks(w, file)'
      BY <1>1, <1>2 DEF FilesTracked, Exists
    <2>1. Tracks(w, file)
      BY <1>1 DEF WriterInv, FilesTracked, Exists
    <2>2. CASE Invocation(w) \in unrecorded
      BY <1>1, <1>2, <2>2 DEF Tracks
    <2>3. CASE \E i \in 1..at[w] : file = WriteOrder(w)[i]
      BY <1>2, <1>4, <2>3 DEF Tracks
    <2>4. (\E i \in 1..Len(written[w]) : file = WriteOrder(w)[i]) \/ file = File(w)
            => \E i \in 1..at[w] : file = WriteOrder(w)[i]
      BY <1>3
    <2> QED
      BY <2>1, <2>2, <2>3, <2>4 DEF Tracks
  <1> QED
    BY <1>0, <1>6, <1>7, <1>8, NumberedKept DEF WriterInv

LEMMA TakeBackKept ==
  ASSUME TypeOK, NEW w \in Writers, WriterInv(w), TakeBack(w)
  PROVE  WriterInv(w)'
  <1>0. Step(w) /\ ~Start(w)
    BY DEF Step, TakeBack, Start
  <1> DEFINE last == Len(written[w])
             file_ == WriteOrder(w)[last]
  <1>1. /\ pc[w] = "rollback" /\ pc'[w] = "rollback" /\ pc[w] \in Working
        /\ last \in Nat /\ last >= 1
        /\ written'[w] = SubSeq(written[w], 1, last - 1)
        /\ \/ disk' = [disk EXCEPT ![file_] = NoFile] /\ unrecorded' = unrecorded
           \/ unrecorded' = unrecorded \cup {Invocation(w)} /\ disk' = disk
    <2>1. /\ pc[w] = "rollback" /\ written[w] # <<>> /\ Unlink(w, Last(written[w]))
          /\ written' = [written EXCEPT ![w] = Front(@)] /\ pc' = pc
      BY DEF TakeBack
    <2>2. Len(written[w]) \in Nat /\ Len(written[w]) >= 1
      <3>1. written[w] \in Seq(Files) /\ written[w] # <<>>
        BY <2>1, Types
      <3> QED
        BY <3>1
    <2>3. written[w][Len(written[w])] = WriteOrder(w)[Len(written[w])]
      <3>1. Len(written[w]) \in 1..Len(written[w])
        BY <2>2
      <3> QED
        BY <3>1, PositionIs
    <2>4. written'[w] = SubSeq(written[w], 1, Len(written[w]) - 1)
      BY <2>1, Types DEF Front
    <2> QED
      BY <2>1, <2>2, <2>3, <2>4 DEF Unlink, Put, Last, Working, Places
  <1>2. /\ WriteOrder(w)' = WriteOrder(w) /\ Invocation(w)' = Invocation(w)
        /\ Content(w, TRUE)' = Content(w, TRUE)
    BY <1>0, OwnFrame
  <1>3. /\ last <= Len(WriteOrder(w)) /\ Len(WriteOrder(w)) \in Nat
        /\ \A i \in 1..last : /\ i \in 1..Len(WriteOrder(w)) /\ WriteOrder(w)[i] \in Files
                              /\ written[w][i] = WriteOrder(w)[i]
                              /\ disk[WriteOrder(w)[i]] = Content(w, TRUE)
    BY <1>1, PositionIs
  <1>4. /\ Len(written'[w]) = last - 1
        /\ \A i \in 1..(last - 1) : i \in 1..last /\ written'[w][i] = written[w][i]
    BY <1>1, Types
  <1>5. WrittenFits(w)'
    <2>1. Len(written'[w]) <= Len(WriteOrder(w)) /\ pc'[w] = "rollback"
      BY <1>1, <1>3, <1>4
    <2>2. \A i \in 1..Len(written'[w]) : written'[w][i] = WriteOrder(w)[i]
      BY <1>3, <1>4
    <2> QED
      BY <1>2, <2>1, <2>2 DEF WrittenFits, Holding
  <1>6. FilesFit(w)'
    <2> SUFFICES ASSUME NEW i \in 1..(last - 1)
                 PROVE  disk'[WriteOrder(w)[i]] = Content(w, TRUE)
      BY <1>1, <1>2, <1>4 DEF FilesFit
    <2>1. WriteOrder(w)[i] # file_
      <3>1. i # last /\ i \in 1..Len(WriteOrder(w)) /\ last \in 1..Len(WriteOrder(w))
        BY <1>1, <1>3, <1>4
      <3> QED
        BY <3>1, OrderIs
    <2> QED
      BY <1>1, <1>3, <1>4, <2>1, Types
  <1>7. FilesTracked(w)'
    <2> SUFFICES ASSUME NEW file \in Files,
                        disk'[file] # NoFile, disk'[file].by = Invocation(w)
                 PROVE  Tracks(w, file)'
      BY <1>1, <1>2 DEF FilesTracked, Exists
    <2>1. disk'[file] = disk[file]
      BY <1>1, <1>3, Types
    <2>2. Tracks(w, file)
      BY <1>1, <2>1 DEF WriterInv, FilesTracked, Exists
    <2>3. Invocation(w) \in unrecorded => Invocation(w) \in unrecorded'
      BY <1>1
    <2>4. ASSUME NEW i \in 1..last, file = WriteOrder(w)[i], Invocation(w) \notin unrecorded'
          PROVE  i \in 1..(last - 1)
      <3>1. i # last
        BY <1>1, <2>1, <2>4, Types
      <3> QED
        BY <1>1, <3>1
    <2> QED
      BY <1>1, <1>2, <1>4, <2>2, <2>3, <2>4 DEF Tracks, Holding
  <1> QED
    BY <1>0, <1>5, <1>6, <1>7, NumberedKept DEF WriterInv

LEMMA OwnKept ==
  ASSUME TypeOK, NEW w \in Writers, WriterInv(w), Step(w)
  PROVE  WriterInv(w)'
  <1>1. CASE Start(w)
    BY <1>1, StartKept
  <1>2. CASE CheckAbsent(w)
    BY <1>2, CheckKept
  <1>3. CASE RefuseToOverwrite(w) \/ Return(w) \/ Raise(w) \/ Kill(w)
    <2>1. ~Start(w)
      BY <1>3 DEF RefuseToOverwrite, Return, Raise, Kill, Start
    <2>2. pc'[w] = "idle" /\ written' = written
      BY <1>3, Types DEF RefuseToOverwrite, Return, Raise, Kill, Go, locals
    <2> QED
      BY <2>1, <2>2, GoesIdle
  <1>4. CASE Open(w)
    <2>1. ~Start(w)
      BY <1>4 DEF Open, Start
    <2>2. /\ pc[w] = "open" /\ pc'[w] = "fill"
          /\ disk' = [disk EXCEPT ![File(w)] = Content(w, FALSE)]
          /\ UNCHANGED <<at, written, unrecorded>>
      BY <1>4, Types DEF Open, Put, Go, locals, history
    <2> QED
      BY <2>1, <2>2, HoldKept DEF Holding
  <1>5. CASE Fill(w)
    <2>1. ~Start(w)
      BY <1>5 DEF Fill, Start
    <2>2. /\ pc[w] = "fill" /\ pc'[w] = "append"
          /\ disk' = [disk EXCEPT ![File(w)] = Content(w, TRUE)]
          /\ UNCHANGED <<at, written, unrecorded>>
      BY <1>5, Types DEF Fill, Put, Go, locals, history
    <2> QED
      BY <2>1, <2>2, HoldKept DEF Holding
  <1>6. CASE FillOrDiscard(w)
    <2>1. ~Start(w)
      BY <1>6 DEF FillOrDiscard, Start
    <2>2. PICK whole \in BOOLEAN :
            /\ pc[w] = "fill" /\ pc'[w] = "discard"
            /\ disk' = [disk EXCEPT ![File(w)] = Content(w, whole)]
            /\ UNCHANGED <<at, written, unrecorded>>
      BY <1>6, Types DEF FillOrDiscard, Put, Go, history
    <2> QED
      BY <2>1, <2>2, HoldKept DEF Holding
  <1>7. CASE OpenFails(w)
    <2>1. ~Start(w)
      BY <1>7 DEF OpenFails, Start
    <2>2. /\ pc[w] = "open" /\ pc'[w] \in {"rollback", "idle"}
          /\ UNCHANGED <<written, disk>>
      BY <1>7, Types DEF OpenFails, Unwind, Go
    <2> QED
      BY <2>1, <2>2, GoesBack, GoesIdle DEF Working, Places, Holding
  <1>8. CASE Discard(w)
    <2>1. ~Start(w)
      BY <1>8 DEF Discard, Start
    <2>2. /\ pc[w] = "discard" /\ pc'[w] \in {"rollback", "idle"}
          /\ written' = written
          /\ \/ disk' = [disk EXCEPT ![File(w)] = NoFile]
             \/ disk' = disk /\ Invocation(w) \in unrecorded'
      BY <1>8, Types DEF Discard, Unlink, Put, Unwind, Go
    <2> QED
      BY <2>1, <2>2, GoesBack, GoesIdle DEF Working, Places, Holding
  <1>9. CASE Record(w)
    BY <1>9, RecordKept
  <1>10. CASE TakeBack(w)
    BY <1>10, TakeBackKept
  <1>11. CASE Interrupt(w)
    <2>1. ~Start(w) /\ UNCHANGED <<written, disk>>
      BY <1>11 DEF Interrupt, Start
    <2>2. \/ pc'[w] = "idle"
          \/ /\ pc'[w] = "rollback" /\ pc[w] \in Working
             /\ pc[w] \in Holding => Invocation(w) \in unrecorded'
      <3>1. CASE pc[w] = "check" \/ pc[w] = "rollback"
        BY <1>11, <3>1, Types DEF Interrupt, Go
      <3>2. CASE pc[w] \in {"open", "written", "discard"}
        BY <1>11, <3>2, Types DEF Interrupt, Unwind, Go, Working, Places, Holding
      <3>3. CASE pc[w] \in {"fill", "append"}
        BY <1>11, <3>3, Types DEF Interrupt, Unwind, Go, Working, Places, Holding
      <3> QED
        BY <1>11, <3>1, <3>2, <3>3 DEF Interrupt
    <2> QED
      BY <2>1, <2>2, GoesBack, GoesIdle
  <1> QED
    BY <1>1, <1>2, <1>3, <1>4, <1>5, <1>6, <1>7, <1>8, <1>9, <1>10, <1>11 DEF Step

LEMMA WritersKept ==
  ASSUME TypeOK, \A v \in Writers : WriterInv(v), NEW w \in Writers, Step(w)
  PROVE  \A v \in Writers : WriterInv(v)'
  BY OwnKept, OthersKept

-----------------------------------------------------------------------------
(* Type correctness.                                                       *)

LEMMA InitType == Init => TypeOK
  <1> SUFFICES ASSUME Init PROVE TypeOK
    OBVIOUS
  <1>1. \A w \in Writers : 1 \in 1..Len(WriteOrder(w))
    BY OrderIs
  <1> QED
    BY <1>1, BundleAssumption DEF Init, TypeOK

LEMMA StartType ==
  ASSUME TypeOK, NEW w \in Writers, Start(w)
  PROVE  TypeOK'
  <1>1. /\ kind' = kind /\ pc' \in [Writers -> Places]
        /\ journal' \in [Writers -> BOOLEAN] /\ at' \in [Writers -> Nat] /\ at'[w] = 1
        /\ written' \in [Writers -> Seq(Files)]
        /\ raised' \in [Writers -> {"error", "interrupt"}]
        /\ starts' \in [Writers -> 0..MaxStarts]
        /\ UNCHANGED <<disk, history>>
    <2>1. starts[w] + 1 \in 0..MaxStarts
      BY Types DEF Start
    <2> QED
      BY <2>1, Types DEF Start, Go, Places
  <1>2. ASSUME NEW v \in Writers
        PROVE  at'[v] \in 1..Len(WriteOrder(v)')
    <2>1. CASE v = w
      <3>1. Len(WriteOrder(w)') \in Nat /\ Len(WriteOrder(w)') >= 1
        <4>1. \/ WriteOrder(w)' = <<"archive", "receipt", "metadata">>
              \/ \E given \in BOOLEAN : WriteOrder(w)' =
                   <<"archive", "payload", "source">>
                     \o (IF given THEN <<"dispatchJournal">> ELSE <<>>) \o <<"evidence">>
          BY <1>1, Types DEF WriteOrder, BundlePaths
        <4> QED
          BY <4>1
      <3> QED
        BY <1>1, <2>1, <3>1
    <2>2. CASE v # w
      BY <2>2, OthersStay, Types DEF Step
    <2> QED
      BY <2>1, <2>2
  <1> QED
    BY <1>1, <1>2, Types DEF TypeOK, Places, history

LEMMA StepType ==
  ASSUME TypeOK, NEW w \in Writers, WriterInv(w), Step(w), ~Start(w)
  PROVE  TypeOK'
  <1>1. /\ kind' = kind /\ starts' = starts /\ journal' = journal
        /\ pc' \in [Writers -> Places]
        /\ raised' \in [Writers -> {"error", "interrupt"}]
    BY Types DEF Step, CheckAbsent, RefuseToOverwrite, Open, OpenFails, Fill,
       FillOrDiscard, Discard, Record, Return, TakeBack, Raise, Interrupt, Kill,
       Unwind, Go, locals, Places
  <1>2. \A v \in Writers : WriteOrder(v)' = WriteOrder(v)
    BY <1>1 DEF WriteOrder, BundlePaths
  <1>3. at' \in [Writers -> Nat] /\ at'[w] \in 1..Len(WriteOrder(w))
    <2>1. CASE CheckAbsent(w) \/ Record(w)
      <3>1. /\ at[w] \in 1..Len(WriteOrder(w)) /\ Len(WriteOrder(w)) \in Nat
            /\ Len(BundlePaths(w)) = Len(WriteOrder(w))
        BY PositionIs, OrderIs
      <3>2. \/ at' = at
            \/ at' = [at EXCEPT ![w] = 1]
            \/ at[w] # Len(WriteOrder(w)) /\ at' = [at EXCEPT ![w] = @ + 1]
        <4>1. CASE CheckAbsent(w)
          BY <3>1, <4>1 DEF CheckAbsent
        <4>2. CASE Record(w)
          BY <3>1, <4>2 DEF Record
        <4> QED
          BY <2>1, <4>1, <4>2
      <3>3. at \in [Writers -> Nat]
        BY Types
      <3>4. CASE at' = at \/ at' = [at EXCEPT ![w] = 1]
        BY <3>1, <3>3, <3>4
      <3>5. CASE at[w] # Len(WriteOrder(w)) /\ at' = [at EXCEPT ![w] = @ + 1]
        <4>1. at[w] + 1 \in 1..Len(WriteOrder(w)) /\ at[w] + 1 \in Nat
          BY <3>1, <3>5
        <4> QED
          BY <3>3, <3>5, <4>1
      <3> QED
        BY <3>2, <3>4, <3>5
    <2>2. CheckAbsent(w) \/ Record(w) \/ at' = at
      BY DEF Step, RefuseToOverwrite, Open, OpenFails, Fill,
         FillOrDiscard, Discard, Return, TakeBack, Raise, Interrupt, Kill, locals
    <2> QED
      BY <2>1, <2>2, PositionIs, Types
  <1>4. written' \in [Writers -> Seq(Files)]
    <2>1. CASE Record(w)
      <3>1. written' = [written EXCEPT ![w] = Append(written[w], File(w))]
        BY <2>1, Types DEF Record
      <3>2. Append(written[w], File(w)) \in Seq(Files)
        BY Types
      <3> QED
        BY <3>1, <3>2, Types
    <2>2. CASE TakeBack(w)
      <3>1. written' = [written EXCEPT ![w] = SubSeq(written[w], 1, Len(written[w]) - 1)]
        BY <2>2, Types DEF TakeBack, Front
      <3>2. SubSeq(written[w], 1, Len(written[w]) - 1) \in Seq(Files)
        <4>1. \A i \in 1..(Len(written[w]) - 1) : written[w][i] \in Files
          BY Types
        <4> QED
          BY <4>1, Types
      <3> QED
        BY <3>1, <3>2, Types
    <2>3. Record(w) \/ TakeBack(w) \/ written' = written
      BY DEF Step, CheckAbsent, RefuseToOverwrite, Open, OpenFails, Fill,
         FillOrDiscard, Discard, Return, Raise, Interrupt, Kill, locals
    <2> QED
      BY <2>1, <2>2, <2>3, Types
  <1>5. disk' \in [Files -> Contents \cup {NoFile}]
    BY StepTouches, Types DEF Touches
  <1>6. returned' \cup unrecorded' \cup cut' \subseteq Writers \X (1..MaxStarts)
    <2>1. Invocation(w) \in Writers \X (1..MaxStarts)
      BY OwnFrame, Types DEF WriterInv, Numbered, Invocation
    <2> QED
      BY <2>1, HistoriesGrow, Types
  <1>7. \A v \in Writers : at'[v] \in 1..Len(WriteOrder(v)')
    BY <1>2, <1>3, OthersStay, PositionIs, Types DEF TypeOK
  <1> QED
    BY <1>1, <1>3, <1>4, <1>5, <1>6, <1>7, Types DEF TypeOK, Places

-----------------------------------------------------------------------------
(* The files that the marker vouches for.                                  *)

LEMMA MarkerIs ==
  ASSUME TypeOK, NEW w \in Writers
  PROVE  /\ Marker \in Files /\ Marker = WriteOrder(w)[Len(WriteOrder(w))]
         /\ Len(WriteOrder(w)) \in 1..Len(WriteOrder(w))
         /\ \A i \in 1..Len(WriteOrder(w)) :
              WriteOrder(w)[i] = Marker <=> i = Len(WriteOrder(w))
  <1>1. Len(WriteOrder(w)) \in 1..Len(WriteOrder(w))
    BY OrderIs
  <1> QED
    BY <1>1, OrderIs

(* Once the marker is whole, the files it names are.                       *)
LEMMA FillKeepsMarker ==
  ASSUME TypeOK, NEW w \in Writers, WriterInv(w), MarkerInv, pc[w] = "fill",
         NEW whole \in BOOLEAN, disk' = [disk EXCEPT ![File(w)] = Content(w, whole)],
         kind' = kind, unrecorded \subseteq unrecorded'
  PROVE  MarkerInv'
  <1>1. Marker' = Marker /\ Marker \in Files /\ File(w) \in Files
    BY MarkerIs, Types DEF Marker
  <1>2. /\ starts[w] >= 1
        /\ disk[File(w)] = Content(w, FALSE)
    BY PositionIs DEF Working, Places, WriterInv, FilesFit
  <1>3. CASE File(w) = Marker
    <2>1. at[w] = Len(WriteOrder(w))
      BY <1>3, MarkerIs, PositionIs DEF File
    <2>2. \A i \in 1..Len(WriteOrder(w)) :
            whole => disk'[WriteOrder(w)[i]] = Content(w, TRUE)
      <3> SUFFICES ASSUME NEW i \in 1..Len(WriteOrder(w)), whole
                   PROVE  disk'[WriteOrder(w)[i]] = Content(w, TRUE)
        OBVIOUS
      <3>1. CASE i = at[w]
        BY <1>1, <3>1, Types DEF File
      <3>2. CASE i # at[w]
        <4>1. i \in 1..Len(written[w])
          <5>1. Len(written[w]) = at[w] - 1 /\ Len(WriteOrder(w)) \in Nat
            BY PositionIs DEF Holding
          <5> QED
            BY <2>1, <3>2, <5>1
        <4>2. /\ WriteOrder(w)[i] \in Files /\ WriteOrder(w)[i] # File(w)
              /\ disk[WriteOrder(w)[i]] = Content(w, TRUE)
          BY <4>1, PositionIs DEF Holding, Working, Places
        <4> QED
          BY <4>2, Types
      <3> QED
        BY <3>1, <3>2
    <2>3. disk'[Marker] = Content(w, whole)
      BY <1>1, <1>3, Types
    <2>4. /\ Content(w, whole).whole = whole
          /\ Content(w, whole).names = {WriteOrder(w)[i] : i \in 1..Len(WriteOrder(w))}
      BY <1>2, ContentIs
    <2>5. ASSUME whole, NEW file \in Content(w, whole).names
          PROVE  disk'[file] = disk'[Marker]
      BY <2>2, <2>3, <2>4, <2>5
    <2> QED
      BY <1>1, <2>3, <2>4, <2>5 DEF MarkerInv, Whole
  <1>4. CASE File(w) # Marker
    <2>1. disk'[Marker] = disk[Marker]
      BY <1>1, <1>4, Types
    <2>2. ASSUME disk[Marker] # NoFile, disk[Marker].whole,
                 disk[Marker].by \notin unrecorded', NEW file \in disk[Marker].names
          PROVE  disk'[file] = disk[Marker]
      <3>1. disk[file] = disk[Marker]
        BY <2>2 DEF MarkerInv, Whole, Exists
      <3>2. file # File(w)
        <4>1. Content(w, FALSE).whole = FALSE
          BY <1>2, ContentIs
        <4> QED
          BY <1>2, <2>2, <3>1, <4>1
      <3>3. file \in Files
        BY <1>1, <2>2, Types DEF Contents
      <3> QED
        BY <3>1, <3>2, <3>3, Types
    <2> QED
      BY <1>1, <2>1, <2>2 DEF MarkerInv, Whole, Exists
  <1> QED
    BY <1>3, <1>4

(* A file is taken back before those that were written before it, so the   *)
(* marker is gone before the files it names.                               *)
LEMMA RemovalKeepsMarker ==
  ASSUME TypeOK, NEW w \in Writers, WriterInv(w), MarkerInv,
         NEW n \in 1..Len(WriteOrder(w)),
         \/ pc[w] = "discard" /\ n = at[w]
         \/ pc[w] = "rollback" /\ n = Len(written[w]),
         disk' = [disk EXCEPT ![WriteOrder(w)[n]] = NoFile],
         kind' = kind, unrecorded \subseteq unrecorded'
  PROVE  MarkerInv'
  <1> DEFINE gone == WriteOrder(w)[n]
  <1>1. Marker' = Marker /\ Marker \in Files /\ gone \in Files
    BY MarkerIs, OrderIs DEF Marker
  <1>2. disk[gone] # NoFile /\ disk[gone].by = Invocation(w)
    <2>1. \E whole \in BOOLEAN : disk[gone] = Content(w, whole)
      <3>1. CASE pc[w] = "discard"
        BY <3>1 DEF WriterInv, FilesFit, File
      <3>2. CASE pc[w] = "rollback"
        <4>1. n \in 1..Len(written[w])
          BY <3>2, PositionIs
        <4> QED
          BY <3>2, <4>1, PositionIs DEF Working, Places
      <3> QED
        BY <3>1, <3>2
    <2>2. starts[w] >= 1
      BY PositionIs DEF Working, Places
    <2> QED
      BY <2>1, <2>2, ContentIs
  <1>3. CASE gone = Marker
    BY <1>1, <1>3, Types DEF MarkerInv, Whole, Exists
  <1>4. CASE gone # Marker
    <2>1. disk'[Marker] = disk[Marker]
      BY <1>1, <1>4, Types
    <2>2. ASSUME disk[Marker] # NoFile, disk[Marker].by = Invocation(w),
                 Invocation(w) \notin unrecorded
          PROVE  FALSE
      <3>1. Tracks(w, Marker)
        BY <1>1, <2>2 DEF WriterInv, FilesTracked, Exists
      <3>2. CASE \E i \in 1..Len(written[w]) : Marker = WriteOrder(w)[i]
        <4>1. PICK i \in 1..Len(written[w]) : Marker = WriteOrder(w)[i]
          BY <3>2
        <4>2. Len(written[w]) \in Nat /\ Len(written[w]) <= n /\ n \in Nat
          <5>1. /\ Len(written[w]) \in Nat /\ at[w] \in Nat
                /\ pc[w] = "discard" => Len(written[w]) = at[w] - 1
            BY PositionIs DEF Holding
          <5> QED
            BY <5>1
        <4>3. i \in 1..Len(WriteOrder(w))
          BY <4>1, PositionIs
        <4>4. i = Len(WriteOrder(w))
          BY <4>1, <4>3, MarkerIs
        <4>5. n = Len(WriteOrder(w))
          BY <4>1, <4>2, <4>4, PositionIs
        <4> QED
          BY <1>4, <4>5, MarkerIs
      <3>3. CASE pc[w] \in Holding /\ Marker = File(w)
        BY <1>4, <3>3 DEF File, Holding
      <3> QED
        BY <2>2, <3>1, <3>2, <3>3 DEF Tracks
    <2>3. ASSUME disk[Marker] # NoFile, disk[Marker].whole,
                 disk[Marker].by \notin unrecorded', NEW file \in disk[Marker].names
          PROVE  disk'[file] = disk[Marker]
      <3>1. disk[file] = disk[Marker] /\ disk[Marker].by \notin unrecorded
        BY <2>3 DEF MarkerInv, Whole, Exists
      <3>2. file # gone
        BY <1>2, <2>2, <2>3, <3>1
      <3>3. file \in Files
        BY <1>1, <2>3, Types DEF Contents
      <3> QED
        BY <3>1, <3>2, <3>3, Types
    <2> QED
      BY <1>1, <2>1, <2>3 DEF MarkerInv, Whole, Exists
  <1> QED
    BY <1>3, <1>4

LEMMA MarkerKept ==
  ASSUME TypeOK, NEW w \in Writers, WriterInv(w), MarkerInv, Step(w)
  PROVE  MarkerInv'
  <1>0. kind' = kind /\ unrecorded \subseteq unrecorded' /\ Marker' = Marker
    <2>1. kind' = kind
      BY OwnFrame DEF Start
    <2> QED
      BY <2>1, HistoriesGrow DEF Marker
  <1>1. CASE disk' = disk
    BY <1>0, <1>1 DEF MarkerInv, Whole, Exists
  <1>2. CASE Open(w)
    <2>1. /\ disk[File(w)] = NoFile /\ pc[w] = "open"
          /\ disk' = [disk EXCEPT ![File(w)] = Content(w, FALSE)]
      BY <1>2 DEF Open, Put, Exists
    <2>2. Content(w, FALSE).whole = FALSE /\ File(w) \in Files
      BY <2>1, ContentIs, PositionIs, Types DEF Working, Places
    <2>3. CASE File(w) = Marker
      <3>1. disk'[Marker].whole = FALSE
        BY <2>1, <2>2, <2>3, Types
      <3> QED
        BY <1>0, <3>1 DEF MarkerInv, Whole
    <2>4. CASE File(w) # Marker
      <3>1. disk'[Marker] = disk[Marker] /\ Marker \in Files
        BY <2>1, <2>4, MarkerIs, Types
      <3>2. ASSUME disk[Marker] # NoFile, disk[Marker].whole,
                   disk[Marker].by \notin unrecorded', NEW file \in disk[Marker].names
            PROVE  disk'[file] = disk[Marker]
        <4>1. disk[file] = disk[Marker]
          BY <1>0, <3>2 DEF MarkerInv, Whole, Exists
        <4>2. file # File(w) /\ file \in Files
          BY <2>1, <3>1, <3>2, <4>1, Types DEF Contents
        <4> QED
          BY <2>1, <4>1, <4>2, Types
      <3> QED
        BY <1>0, <3>1, <3>2 DEF MarkerInv, Whole, Exists
    <2> QED
      BY <2>3, <2>4
  <1>3. CASE Fill(w) \/ FillOrDiscard(w)
    <2>1. PICK whole \in BOOLEAN :
            pc[w] = "fill" /\ disk' = [disk EXCEPT ![File(w)] = Content(w, whole)]
      BY <1>3 DEF Fill, FillOrDiscard, Put
    <2> QED
      BY <1>0, <2>1, FillKeepsMarker
  <1>4. CASE Discard(w) /\ disk' # disk
    <2>1. /\ pc[w] = "discard" /\ disk' = [disk EXCEPT ![WriteOrder(w)[at[w]]] = NoFile]
          /\ at[w] \in 1..Len(WriteOrder(w))
      BY <1>4, PositionIs DEF Discard, Unlink, Put, File
    <2> QED
      BY <1>0, <2>1, RemovalKeepsMarker
  <1>5. CASE TakeBack(w) /\ disk' # disk
    <2>1. /\ pc[w] = "rollback" /\ written[w] # <<>>
          /\ disk' = [disk EXCEPT ![written[w][Len(written[w])]] = NoFile]
      BY <1>5 DEF TakeBack, Unlink, Put, Last
    <2>2. Len(written[w]) \in 1..Len(written[w])
      <3>1. written[w] \in Seq(Files) /\ written[w] # <<>>
        BY <2>1, Types
      <3> QED
        BY <3>1
    <2>3. /\ Len(written[w]) \in 1..Len(WriteOrder(w))
          /\ written[w][Len(written[w])] = WriteOrder(w)[Len(written[w])]
      BY <2>2, PositionIs
    <2> QED
      BY <1>0, <2>1, <2>3, RemovalKeepsMarker
  <1>6. \/ Open(w) \/ Fill(w) \/ FillOrDiscard(w) \/ Discard(w) \/ TakeBack(w)
        \/ disk' = disk
    BY DEF Step, Start, CheckAbsent, RefuseToOverwrite, OpenFails, Record, Return,
       Raise, Interrupt, Kill
  <1> QED
    BY <1>1, <1>2, <1>3, <1>4, <1>5, <1>6

-----------------------------------------------------------------------------
(* What was reported, and what a failure leaves.                           *)

LEMMA RetainedKept ==
  ASSUME TypeOK, NEW w \in Writers, WriterInv(w), RetainedStays, Step(w)
  PROVE  RetainedStays'
  <1>0. kind' = kind /\ Marker' = Marker /\ Marker \in Files
    <2>1. kind' = kind
      BY OwnFrame DEF Start
    <2> QED
      BY <2>1, MarkerIs DEF Marker
  <1>1. ASSUME NEW invocation \in returned, pc[w] = "idle" \/ invocation # Invocation(w)
        PROVE  /\ disk'[Marker] # NoFile /\ disk'[Marker].whole
               /\ disk'[Marker].by = invocation
               /\ \A file \in disk'[Marker].names : disk'[file] = disk'[Marker]
    <2>1. /\ disk[Marker] # NoFile /\ disk[Marker].whole /\ disk[Marker].by = invocation
          /\ \A file \in disk[Marker].names : disk[file] = disk[Marker]
      BY DEF RetainedStays, Whole, Exists
    <2>2. CASE disk' = disk
      BY <2>1, <2>2
    <2>3. ASSUME NEW touched \in Files, NEW content \in Contents \cup {NoFile},
                 Touches(w, touched, content)
          PROVE  /\ disk'[Marker] = disk[Marker]
                 /\ \A file \in disk[Marker].names : disk'[file] = disk[file]
      <3>1. disk[touched] = NoFile \/ disk[touched].by # invocation
        BY <1>1, <2>3 DEF Touches, Working
      <3>2. touched # Marker /\ touched \notin disk[Marker].names
        BY <2>1, <3>1
      <3>3. disk[Marker].names \subseteq Files
        BY <1>0, <2>1, Types DEF Contents
      <3> QED
        BY <1>0, <2>3, <3>2, <3>3, Types DEF Touches
    <2>4. disk' = disk \/ /\ disk'[Marker] = disk[Marker]
                          /\ \A file \in disk[Marker].names : disk'[file] = disk[file]
      BY <2>3, StepTouches
    <2> QED
      BY <2>1, <2>2, <2>4
  <1>2. pc[w] # "idle" => Invocation(w) \notin returned
    BY DEF WriterInv, Numbered
  <1>3. CASE Return(w)
    <2>1. /\ pc[w] = "written" /\ disk' = disk
          /\ returned' = returned \cup {Invocation(w)}
      BY <1>3 DEF Return
    <2>2. /\ Len(written[w]) = Len(WriteOrder(w)) /\ starts[w] >= 1
          /\ \A i \in 1..Len(WriteOrder(w)) : disk[WriteOrder(w)[i]] = Content(w, TRUE)
      BY <2>1, PositionIs DEF WriterInv, WrittenFits, Working, Places
    <2>3. disk[Marker] = Content(w, TRUE)
      BY <2>2, MarkerIs
    <2>4. /\ Content(w, TRUE) # NoFile /\ Content(w, TRUE).whole
          /\ Content(w, TRUE).by = Invocation(w)
          /\ Content(w, TRUE).names = {WriteOrder(w)[i] : i \in 1..Len(WriteOrder(w))}
      BY <2>2, ContentIs
    <2>5. \A file \in Content(w, TRUE).names : disk[file] = Content(w, TRUE)
      BY <2>2, <2>4
    <2>6. ASSUME NEW invocation \in returned'
          PROVE  /\ disk'[Marker] # NoFile /\ disk'[Marker].whole
                 /\ disk'[Marker].by = invocation
                 /\ \A file \in disk'[Marker].names : disk'[file] = disk'[Marker]
      <3>1. CASE invocation \in returned
        BY <1>1, <1>2, <3>1
      <3>2. CASE invocation = Invocation(w)
        BY <2>1, <2>3, <2>4, <2>5, <3>2
      <3> QED
        BY <2>1, <3>1, <3>2
    <2> QED
      BY <1>0, <2>6 DEF RetainedStays, Whole, Exists
  <1>4. CASE ~Return(w)
    <2>1. returned' = returned
      BY <1>4 DEF Step, Start, CheckAbsent, RefuseToOverwrite, Open, OpenFails, Fill,
         FillOrDiscard, Discard, Record, TakeBack, Raise, Interrupt, Kill, history
    <2>2. \A invocation \in returned' :
            /\ disk'[Marker] # NoFile /\ disk'[Marker].whole
            /\ disk'[Marker].by = invocation
            /\ \A file \in disk'[Marker].names : disk'[file] = disk'[Marker]
      BY <1>1, <1>2, <2>1
    <2> QED
      BY <1>0, <2>2 DEF RetainedStays, Whole, Exists
  <1> QED
    BY <1>3, <1>4

(* Where an invocation ends, it has returned, or lost track of a file, or  *)
(* was cut short, or has no file.                                          *)
LEMMA EndIs ==
  ASSUME TypeOK, NEW w \in Writers, WriterInv(w), Step(w), ~Start(w), pc'[w] = "idle",
         NEW file \in Files, disk'[file] # NoFile, disk'[file].by = Invocation(w)
  PROVE  Invocation(w) \in returned' \cup unrecorded' \cup cut'
  <1>1. CASE Return(w) \/ Kill(w)
    BY <1>1 DEF Return, Kill
  <1>2. CASE Discard(w) \/ OpenFails(w)
    BY <1>2, Types DEF Discard, OpenFails, Unwind, Go
  <1>3. CASE RefuseToOverwrite(w) \/ Raise(w) \/ (Interrupt(w) /\ pc[w] = "check")
    <2>1. /\ disk' = disk /\ unrecorded' = unrecorded
          /\ \/ pc[w] = "check"
             \/ pc[w] = "rollback" /\ written[w] = <<>>
      BY <1>3 DEF RefuseToOverwrite, Raise, Interrupt, history
    <2>2. Len(written[w]) = 0
      BY <2>1 DEF WriterInv, WrittenFits
    <2>3. Tracks(w, file)
      BY <2>1 DEF WriterInv, FilesTracked, Exists
    <2> QED
      BY <2>1, <2>2, <2>3 DEF Tracks, Holding
  <1>4. CASE Interrupt(w) /\ pc[w] # "check"
    BY <1>4, Types DEF Interrupt, Unwind, Go
  <1>5. \/ Return(w) \/ Kill(w) \/ Discard(w) \/ OpenFails(w) \/ RefuseToOverwrite(w)
        \/ Raise(w) \/ Interrupt(w)
    <2>1. ~(CheckAbsent(w) \/ Open(w) \/ Fill(w) \/ FillOrDiscard(w) \/ Record(w)
              \/ TakeBack(w))
      BY Types DEF CheckAbsent, Open, Fill, FillOrDiscard, Record, TakeBack, Go
    <2> QED
      BY <2>1 DEF Step
  <1> QED
    BY <1>1, <1>2, <1>3, <1>4, <1>5

LEMMA LeavingsKept ==
  ASSUME TypeOK, NEW w \in Writers, WriterInv(w), FailureLeavesNothing, Step(w)
  PROVE  FailureLeavesNothing'
  <1> SUFFICES ASSUME NEW file \in Files, disk'[file] # NoFile
               PROVE  \/ disk'[file].by \in returned' \cup unrecorded' \cup cut'
                      \/ \E v \in Writers : disk'[file].by = Invocation(v)' /\ pc'[v] # "idle"
    BY DEF FailureLeavesNothing, Exists
  <1>1. /\ returned \subseteq returned' /\ unrecorded \subseteq unrecorded'
        /\ cut \subseteq cut'
    BY HistoriesGrow
  <1>2. CASE disk'[file].by = Invocation(w) /\ ~Start(w)
    <2>1. Invocation(w)' = Invocation(w)
      BY <1>2, OwnFrame
    <2> QED
      BY <1>2, <2>1, EndIs
  <1>3. CASE disk'[file].by # Invocation(w) \/ Start(w)
    <2>1. disk'[file] = disk[file]
      <3>1. CASE Start(w)
        BY <3>1 DEF Start
      <3>2. ASSUME disk'[file].by # Invocation(w),
                   NEW touched \in Files, NEW content \in Contents \cup {NoFile},
                   Touches(w, touched, content)
            PROVE  disk'[file] = disk[file]
        BY <3>2, Types DEF Touches
      <3> QED
        BY <1>3, <3>1, <3>2, StepTouches
    <2>2. ASSUME NEW v \in Writers, disk[file].by = Invocation(v), pc[v] # "idle"
          PROVE  disk'[file].by = Invocation(v)' /\ pc'[v] # "idle"
      <3>1. v # w
        BY <1>3, <2>1, <2>2 DEF Start
      <3> QED
        BY <2>1, <2>2, <3>1, OthersStay
    <2>3. \/ disk[file].by \in returned \cup unrecorded \cup cut
          \/ \E v \in Writers : disk[file].by = Invocation(v) /\ pc[v] # "idle"
      BY <2>1 DEF FailureLeavesNothing, Exists
    <2> QED
      BY <1>1, <2>1, <2>2, <2>3
  <1> QED
    BY <1>2, <1>3

-----------------------------------------------------------------------------
(* The invariant.                                                          *)

LEMMA InitInvariant == Init => IInv
  <1> SUFFICES ASSUME Init PROVE IInv
    OBVIOUS
  <1>1. TypeOK
    BY InitType
  <1>2. ASSUME NEW w \in Writers PROVE WriterInv(w)
    <2>1. /\ pc[w] = "idle" /\ written[w] = <<>> /\ Len(written[w]) = 0
          /\ returned = {} /\ \A file \in Files : disk[file] = NoFile
      BY DEF Init
    <2>2. Len(WriteOrder(w)) \in Nat
      BY OrderIs
    <2> QED
      BY <2>1, <2>2 DEF WriterInv, WrittenFits, FilesFit, FilesTracked, Numbered,
         Working, Holding, Exists
  <1>3. MarkerInv
    <2>1. Marker \in Files
      BY DEF Marker, Files
    <2> QED
      BY <2>1 DEF Init, MarkerInv, Whole, Exists
  <1>4. RetainedStays
    BY DEF Init, RetainedStays
  <1>5. FailureLeavesNothing
    BY DEF Init, FailureLeavesNothing, Exists
  <1> QED
    BY <1>1, <1>2, <1>3, <1>4, <1>5 DEF IInv

LEMMA NextInvariant == IInv /\ [Next]_vars => IInv'
  <1> SUFFICES ASSUME IInv, [Next]_vars PROVE IInv'
    OBVIOUS
  <1>1. ASSUME NEW w \in Writers, Step(w) PROVE IInv'
    <2>1. TypeOK /\ (\A v \in Writers : WriterInv(v)) /\ MarkerInv /\ RetainedStays
            /\ FailureLeavesNothing
      BY DEF IInv
    <2>2. TypeOK'
      BY <1>1, <2>1, StartType, StepType
    <2>3. \A v \in Writers : WriterInv(v)'
      BY <1>1, <2>1, WritersKept
    <2>4. MarkerInv' /\ RetainedStays' /\ FailureLeavesNothing'
      BY <1>1, <2>1, MarkerKept, RetainedKept, LeavingsKept
    <2> QED
      BY <2>2, <2>3, <2>4 DEF IInv
  <1>2. CASE UNCHANGED vars
    <2>1. /\ UNCHANGED <<disk, kind, pc, journal, at, written, raised, starts>>
          /\ UNCHANGED <<returned, unrecorded, cut>>
      BY <1>2 DEF vars, locals, history
    <2>2. Marker' = Marker
      BY <2>1 DEF Marker
    <2>3. \A w \in Writers : /\ WriteOrder(w)' = WriteOrder(w)
                             /\ Invocation(w)' = Invocation(w) /\ File(w)' = File(w)
                             /\ \A whole \in BOOLEAN : Content(w, whole)' = Content(w, whole)
      BY <2>1 DEF WriteOrder, BundlePaths, Invocation, File, Content
    <2>4. TypeOK'
      BY <2>1, <2>3 DEF IInv, TypeOK
    <2>5. ASSUME NEW w \in Writers PROVE WriterInv(w)'
      <3>1. WriterInv(w)
        BY DEF IInv
      <3>2. WrittenFits(w)' /\ Numbered(w)'
        BY <2>1, <2>3, <3>1 DEF WriterInv, WrittenFits, Numbered, Exists
      <3>3. FilesFit(w)' /\ FilesTracked(w)'
        BY <2>1, <2>3, <3>1 DEF WriterInv, FilesFit, FilesTracked, Tracks, Exists
      <3> QED
        BY <3>2, <3>3 DEF WriterInv
    <2>6. MarkerInv' /\ RetainedStays'
      BY <2>1, <2>2 DEF IInv, MarkerInv, RetainedStays, Whole, Exists
    <2>7. FailureLeavesNothing'
      BY <2>1, <2>3 DEF IInv, FailureLeavesNothing, Exists
    <2> QED
      BY <2>4, <2>5, <2>6, <2>7 DEF IInv
  <1> QED
    BY <1>1, <1>2 DEF Next, Step

LEMMA InductiveInvariant == Spec => []IInv
  BY InitInvariant, NextInvariant, PTL DEF Spec

(* Every variable keeps its type: the loops stay within the order of the   *)
(* writes, and a file is one of one invocation or none.                    *)
THEOREM TypeCorrect == Spec => []TypeOK
  <1>1. IInv => TypeOK
    BY DEF IInv
  <1> QED
    BY <1>1, InductiveInvariant, PTL

(* The file that vouches for the others, written last and taken back       *)
(* first, is never seen without them or beside those of another            *)
(* invocation, unless its writer lost track of a file of its own.          *)
THEOREM EvidenceIsTrueProved == Spec => []EvidenceIsTrue
  <1>1. IInv => EvidenceIsTrue
    BY DEF IInv, MarkerInv, EvidenceIsTrue
  <1> QED
    BY <1>1, InductiveInvariant, PTL

(* What an invocation of the bundle writers reported as retained stays,    *)
(* whatever other invocations write, refuse and take back.                 *)
THEOREM RetainedStaysProved == Spec => []RetainedStays
  <1>1. IInv => RetainedStays
    BY DEF IInv
  <1> QED
    BY <1>1, InductiveInvariant, PTL

(* The rollback of a failed invocation leaves no file of it, unless an     *)
(* interrupt or a failed unlink kept it from one.                          *)
THEOREM FailureLeavesNothingProved == Spec => []FailureLeavesNothing
  <1>1. IInv => FailureLeavesNothing
    BY DEF IInv
  <1> QED
    BY <1>1, InductiveInvariant, PTL

=============================================================================
