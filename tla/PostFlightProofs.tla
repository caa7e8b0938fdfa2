--------------------------- MODULE PostFlightProofs ---------------------------
(***************************************************************************)
(* Proofs about PostFlight: what the files and the memory hold of the      *)
(* sessions, and what the tab may say of the last one.                     *)
(***************************************************************************)
EXTENDS PostFlight, WellFoundedInduction, TLAPS

\* A report is told from none by its members.
LEMMA ReportIsSome == \A r \in Report : r # NoReport
<1> SUFFICES ASSUME NEW r \in Report PROVE r # NoReport
  OBVIOUS
<1>1. "key" \in DOMAIN r
  BY DEF Report
<1>2. "key" \notin DOMAIN NoReport
  BY DEF NoReport
<1> QED  BY <1>1, <1>2

\* Likewise a file.
LEMMA FileIsSome == \A f \in File : f # NoFile
<1> SUFFICES ASSUME NEW f \in File PROVE f # NoFile
  OBVIOUS
<1>1. "report" \in DOMAIN f
  BY DEF File
<1>2. "report" \notin DOMAIN NoFile
  BY DEF NoFile
<1> QED  BY <1>1, <1>2

\* date_hhmm_utc() takes the seconds from a time.
LEMMA MinuteIsNat ==
  ASSUME NEW e \in Nat
  PROVE  Minute(e) \in Nat /\ e < (Minute(e) + 1) * SecondsPerMinute
BY PostFlightAssumption, SMTT(30) DEF Minute

\* The least of some numbers; if they are bounded they have a greatest, too.
LEMMA LeastOf ==
  ASSUME NEW S \in SUBSET Nat, S # {}
  PROVE  \E x \in S : \A y \in S : x <= y
<1> DEFINE R == OpToRel(<, Nat)
<1>1. IsWellFoundedOn(R, Nat)
  BY NatLessThanWellFounded
<1>2. PICK x \in S : \A y \in S : ~(<<y, x>> \in R)
  <2> HIDE DEF R
  <2> QED  BY <1>1, WFMin
<1>3. \A y \in S : ~(y < x)
  BY <1>2 DEF OpToRel
<1> QED  BY <1>3

\* The greatest.
LEMMA GreatestOf ==
  ASSUME NEW n \in Nat, NEW S \in SUBSET (0 .. n), S # {}
  PROVE  \E x \in S : \A y \in S : y <= x
<1> DEFINE T == {n - k : k \in S}
<1>1. \A k \in S : n - k \in Nat /\ k \in Nat
  OBVIOUS
<1>2. T \subseteq Nat /\ T # {}
  BY <1>1
<1>3. PICK x \in T : \A y \in T : x <= y
  BY <1>2, LeastOf
<1>4. PICK k \in S : x = n - k
  OBVIOUS
<1>5. ASSUME NEW j \in S PROVE j <= k
  <2>1. n - k <= n - j
    BY <1>3, <1>4
  <2> QED  BY <1>1, <2>1
<1> QED  BY <1>5

-----------------------------------------------------------------------------
(* The invariants.                                                         *)

Memory == [Key -> Report \cup {NoReport}]
Disk == [FileNames -> File \cup {NoFile}]

\* A report lies under its key in memory, and in the file named after it: save()
\* replaces a file by a report of the same minute and route only.
Named(s) == \A k \in Key : s[k] # NoReport => s[k].key = k
Filed(d) == \A f \in FileNames : d[f] # NoFile => FileName(d[f].report) = f

KeptInv == TypeOK /\ Named(store) /\ Filed(disk)

\* The evaluation under way is that of g_key, and what is said to be done was done
\* by this release.
SessionInv ==
  /\ OneEvaluation
  /\ \A c \in calls : c.key = lastKey
  /\ ~running => status = "Idle"
  /\ status = "Done" => /\ lastKey \in Key /\ store[lastKey] # NoReport
                        /\ store[lastKey].prompt = build.prompt

-----------------------------------------------------------------------------
(* The report cache.                                                       *)

\* Each report has a name of a file.
LEMMA NameOfReport ==
  ASSUME NEW r \in Report
  PROVE  FileName(r) \in FileNames
BY DEF Report, Key, FileName, FileNames

\* Of the sessions with one file name there is a last and a first.
LEMMA OneStays ==
  ASSUME NEW s \in Memory, Named(s), NEW f \in FileNames, NEW written \in SUBSET Key,
         written # {}, \A k \in written : s[k] # NoReport /\ FileName(s[k]) = f
  PROVE  \E k \in written : \A j \in written :
           IF RenameReplaces THEN j.epoch <= k.epoch ELSE k.epoch <= j.epoch
<1> DEFINE times == {k.epoch : k \in written}
<1>1. /\ \A k \in written : k.epoch \in Nat /\ Minute(k.epoch) = f.minute
      /\ times \in SUBSET Nat /\ times # {}
  <2>1. ASSUME NEW k \in written PROVE k.epoch \in Nat /\ Minute(k.epoch) = f.minute
    <3>1. k.epoch \in Nat
      BY PostFlightAssumption DEF Key
    <3>2. s[k].key = k /\ FileName(s[k]) = f
      BY DEF Named
    <3>3. FileName(s[k]).minute = Minute(s[k].key.epoch)
      BY DEF FileName
    <3> QED  BY <3>1, <3>2, <3>3
  <2> QED  BY <2>1
<1>2. CASE RenameReplaces
  <2> DEFINE last == (f.minute + 1) * SecondsPerMinute
  <2>1. last \in Nat /\ \A k \in written : k.epoch <= last
    <3>1. PICK k \in written : TRUE
      OBVIOUS
    <3>2. f.minute \in Nat
      BY <1>1, MinuteIsNat
    <3>3. last \in Nat
      BY <3>2, PostFlightAssumption
    <3> QED  BY <1>1, <3>2, <3>3, MinuteIsNat
  <2> HIDE DEF last
  <2>2. times \in SUBSET (0 .. last)
    BY <1>1, <2>1
  <2>3. PICK x \in times : \A y \in times : y <= x
    BY <1>1, <2>1, <2>2, GreatestOf
  <2> QED  BY <1>2, <2>3
<1>3. CASE ~RenameReplaces
  <2>1. PICK x \in times : \A y \in times : x <= y
    BY <1>1, LeastOf
  <2> QED  BY <1>3, <2>1
<1> QED  BY <1>2, <1>3

\* After a save a file is what it was or holds a report that is in memory and named
\* after it; where files are replaced and all are written it is the latter for
\* each report.
LEMMA SavedFiles ==
  ASSUME TypeOK, Filed(disk), NEW s \in Memory, Named(s), NEW W \in SUBSET Key
  PROVE  /\ Saved(s, W) \in Disk
         /\ \A f \in FileNames :
              \/ Saved(s, W)[f] = disk[f]
              \/ \E k \in Key : /\ s[k] # NoReport /\ FileName(s[k]) = f
                                /\ Saved(s, W)[f] = [report |-> s[k], layout |-> build.layout]
         /\ RenameReplaces /\ W = Key =>
              \A k \in Key : s[k] # NoReport =>
                \E j \in Key : /\ s[j] # NoReport
                               /\ Saved(s, W)[FileName(s[k])]
                                    = [report |-> s[j], layout |-> build.layout]
<1> DEFINE named(f) == {k \in Key : s[k] # NoReport /\ FileName(s[k]) = f}
           written(f) == IF RenameReplaces \/ disk[f] = NoFile THEN named(f) \cap W ELSE {}
           stays(f, k) == \A j \in written(f) : IF RenameReplaces THEN j.epoch <= k.epoch
                                                ELSE k.epoch <= j.epoch
           kept(f) == CHOOSE k \in written(f) : stays(f, k)
<1>1. \A f \in FileNames :
        Saved(s, W)[f] = IF named(f) = {} THEN disk[f]
                         ELSE IF written(f) = {} THEN disk[f]
                         ELSE [report |-> s[kept(f)], layout |-> build.layout]
  BY DEF Saved, Unwritten
<1>2. ASSUME NEW f \in FileNames, written(f) # {}
      PROVE  /\ kept(f) \in Key /\ s[kept(f)] # NoReport /\ FileName(s[kept(f)]) = f
             /\ s[kept(f)] \in Report
             /\ Saved(s, W)[f] = [report |-> s[kept(f)], layout |-> build.layout]
  <2>1. written(f) \in SUBSET Key
    OBVIOUS
  <2>2. \A k \in written(f) : s[k] # NoReport /\ FileName(s[k]) = f
    OBVIOUS
  <2>3. \E k \in written(f) : stays(f, k)
    <3> HIDE DEF written
    <3> QED  BY <1>2, <2>1, <2>2, OneStays
  <2>4. kept(f) \in written(f)
    BY <2>3
  <2>5. named(f) # {}
    BY <1>2
  <2>6. s[kept(f)] # NoReport /\ FileName(s[kept(f)]) = f /\ kept(f) \in Key
    BY <2>1, <2>2, <2>4
  <2>7. s[kept(f)] \in Report
    BY <2>6 DEF Memory
  <2> QED  BY <1>1, <1>2, <2>5, <2>6, <2>7
<1>3. ASSUME NEW f \in FileNames, written(f) = {}
      PROVE  Saved(s, W)[f] = disk[f]
  BY <1>1, <1>3
<1>4. ASSUME NEW f \in FileNames PROVE Saved(s, W)[f] \in File \cup {NoFile}
  <2>1. CASE written(f) = {}
    BY <1>3, <2>1 DEF TypeOK
  <2>2. CASE written(f) # {}
    <3>1. build.layout \in Nat
      BY PostFlightAssumption DEF TypeOK
    <3>2. PICK r \in Report : Saved(s, W)[f] = [report |-> r, layout |-> build.layout]
      BY <1>2, <2>2
    <3> QED  BY <3>1, <3>2 DEF File
  <2> QED  BY <2>1, <2>2
<1>5. Saved(s, W) \in Disk
  <2>1. DOMAIN Saved(s, W) = FileNames /\ Saved(s, W) = [f \in FileNames |-> Saved(s, W)[f]]
    BY DEF Saved
  <2> QED  BY <1>4, <2>1 DEF Disk
<1>6. ASSUME NEW f \in FileNames
      PROVE  \/ Saved(s, W)[f] = disk[f]
             \/ \E k \in Key : /\ s[k] # NoReport /\ FileName(s[k]) = f
                               /\ Saved(s, W)[f] = [report |-> s[k], layout |-> build.layout]
  BY <1>2, <1>3
<1>7. ASSUME RenameReplaces, W = Key, NEW k \in Key, s[k] # NoReport
      PROVE  \E j \in Key : /\ s[j] # NoReport
                            /\ Saved(s, W)[FileName(s[k])]
                                 = [report |-> s[j], layout |-> build.layout]
  <2>1. FileName(s[k]) \in FileNames
    BY <1>7, NameOfReport DEF Memory
  <2>2. k \in written(FileName(s[k]))
    BY <1>7
  <2> QED  BY <1>2, <2>1, <2>2
<1> QED  BY <1>5, <1>6, <1>7
-----------------------------------------------------------------------------
(* Reports are kept under their names.                                     *)

\* Nothing is kept before the first start.
LEMMA KeptInit == Init => KeptInv
<1> SUFFICES ASSUME Init PROVE KeptInv
  OBVIOUS
<1>1. TypeOK
  BY DEF Init, TypeOK, Status
<1>2. Named(store) /\ Filed(disk)
  BY DEF Init, Named, Filed
<1> QED  BY <1>1, <1>2 DEF KeptInv

\* A callback puts its report under its key and saves all of them.
LEMMA CallbackKeeps ==
  ASSUME KeptInv, NEW c \in calls, Callback(c)
  PROVE  KeptInv'
<1>1. c \in Call /\ c.key \in Key /\ c.arr \in Airports \cup {NoAirport}
  BY DEF KeptInv, TypeOK, Call
<1>2. CASE Fails
  BY <1>2 DEF Callback, Fails, KeptInv, TypeOK, Named, Filed, Status
<1>3. CASE Succeeds(c)
  <2> DEFINE report == [key |-> c.key, arr |-> c.arr, prompt |-> build.prompt]
  <2>1. report \in Report
    <3>1. build.prompt \in Nat
      BY PostFlightAssumption DEF KeptInv, TypeOK
    <3> QED  BY <1>1, <3>1 DEF Report
  <2>2. store' = [store EXCEPT ![c.key] = report] /\ report.key = c.key
    BY <1>3 DEF Succeeds
  <2> HIDE DEF report
  <2>3. store' \in Memory /\ Named(store')
    BY <1>1, <2>1, <2>2 DEF KeptInv, TypeOK, Memory, Named
  <2>4. PICK W \in SUBSET Key : disk' = Saved(store', W) /\ failed' = (failed \/ W # Key)
    BY <1>3 DEF Succeeds
  <2>5. disk' \in Disk
    BY <2>3, <2>4, SavedFiles DEF KeptInv
  <2>6. \A f \in FileNames : disk'[f] # NoFile => FileName(disk'[f].report) = f
    <3>1. ASSUME NEW f \in FileNames
          PROVE  \/ disk'[f] = disk[f]
                 \/ \E k \in Key : /\ FileName(store'[k]) = f
                                   /\ disk'[f] = [report |-> store'[k], layout |-> build.layout]
      BY <2>3, <2>4, SavedFiles DEF KeptInv
    <3>2. ASSUME NEW f \in FileNames, NEW r, FileName(r) = f,
                 disk'[f] = [report |-> r, layout |-> build.layout]
          PROVE  FileName(disk'[f].report) = f
      BY <3>2
    <3>3. ASSUME NEW f \in FileNames, disk'[f] # NoFile
          PROVE  FileName(disk'[f].report) = f
      <4>1. CASE disk'[f] = disk[f]
        BY <3>3, <4>1 DEF KeptInv, Filed
      <4>2. CASE disk'[f] # disk[f]
        BY <3>1, <3>2, <4>2
      <4> QED  BY <4>1, <4>2
    <3> QED  BY <3>3
  <2>7. /\ status' \in Status /\ lastKey' = lastKey /\ calls' \subseteq Call
        /\ build' = build /\ running' = running /\ failed' \in BOOLEAN
    BY <1>3, <2>4 DEF Callback, Succeeds, KeptInv, TypeOK, Status
  <2>8. TypeOK'
    BY <2>3, <2>5, <2>7 DEF KeptInv, TypeOK, Memory, Disk
  <2> QED  BY <2>3, <2>6, <2>8 DEF KeptInv, Named, Filed
<1> QED  BY <1>2, <1>3 DEF Callback

\* A start reads some of the files.
LEMMA StartReads ==
  ASSUME PluginStarts
  PROVE  \E readable \in SUBSET FileNames : StartsReading(readable)
<1>1. (IF ReadsMayFail THEN SUBSET FileNames ELSE {FileNames}) \subseteq SUBSET FileNames
  OBVIOUS
<1> QED  BY <1>1 DEF PluginStarts

\* Each step keeps what lies where.
LEMMA KeptStep == KeptInv /\ [Next]_vars => KeptInv'
<1> SUFFICES ASSUME KeptInv, [Next]_vars PROVE KeptInv'
  OBVIOUS
<1>1. ASSUME NEW atc \in AtcLog, NEW flight \in FlightLog, Evaluate(atc, flight)
      PROVE  KeptInv'
  <2>1. lastKey' \in Key
    BY <1>1 DEF Evaluate, EvaluateAsync, AtcLog, Key
  <2>2. calls' \subseteq Call /\ status' \in Status
    <3>1. flight.arr \in Airports \cup {NoAirport}
      BY DEF FlightLog
    <3> QED  BY <1>1, <2>1, <3>1
             DEF Evaluate, EvaluateAsync, KeptInv, TypeOK, Call, Status
  <2> QED  BY <1>1, <2>1, <2>2 DEF Evaluate, KeptInv, TypeOK, Named, Filed
<1>2. ASSUME NEW c \in calls, Callback(c) PROVE KeptInv'
  BY <1>2, CallbackKeeps
<1>3. CASE PluginStops
  BY <1>3 DEF PluginStops, KeptInv, TypeOK, Named, Filed, Status
<1>4. CASE PluginStarts
  <2>1. store' \in Memory /\ Named(store')
    <3> PICK readable \in SUBSET FileNames : StartsReading(readable)
      BY <1>4, StartReads
    <3> DEFINE of(k) == {f \in readable : /\ disk[f] # NoFile
                                          /\ disk[f].layout = build'.layout
                                          /\ disk[f].report.key = k}
               found == {k \in Key : of(k) # {}}
    <3>1. PICK first \in [found -> FileNames] :
            /\ \A k \in found : first[k] \in of(k)
            /\ store' = [k \in Key |-> IF k \in found THEN disk[first[k]].report
                                                       ELSE NoReport]
      BY DEF StartsReading, Loads
    <3>2. \A k \in found : /\ disk[first[k]].report \in Report
                           /\ disk[first[k]].report.key = k
      BY <3>1 DEF KeptInv, TypeOK, File
    <3> HIDE DEF found
    <3> QED  BY <3>1, <3>2 DEF Memory, Named
  <2> QED  BY <1>4, <2>1 DEF PluginStarts, StartsReading, KeptInv, TypeOK, Memory, Named, Filed
<1>5. CASE UNCHANGED vars
  BY <1>5 DEF vars, KeptInv, TypeOK, Named, Filed
<1> QED  BY <1>1, <1>2, <1>3, <1>4, <1>5 DEF Next

\* What status, calls, memory and files may be (g_status, g_key, g_reports and the
\* directory of reports).
THEOREM KeptInvariance == Spec => []KeptInv
BY KeptInit, KeptStep, PTL DEF Spec

\* Every report, file, call and status is what the code can hold, whatever the
\* releases, failures and crashes before.
THEOREM TypeCorrect == Spec => []TypeOK
<1>1. KeptInv => TypeOK
  BY DEF KeptInv
<1> QED  BY <1>1, KeptInvariance, PTL
\* A session that has a report file loses it to a session of the same minute and
\* departure only, whose report is in memory (save() names files so; a failed write
\* leaves the target alone).
THEOREM LostToNamesake == Spec => LostOnlyByClash
<1>1. ASSUME KeptInv, KeptInv', [Next]_vars, NEW k \in Key, OnDisk(k), ~OnDisk(k)'
      PROVE  \E j \in Key \ {k} : /\ j.dep = k.dep
                                  /\ Minute(j.epoch) = Minute(k.epoch)
                                  /\ store'[j] # NoReport
  <2>1. PICK f \in FileNames : disk[f] # NoFile /\ disk[f].report.key = k
    BY <1>1 DEF OnDisk
  <2>2. disk'[f] = NoFile \/ disk'[f].report.key # k
    BY <1>1 DEF OnDisk
  <2>3. disk'[f] # disk[f]
    BY <2>1, <2>2
  <2>4. \E c \in calls : Callback(c) /\ Succeeds(c)
    BY <1>1, <2>3
       DEF Next, Evaluate, PluginStops, PluginStarts, StartsReading, vars, Callback, Fails
  <2>5. PICK W \in SUBSET Key : disk' = Saved(store', W)
    BY <2>4 DEF Succeeds
  <2>6. /\ TypeOK /\ Filed(disk) /\ store' \in Memory /\ Named(store')
    BY <1>1 DEF KeptInv, TypeOK, Memory, Named
  <2>7. PICK j \in Key : /\ store'[j] # NoReport /\ FileName(store'[j]) = f
                         /\ disk'[f] = [report |-> store'[j], layout |-> build.layout]
    BY <2>3, <2>5, <2>6, SavedFiles
  <2>8. store'[j].key = j /\ disk'[f] # NoFile
    <3>1. store'[j] \in Report /\ build.layout \in Nat
      BY <2>6, <2>7, PostFlightAssumption DEF Memory, TypeOK
    <3>2. disk'[f] \in File
      BY <2>7, <3>1 DEF File
    <3> QED  BY <2>6, <2>7, <3>2, FileIsSome DEF Named
  <2>9. j # k
    BY <2>2, <2>7, <2>8
  <2>10. FileName(disk[f].report) = f /\ FileName(store'[j]) = f
    BY <2>1, <2>6, <2>7 DEF Filed
  <2>11. /\ f.dep = k.dep /\ f.minute = Minute(k.epoch)
         /\ f.dep = j.dep /\ f.minute = Minute(j.epoch)
    BY <2>1, <2>8, <2>10 DEF FileName
  <2> QED  BY <2>7, <2>9, <2>11
<1>2. KeptInv /\ KeptInv' /\ [Next]_vars =>
        [\A k \in Key : OnDisk(k) /\ ~OnDisk(k)' =>
           \E j \in Key \ {k} : /\ j.dep = k.dep
                                /\ Minute(j.epoch) = Minute(k.epoch)
                                /\ store'[j] # NoReport]_vars
  BY <1>1
<1> QED  BY <1>2, KeptInvariance, PTL DEF Spec, LostOnlyByClash

-----------------------------------------------------------------------------
(* The reports in memory are those in the files.                           *)

\* Inductive, over stops as well: what MemoryOnDisk says, and the layout of the files.
OnFile(k) ==
  LET file == disk[FileName(store[k])]
  IN /\ file # NoFile /\ file.layout = build.layout
     /\ file.report.key \in Key /\ store[file.report.key] = file.report

FileInv == ~failed => \A k \in Key : store[k] # NoReport => OnFile(k)

\* A callback with no failed write has every report filed.
LEMMA CallbackFiles ==
  ASSUME RenameReplaces, KeptInv, KeptInv', FileInv, NEW c \in calls, Callback(c)
  PROVE  FileInv'
<1>1. CASE Fails
  BY <1>1 DEF Callback, Fails, FileInv, OnFile
<1>2. CASE Succeeds(c)
  <2> SUFFICES ASSUME ~failed', NEW k \in Key, store'[k] # NoReport
               PROVE  OnFile(k)'
    BY DEF FileInv
  <2> DEFINE file == disk'[FileName(store'[k])]
  <2>1. disk' = Saved(store', Key) /\ build' = build
    BY <1>2 DEF Succeeds, Callback
  <2>2. TypeOK /\ Filed(disk) /\ store' \in Memory /\ Named(store')
    BY DEF KeptInv, TypeOK, Memory, Named
  <2>3. PICK j \in Key : /\ store'[j] # NoReport
                         /\ file = [report |-> store'[j], layout |-> build.layout]
    BY <2>1, <2>2, SavedFiles
  <2>4. store'[j] \in Report /\ build.layout \in Nat
    BY <2>2, <2>3, PostFlightAssumption DEF Memory, TypeOK
  <2>5. file \in File /\ file.report = store'[j] /\ file.layout = build.layout
    BY <2>3, <2>4 DEF File
  <2>6. store'[j].key = j
    BY <2>2, <2>3 DEF Named
  <2> QED  BY <2>1, <2>5, <2>6, FileIsSome DEF OnFile
<1> QED  BY <1>1, <1>2 DEF Callback

\* A start has the reports from the files named after them.
LEMMA StartFiles ==
  ASSUME KeptInv, NEW readable \in SUBSET FileNames, StartsReading(readable)
  PROVE  FileInv'
<1> SUFFICES ASSUME NEW k \in Key, store'[k] # NoReport
             PROVE  OnFile(k)'
  BY DEF FileInv
<1>1. PICK f \in FileNames : /\ disk[f] # NoFile /\ disk[f].report.key = k
                             /\ disk[f].layout = build'.layout
                             /\ store'[k] = disk[f].report
  BY DEF StartsReading, Loads
<1>2. FileName(store'[k]) = f /\ disk' = disk
  BY <1>1 DEF StartsReading, KeptInv, Filed
<1> QED  BY <1>1, <1>2 DEF OnFile

\* Where std::rename() replaces its target, every report in memory is in its file or
\* gave way to another one in memory, until a write fails.
LEMMA FileInvariance == RenameReplaces => (Spec => []FileInv)
<1> SUFFICES ASSUME RenameReplaces PROVE Spec => []FileInv
  OBVIOUS
<1>1. Init => FileInv
  BY DEF Init, FileInv
<1>2. ASSUME KeptInv, KeptInv', FileInv, [Next]_vars PROVE FileInv'
  <2>1. ASSUME NEW atc \in AtcLog, NEW flight \in FlightLog, Evaluate(atc, flight)
        PROVE  FileInv'
    BY <1>2, <2>1 DEF Evaluate, FileInv, OnFile
  <2>2. ASSUME NEW c \in calls, Callback(c) PROVE FileInv'
    BY <1>2, <2>2, CallbackFiles
  <2>3. CASE PluginStops
    BY <1>2, <2>3 DEF PluginStops, FileInv, OnFile
  <2>4. CASE PluginStarts
    BY <1>2, <2>4, StartReads, StartFiles
  <2>5. CASE UNCHANGED vars
    BY <1>2, <2>5 DEF vars, FileInv, OnFile
  <2> QED  BY <1>2, <2>1, <2>2, <2>3, <2>4, <2>5 DEF Next
<1> QED  BY <1>1, <1>2, KeptInvariance, PTL DEF Spec

\* The file named after a report in memory holds one that is in memory, until a write
\* fails, if std::rename() replaces its target (put(), save()).
THEOREM MemoryIsOnDisk == RenameReplaces => (Spec => []MemoryOnDisk)
<1>1. FileInv => MemoryOnDisk
  BY DEF FileInv, OnFile, MemoryOnDisk
<1> QED  BY <1>1, FileInvariance, PTL

\* A restart that reads all files has every session of a memory without failed writes
\* again, but for those whose file's name another one took, and with a replaced
\* report only if that one had another arrival (save(), load(), report_filename()).
THEOREM RestartsKeep == RenameReplaces => (Spec => RestartKeepsReports)
<1> SUFFICES ASSUME RenameReplaces PROVE Spec => RestartKeepsReports
  OBVIOUS
<1> DEFINE Taken(k) == \E j \in Key \ {k} : /\ store[j] # NoReport
                                          /\ FileName(store[j]) = FileName(store[k])
           Keeps(k) == /\ store'[k] = NoReport => Taken(k)
                       /\ store'[k] # NoReport /\ store'[k].arr = store[k].arr
                            => store'[k] = store[k]
<1>1. ASSUME KeptInv, KeptInv', FileInv, StartsReading(FileNames), ~failed,
             build'.layout = build.layout, NEW k \in Key, store[k] # NoReport
      PROVE  Keeps(k)
  <2> DEFINE f == FileName(store[k])
             j == disk[f].report.key
  <2>1. store[k] \in Report /\ store[k].key = k
    BY <1>1 DEF KeptInv, TypeOK, Named
  <2>2. f \in FileNames
    BY <2>1, NameOfReport
  <2>3. /\ disk[f] # NoFile /\ disk[f].layout = build'.layout
        /\ j \in Key /\ store[j] = disk[f].report
    BY <1>1 DEF FileInv, OnFile
  <2>4. disk[f] \in File /\ disk[f].report \in Report /\ FileName(disk[f].report) = f
    BY <1>1, <2>2, <2>3 DEF KeptInv, TypeOK, Filed, File
  <2>5. ASSUME store'[k] # NoReport
        PROVE  \E g \in FileNames : /\ disk[g] # NoFile /\ disk[g].report.key = k
                                    /\ store'[k] = disk[g].report
    BY <1>1, <2>5 DEF StartsReading, Loads
  <2>6. ASSUME store'[k] # NoReport, store'[k].arr = store[k].arr
        PROVE  store'[k] = disk[f].report /\ j = k
    <3>1. PICK g \in FileNames : /\ disk[g] # NoFile /\ disk[g].report.key = k
                                 /\ store'[k] = disk[g].report
      BY <2>5, <2>6
    <3>2. FileName(store'[k]) = g
      BY <1>1, <3>1 DEF KeptInv, Filed
    <3>3. FileName(store'[k]) = f
      BY <2>1, <2>6, <3>1 DEF FileName
    <3> QED  BY <3>1, <3>2, <3>3
  <2>7. CASE j = k
    <3>1. store'[k] # NoReport
      <4> DEFINE of(i) == {g \in FileNames : /\ disk[g] # NoFile
                                             /\ disk[g].layout = build'.layout
                                             /\ disk[g].report.key = i}
                 found == {i \in Key : of(i) # {}}
      <4>1. PICK first \in [found -> FileNames] :
              /\ \A i \in found : first[i] \in of(i)
              /\ store' = [i \in Key |-> IF i \in found THEN disk[first[i]].report
                                                         ELSE NoReport]
        BY <1>1 DEF StartsReading, Loads
      <4>2. f \in of(k)
        BY <2>2, <2>3, <2>7
      <4>3. k \in found
        BY <4>2
      <4>4. first[k] \in FileNames /\ disk[first[k]] # NoFile
        BY <4>1, <4>3
      <4>5. disk[first[k]].report \in Report
        BY <1>1, <4>4 DEF KeptInv, TypeOK, File
      <4>6. store'[k] = disk[first[k]].report
        BY <4>1, <4>3
      <4> QED  BY <4>5, <4>6, ReportIsSome
    <3> QED  BY <2>3, <2>6, <2>7, <3>1
  <2>8. CASE j # k
    <3>1. Taken(k)
      BY <2>3, <2>4, <2>8, ReportIsSome
    <3> QED  BY <2>6, <2>8, <3>1
  <2> QED  BY <2>7, <2>8
<1>2. KeptInv /\ KeptInv' /\ FileInv /\ [Next]_vars =>
        [StartsReading(FileNames) /\ ~failed /\ build'.layout = build.layout =>
           \A k \in Key : store[k] # NoReport =>
             /\ store'[k] = NoReport =>
                  \E j \in Key \ {k} : /\ store[j] # NoReport
                                       /\ FileName(store[j]) = FileName(store[k])
             /\ store'[k] # NoReport /\ store'[k].arr = store[k].arr
                  => store'[k] = store[k]]_vars
  BY <1>1
<1>3. Spec => []FileInv
  BY FileInvariance
<1> QED  BY <1>2, <1>3, KeptInvariance, PTL DEF Spec, RestartKeepsReports

-----------------------------------------------------------------------------
(* What the tab shows.                                                     *)

\* Nothing is under way before the first start.
LEMMA SessionInit == Init => SessionInv
BY DEF Init, SessionInv, OneEvaluation

\* A callback answers the evaluation of g_key.
LEMMA CallbackOfSession ==
  ASSUME KeptInv, SessionInv, NEW c \in calls, Callback(c)
  PROVE  SessionInv'
<1>1. calls = {c} /\ calls' = {} /\ c.key = lastKey /\ lastKey' = lastKey /\ running'
      /\ build' = build
  BY DEF SessionInv, OneEvaluation, Callback
<1>2. CASE Fails
  BY <1>1, <1>2 DEF Fails, SessionInv, OneEvaluation
<1>3. CASE Succeeds(c)
  <2> DEFINE report == [key |-> c.key, arr |-> c.arr, prompt |-> build.prompt]
  <2>1. c.key \in Key /\ report \in Report
    <3>1. c \in Call
      BY DEF KeptInv, TypeOK
    <3>2. build.prompt \in Nat
      BY PostFlightAssumption DEF KeptInv, TypeOK
    <3> QED  BY <3>1, <3>2 DEF Call, Report
  <2>2. store' = [store EXCEPT ![c.key] = report] /\ report.prompt = build.prompt
    BY <1>3 DEF Succeeds
  <2> HIDE DEF report
  <2>3. store'[c.key] = report
    BY <2>1, <2>2 DEF KeptInv, TypeOK
  <2>4. store'[lastKey'] # NoReport /\ store'[lastKey'].prompt = build'.prompt
    BY <1>1, <2>1, <2>2, <2>3, ReportIsSome
  <2>5. status' = "Done"
    BY <1>3 DEF Succeeds
  <2> QED  BY <1>1, <2>1, <2>4, <2>5 DEF SessionInv, OneEvaluation
<1> QED  BY <1>2, <1>3 DEF Callback

\* The button needs that nothing is under way, and a stop ends whatever is.
LEMMA SessionStep == KeptInv /\ SessionInv /\ [Next]_vars => SessionInv'
<1> SUFFICES ASSUME KeptInv, SessionInv, [Next]_vars PROVE SessionInv'
  OBVIOUS
<1>1. ASSUME NEW atc \in AtcLog, NEW flight \in FlightLog, Evaluate(atc, flight)
      PROVE  SessionInv'
  <2>1. calls = {} /\ running'
    BY <1>1 DEF Evaluate, EvaluateAsync, Free, SessionInv, OneEvaluation
  <2>2. \/ status' = "Error" /\ calls' = {}
        \/ /\ status' = "Running"
           /\ \E phase : calls' = {[key |-> lastKey', arr |-> flight.arr, phase |-> phase]}
    <3>1. CASE status' = "Error" /\ UNCHANGED calls
      BY <2>1, <3>1
    <3>2. CASE /\ status' = "Running"
               /\ \E phase : calls' = calls \cup {[key |-> lastKey', arr |-> flight.arr,
                                                    phase |-> phase]}
      BY <2>1, <3>2
    <3> QED  BY <1>1, <3>1, <3>2 DEF Evaluate, EvaluateAsync
  <2>3. CASE status' = "Error" /\ calls' = {}
    BY <2>1, <2>3 DEF SessionInv, OneEvaluation
  <2>4. ASSUME status' = "Running",
               NEW phase, calls' = {[key |-> lastKey', arr |-> flight.arr, phase |-> phase]}
        PROVE  SessionInv'
    <3> DEFINE c == [key |-> lastKey', arr |-> flight.arr, phase |-> phase]
    <3>1. calls' = {c} /\ c.key = lastKey'
      BY <2>4
    <3> HIDE DEF c
    <3> QED  BY <2>1, <2>4, <3>1 DEF SessionInv, OneEvaluation
  <2> QED  BY <2>2, <2>3, <2>4
<1>2. ASSUME NEW c \in calls, Callback(c) PROVE SessionInv'
  BY <1>2, CallbackOfSession
<1>3. CASE PluginStops
  BY <1>3 DEF PluginStops, SessionInv, OneEvaluation
<1>4. CASE PluginStarts
  BY <1>4 DEF PluginStarts, StartsReading, SessionInv, OneEvaluation
<1>5. CASE UNCHANGED vars
  BY <1>5 DEF vars, SessionInv, OneEvaluation
<1> QED  BY <1>1, <1>2, <1>3, <1>4, <1>5 DEF Next

\* Two evaluations never overlap (the guard of evaluate_async()).
LEMMA SessionInvariance == Spec => []SessionInv
BY SessionInit, SessionStep, KeptInvariance, PTL DEF Spec

\* "Done" is said of the session whose report the tab shows, and of a report by the
\* rubric of this release (g_status, g_key, render_postflight_tab()).
THEOREM DoneIsShown == Spec => []DoneShowsReport
<1>1. SessionInv => DoneShowsReport
  BY DEF SessionInv, DoneShowsReport, Shows
<1> QED  BY <1>1, SessionInvariance, PTL
=============================================================================
