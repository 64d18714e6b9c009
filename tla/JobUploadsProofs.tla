-------------------------- MODULE JobUploadsProofs --------------------------
(***************************************************************************)
(* Proofs about JobUploads, for every build volume, set of names, archives *)
(* and materials, and any number of uploads and stops of the server.       *)
(***************************************************************************)
EXTENDS JobUploads, TLAPS

----------------------------------------------------------------------------
(* The build volume. *)

\* The check lets no header through that gives a bound outside the volume: with no number
\* at all every bound is absent, and otherwise all of them are numbers in range.
LEMMA CheckIsSound ==
  ASSUME NEW m \in Bounds, CheckBuildVolume(m)
  PROVE  Fits(m)
<1>1. \A a \in Axis : m[a] \in [min : Field, max : Field]
  BY DEF Bounds
<1>2. \A a \in Axis : m[a].min # Garbled /\ m[a].max # Garbled
  BY DEF CheckBuildVolume, Invalid, Fields
<1>0. \A a \in Axis, e \in {"min", "max"} :
        <<a, e>> \in Mask(m) <=> m[a][e] \notin {Absent, Garbled}
  BY DEF Mask
<1>3. CASE Mask(m) = {}
  <2>1. \A a \in Axis, e \in {"min", "max"} : m[a][e] \in {Absent, Garbled}
    BY <1>0, <1>3
  <2>2. \A a \in Axis : m[a].min = Absent /\ m[a].max = Absent
    BY <1>1, <1>2, <2>1
  <2> QED
    BY <2>2 DEF Fits, Fields
<1>4. CASE Mask(m) # {}
  <2>1. /\ Mask(m) = Axis \X {"min", "max"} /\ NaN \notin Fields(m)
        /\ \A a \in Axis : m[a].min <= m[a].max /\ 0 <= m[a].min /\ m[a].max <= Size
    BY <1>4 DEF CheckBuildVolume
  <2>2. \A a \in Axis, e \in {"min", "max"} : m[a][e] \notin {Absent, Garbled}
    BY <1>0, <2>1
  <2>3. \A a \in Axis : m[a].min \in -1 .. Size + 1 /\ m[a].max \in -1 .. Size + 1
    <3> SUFFICES ASSUME NEW a \in Axis
                 PROVE  m[a].min \in -1 .. Size + 1 /\ m[a].max \in -1 .. Size + 1
      OBVIOUS
    <3>1. m[a].min \in Field /\ m[a].max \in Field
      BY <1>1
    <3>2. m[a]["min"] \notin {Absent, Garbled} /\ m[a]["max"] \notin {Absent, Garbled}
      BY <2>2
    <3>3. m[a].min # NaN /\ m[a].max # NaN
      BY <2>1 DEF Fields
    <3> QED
      BY <3>1, <3>2, <3>3 DEF Field
  <2>4. \A a \in Axis : m[a].min \in 0 .. Size /\ m[a].max \in 0 .. Size
    <3>1. Size \in Nat \ {0}
      BY UploadsAssumption
    <3> QED
      BY <2>1, <2>3, <3>1
  <2> QED
    BY <2>4 DEF Fits, Fields
<1> QED
  BY <1>3, <1>4

\* A file whose verdict can be relied on.
SoundFile == {f \in [id : Int, fits : BOOLEAN, passes : BOOLEAN] : f.passes => f.fits}

\* A file that passes the check fits: CheckIsSound for the files that can be uploaded.
LEMMA FilesAreSound == \A n \in Int : Files(n) \subseteq SoundFile
<1> SUFFICES ASSUME NEW n \in Int, NEW f \in Files(n) PROVE f \in SoundFile
  OBVIOUS
<1>1. PICK m \in Bounds : f = [id |-> n, fits |-> Fits(m), passes |-> CheckBuildVolume(m)]
  BY DEF Files, Verdicts
<1>2. Fits(m) \in BOOLEAN /\ CheckBuildVolume(m) \in BOOLEAN
  BY DEF Fits, CheckBuildVolume
<1> QED
  BY <1>1, <1>2, CheckIsSound DEF SoundFile

----------------------------------------------------------------------------
(* The request in hand. *)

Upload == [file : SoundFile, name : Name \cup {LongName}, ufp : BOOLEAN, model : BOOLEAN,
           thumb : BOOLEAN, waits : {FALSE} \cup Waits]
Material == [guid : Guid \cup {BadGuid}]

InSpool == {"register", "dispatch", "undo", "adopt"}   \* steps with the file in the spool
Planned == {"check", "store", "copy"} \cup InSpool     \* steps with a place for it

\* Each step has the request it is for, and every file there is was checked or is one the
\* check would refuse.
Typed ==
  /\ budget \in [request : Int, stop : Int]
  /\ at \in {"idle", "body", "material", "archive", "thumb", "validate", "done"} \cup Planned
  /\ at \in {"body", "done"} => up \in Upload \cup Material
  /\ at = "material" => up \in Material
  /\ at \in {"archive", "thumb", "validate"} \cup Planned => up \in Upload
  /\ at \in {"archive", "thumb"} => up.ufp
  /\ at \in Planned => up.name \in Name
  /\ spool \in [Name -> SoundFile] /\ record \in Name \cup {NoName}
  /\ job \in SoundFile /\ job.fits

\* The temporary files there may be at each step.
Expected ==
  CASE at = "idle"                       -> {}
    [] at \in {"body", "done"}           -> {"body"}
    [] at \in {"archive", "material"}    -> {"body", "gcode"}
    [] at = "thumb"                      -> {"body", "gcode", "model"}
    [] at \in {"validate", "check", "store", "copy"} -> {"body", "thumb", JobFile}
    [] OTHER                             -> {"body", "thumb"}

TempInv == temp \subseteq Expected

\* While an upload is in hand the spool may have its file too, under its name.
SpoolInv ==
  /\ None \in taken /\ (thumbnail \in taken \/ (thumbnail = Usb /\ job.id = Usb))
  /\ \A n \in Name :
       \/ spool[n].id \in taken \cup cut
       \/ at \in {"copy"} \cup InSpool /\ n = up.name /\ spool[n].id = up.file.id

UploadInv == Typed /\ TempInv /\ SpoolInv

\* The two kinds of request are told apart by their fields.
LEMMA Kinds ==
  /\ \A u \in Upload : "guid" \notin DOMAIN u /\ "file" \in DOMAIN u
  /\ \A u \in Material : "guid" \in DOMAIN u
  /\ \A u \in Upload : u.ufp \in BOOLEAN /\ u.file \in SoundFile /\ u.file.id \in Int
BY DEF Upload, Material, SoundFile

\* No file fits, and a copy cut short is still the file it is a copy of.
LEMMA PlainFiles ==
  /\ NoFile \in SoundFile /\ NoFile.fits /\ NoFile.id = None
  /\ up \in Upload => Partial \in SoundFile /\ Partial.id = up.file.id
BY Kinds DEF NoFile, Partial, SoundFile, None

\* A request starts with no temporary of an earlier one.
LEMMA ArriveInv ==
  ASSUME UploadInv, Arrive
  PROVE  UploadInv'
<1>1. /\ at' = "body" /\ temp' = {"body"} /\ at = "idle"
      /\ UNCHANGED <<spool, record, thumbnail, job, taken, cut>>
  BY DEF Arrive, serviceFiles
<1>2. budget.request \in Int /\ budget' \in [request : Int, stop : Int]
  <2>1. budget' = [budget EXCEPT !.request = budget.request - 1]
    BY DEF Arrive
  <2> QED
    BY <2>1 DEF UploadInv, Typed
<1>3. up' \in Upload \cup Material
  <2>1. CASE \E f \in Files(budget.request), n \in Name \cup {LongName},
                ufp \in BOOLEAN, model \in BOOLEAN, thumb \in Thumbs :
               up' = [file |-> f, name |-> n, ufp |-> ufp, model |-> model, thumb |-> thumb,
                      waits |-> FALSE]
    <3>1. Thumbs \subseteq BOOLEAN
      <4>1. \A c : Decodes(c) \in BOOLEAN
        BY DEF Decodes
      <4>2. \A c : Drawn(c) \subseteq BOOLEAN
        BY <4>1 DEF Drawn
      <4>3. \A members : HasThumbnail(members) \subseteq BOOLEAN
        BY <4>2 DEF HasThumbnail
      <4> QED
        BY <4>3 DEF Thumbs
    <3>2. Files(budget.request) \subseteq SoundFile
      BY <1>2, FilesAreSound
    <3> QED
      BY <2>1, <3>1, <3>2 DEF Upload
  <2>2. CASE \E g \in Guid \cup {BadGuid} : up' = [guid |-> g]
    BY <2>2 DEF Material
  <2> QED
    BY <2>1, <2>2 DEF Arrive
<1>4. Typed'
  BY <1>1, <1>2, <1>3 DEF UploadInv, Typed, Planned, InSpool
<1>5. TempInv'
  BY <1>1 DEF TempInv, Expected
<1>6. SpoolInv'
  BY <1>1 DEF UploadInv, SpoolInv, InSpool
<1> QED
  BY <1>4, <1>5, <1>6 DEF UploadInv

\* Streaming and extracting make only temporaries the request knows of, and a failure
\* removes them.
LEMMA EarlySteps ==
  ASSUME UploadInv, StreamFails \/ Extract \/ ExtractModel \/ ExtractThumb
  PROVE  UploadInv'
<1>1. UNCHANGED <<spool, record, thumbnail, job, taken, cut, budget>>
  BY DEF StreamFails, Extract, ExtractModel, ExtractThumb, serviceFiles
<1>2. at \in {"body", "archive", "thumb"} /\ at' \in {"idle", "done", "material", "archive", "thumb", "validate"}
  BY DEF StreamFails, Extract, ExtractModel, ExtractThumb, Step
<1>3. Typed' /\ TempInv'
  <2>1. CASE StreamFails
    BY <1>1, <2>1 DEF StreamFails, Step, UploadInv, Typed, TempInv, Expected, Planned,
       InSpool
  <2>2. CASE Extract
    <3>1. up' = up /\ at = "body" /\ up \in Upload \cup Material /\ temp \subseteq {"body"}
      BY <2>2 DEF Extract, Step, UploadInv, Typed, TempInv, Expected
    <3>2. \/ at' = "done" /\ temp' \subseteq {"body"}
          \/ at' = "material" /\ up \in Material /\ temp' \subseteq {"body", "gcode"}
          \/ at' = "archive" /\ up \in Upload /\ up.ufp /\ temp' \subseteq {"body", "gcode"}
          \/ at' = "validate" /\ up \in Upload /\ ~up.ufp /\ temp' \subseteq {"body", "gcode"}
      BY <2>2, <3>1, Kinds DEF Extract, Step
    <3> QED
      BY <1>1, <3>1, <3>2 DEF UploadInv, Typed, TempInv, Expected, Planned, InSpool,
         JobFile
  <2>3. CASE ExtractModel
    BY <1>1, <2>3 DEF ExtractModel, Step, UploadInv, Typed, TempInv, Expected, Planned,
       InSpool
  <2>4. CASE ExtractThumb
    BY <1>1, <2>4 DEF ExtractThumb, Step, UploadInv, Typed, TempInv, Expected, Planned,
       InSpool, JobFile
  <2> QED
    BY <2>1, <2>2, <2>3, <2>4
<1>4. SpoolInv'
  BY <1>1, <1>2 DEF UploadInv, SpoolInv, InSpool
<1> QED
  BY <1>3, <1>4 DEF UploadInv

\* Checking and storing leave a request with a place for its file, or undo what was
\* made.
LEMMA CheckSteps ==
  ASSUME UploadInv, Validate \/ CheckPending \/ Answer \/ StoreMaterial
  PROVE  UploadInv'
<1>1. UNCHANGED <<spool, record, thumbnail, job, taken, cut, budget>>
  BY DEF Validate, CheckPending, Answer, StoreMaterial, serviceFiles
<1>2. /\ at \in {"validate", "check", "done", "material"}
      /\ at' \in {"idle", "done", "check", "store"}
  BY DEF Validate, CheckPending, Answer, StoreMaterial, Step
<1>3. Typed' /\ TempInv'
  <2>1. CASE Validate
    BY <1>1, <2>1 DEF Validate, Valid, Step, StoragePlan, UploadInv, Typed, TempInv,
       Expected,
       Planned,
       InSpool, JobFile
  <2>2. CASE CheckPending
    BY <1>1, <2>2 DEF CheckPending, Step, UploadInv, Typed, TempInv, Expected, Planned,
       InSpool,
       JobFile
  <2>3. CASE Answer
    BY <1>1, <2>3 DEF Answer, Step, UploadInv, Typed, TempInv, Expected, Planned,
       InSpool
  <2>4. CASE StoreMaterial
    BY <1>1, <2>4 DEF StoreMaterial, Step, UploadInv, Typed, TempInv, Expected,
       Planned, InSpool
  <2> QED
    BY <2>1, <2>2, <2>3, <2>4
<1>4. SpoolInv'
  BY <1>1, <1>2 DEF UploadInv, SpoolInv, InSpool
<1> QED
  BY <1>3, <1>4 DEF UploadInv

\* The steps that write the spool: the file that was there before is gone.
LEMMA StoreSteps ==
  ASSUME UploadInv, Store \/ Copy \/ Undo
  PROVE  UploadInv'
<1>1. /\ UNCHANGED <<up, thumbnail, job, taken, cut, budget>> /\ up \in Upload
      /\ up.name \in Name
      /\ record' \in {record, NoName} /\ at \in {"store", "copy", "undo"}
  BY DEF Store, Copy, Undo, Step, serviceFiles, UploadInv, Typed, Planned, InSpool
<1>2. /\ at' \in {"register", "copy", "done"}
      /\ \/ at = "store" /\ at' = "done" /\ spool' = spool
         \/ at' = "done" /\ spool' = [spool EXCEPT ![up.name] = NoFile]
         \/ at' = "register" /\ spool' = [spool EXCEPT ![up.name] = up.file]
         \/ at' = "copy" /\ spool' = [spool EXCEPT ![up.name] = Partial]
  BY DEF Store, Copy, Undo, Step
<1>3. spool \in [Name -> SoundFile] /\ up.file \in SoundFile
  BY <1>1, Kinds DEF UploadInv, Typed
<1>4. Typed'
  BY <1>1, <1>2, <1>3, PlainFiles DEF UploadInv, Typed, Planned, InSpool
<1>5. TempInv'
  <2>1. CASE Store \/ Copy
    BY <1>1, <2>1 DEF Store, Copy, Step, UploadInv, TempInv, Expected, InSpool, JobFile
  <2>2. CASE Undo
    BY <1>1, <2>2 DEF Undo, Step, UploadInv, TempInv, Expected, InSpool
  <2> QED
    BY <2>1, <2>2
<1>6. SpoolInv'
  <2>1. \A n \in Name \ {up.name} : spool'[n] = spool[n]
    BY <1>2, <1>3
  <2>2. \A n \in Name \ {up.name} : spool[n].id \in taken \cup cut
    BY DEF UploadInv, SpoolInv
  <2>3. \/ at = "store" /\ spool'[up.name] = spool[up.name]
        \/ spool'[up.name].id = None
        \/ at' \in {"copy", "register"} /\ spool'[up.name].id = up.file.id
    BY <1>1, <1>2, <1>3, PlainFiles
  <2>4. /\ None \in taken /\ (thumbnail \in taken \/ (thumbnail = Usb /\ job.id = Usb))
        /\ at = "store" => spool[up.name].id \in taken \cup cut
    BY <1>1 DEF UploadInv, SpoolInv, InSpool
  <2> QED
    BY <1>1, <2>1, <2>2, <2>3, <2>4 DEF SpoolInv, InSpool
<1> QED
  BY <1>4, <1>5, <1>6 DEF UploadInv

\* The service takes a file that passes, and every file that passes fits.
LEMMA Started ==
  ASSUME Typed, NEW f \in SoundFile, ServiceStarts(f)
  PROVE  /\ job' \in SoundFile /\ job'.fits
         /\ \/ thumbnail' = None \/ (thumbnail' = Usb /\ job'.id = Usb)
            \/ (thumbnail' = thumbnail /\ job' = job)
BY DEF ServiceStarts, SoundFile, Typed, serviceFiles

\* Registering, dispatching and adopting keep the file in the spool until the request is
\* done or undone.
LEMMA LateSteps ==
  ASSUME UploadInv, Register \/ Dispatch \/ Adopt
  PROVE  UploadInv'
<1>1. /\ UNCHANGED <<spool, cut, budget>> /\ up \in Upload /\ up.name \in Name
      /\ at \in InSpool
      /\ up.file \in SoundFile /\ record' \in {record, up.name}
  BY Kinds DEF Register, Dispatch, Adopt, Step, UploadInv, Typed, Planned, InSpool
<1>2. CASE Register
  <2>1. /\ up' \in Upload /\ up'.name = up.name /\ up'.file = up.file /\ temp' = temp
        /\ at' \in {"dispatch", "undo"} /\ UNCHANGED <<job, thumbnail, taken>>
        /\ at = "register"
    BY <1>1, <1>2 DEF Register, Step, Upload, serviceFiles
  <2>2. Typed'
    BY <1>1, <2>1 DEF UploadInv, Typed, Planned, InSpool
  <2>3. TempInv'
    BY <2>1 DEF UploadInv, TempInv, Expected
  <2>4. SpoolInv'
    BY <1>1, <2>1 DEF UploadInv, SpoolInv, InSpool
  <2> QED
    BY <2>2, <2>3, <2>4 DEF UploadInv
<1>3. CASE Dispatch
  <2>1. /\ UNCHANGED <<up, temp, taken>> /\ at = "dispatch" /\ at' \in {"adopt", "undo"}
    BY <1>3 DEF Dispatch, Step
  <2>2. /\ job' \in SoundFile /\ job'.fits
        /\ \/ thumbnail' = None \/ (thumbnail' = Usb /\ job'.id = Usb)
           \/ (thumbnail' = thumbnail /\ job' = job)
    BY <1>1, <1>3, Started DEF Dispatch, UploadInv, Typed, serviceFiles
  <2>3. Typed'
    BY <1>1, <2>1, <2>2 DEF UploadInv, Typed, Planned, InSpool
  <2>4. TempInv'
    BY <2>1 DEF UploadInv, TempInv, Expected
  <2>5. SpoolInv'
    BY <1>1, <2>1, <2>2 DEF UploadInv, SpoolInv, InSpool
  <2> QED
    BY <2>3, <2>4, <2>5 DEF UploadInv
<1>4. CASE Adopt
  <2>1. /\ UNCHANGED <<up, job>> /\ at = "adopt" /\ at' = "done" /\ temp' = temp \ {"thumb"}
        /\ thumbnail' \in {up.file.id, thumbnail} /\ taken' = taken \cup {up.file.id}
    BY <1>4 DEF Adopt, Step
  <2>2. Typed'
    BY <1>1, <2>1 DEF UploadInv, Typed, Planned, InSpool
  <2>3. TempInv'
    BY <2>1 DEF UploadInv, TempInv, Expected
  <2>4. SpoolInv'
    BY <1>1, <2>1 DEF UploadInv, SpoolInv, InSpool
  <2> QED
    BY <2>2, <2>3, <2>4 DEF UploadInv
<1> QED
  BY <1>2, <1>3, <1>4

\* What the screen, the importer and the service do between two steps of a request
\* removes nothing it needs and prints nothing that was not checked.
LEMMA OtherProcesses ==
  ASSUME UploadInv, ImportMaterials \/ StartUsb \/ StartPending \/ JobEnds \/ RecordEnds
  PROVE  UploadInv'
<1>1. UNCHANGED <<at, up, temp, spool, taken, cut, budget>> /\ record' \in {record, NoName}
  BY DEF ImportMaterials, StartUsb, StartPending, JobEnds, RecordEnds
<1>2. /\ job' \in SoundFile /\ job'.fits
      /\ \/ thumbnail' = None \/ (thumbnail' = Usb /\ job'.id = Usb)
         \/ (thumbnail' = thumbnail /\ job' = job)
  <2>1. CASE ImportMaterials \/ RecordEnds
    BY <2>1 DEF ImportMaterials, RecordEnds, serviceFiles, UploadInv, Typed
  <2>2. CASE StartUsb
    <3>1. Files(Usb) \subseteq SoundFile
      BY FilesAreSound DEF Usb
    <3> QED
      BY <2>2, <3>1, Started DEF StartUsb, UploadInv
  <2>3. CASE StartPending
    <3>1. record \in Name /\ spool[record] \in SoundFile /\ ServiceStarts(spool[record])
      BY <2>3 DEF StartPending, UploadInv, Typed
    <3> QED
      BY <3>1, Started DEF UploadInv
  <2>4. CASE JobEnds
    BY <2>4, PlainFiles DEF JobEnds
  <2> QED
    BY <2>1, <2>2, <2>3, <2>4
<1>3. Typed'
  BY <1>1, <1>2 DEF UploadInv, Typed
<1>4. TempInv'
  BY <1>1 DEF UploadInv, TempInv, Expected, JobFile
<1>5. SpoolInv'
  BY <1>1, <1>2 DEF UploadInv, SpoolInv
<1> QED
  BY <1>3, <1>4, <1>5 DEF UploadInv

\* A stop ends the request, whose file counts as cut from then on.
LEMMA StopServerInv ==
  ASSUME UploadInv, StopServer
  PROVE  UploadInv'
<1>1. UNCHANGED <<spool, record, thumbnail, job, taken>> /\ at' = "idle" /\ temp' = {}
  BY DEF StopServer, serviceFiles
<1>2. budget' \in [request : Int, stop : Int]
  <2>1. budget' = [budget EXCEPT !.stop = budget.stop - 1]
    BY DEF StopServer
  <2> QED
    BY <2>1 DEF UploadInv, Typed
<1>3. Typed'
  BY <1>1, <1>2 DEF UploadInv, Typed, Planned, InSpool
<1>4. TempInv'
  BY <1>1 DEF TempInv
<1>5. cut \subseteq cut' /\ (at \in {"copy"} \cup InSpool => up.file.id \in cut')
  <2>1. at \in {"copy"} \cup InSpool => "file" \in DOMAIN up
    BY Kinds DEF UploadInv, Typed, Planned
  <2> QED
    BY <2>1 DEF StopServer
<1>6. SpoolInv'
  BY <1>1, <1>5 DEF UploadInv, SpoolInv
<1> QED
  BY <1>3, <1>4, <1>6 DEF UploadInv

\* Every step keeps the invariant.
LEMMA UploadInvNext == UploadInv /\ [UploadsNext]_uploadVars => UploadInv'
<1> SUFFICES ASSUME UploadInv, [UploadsNext]_uploadVars PROVE UploadInv'
  OBVIOUS
<1>1. CASE UNCHANGED uploadVars
  BY <1>1 DEF uploadVars, UploadInv, Typed, TempInv, Expected, JobFile, SpoolInv
<1> QED
  BY <1>1, ArriveInv, EarlySteps, CheckSteps, StoreSteps, LateSteps, OtherProcesses,
     StopServerInv
     DEF UploadsNext

\* The invariant holds in every state.
LEMMA UploadAlways == UploadsSpec => []UploadInv
<1>1. UploadsInit => UploadInv
  <2> SUFFICES ASSUME UploadsInit PROVE UploadInv
    OBVIOUS
  <2>1. MaxRequests \in Nat /\ MaxStops \in Nat
    BY UploadsAssumption
  <2>2. at = "idle" /\ temp = {} /\ budget = [request |-> MaxRequests, stop |-> MaxStops]
    BY DEF UploadsInit
  <2>3. Typed
    BY <2>1, <2>2, PlainFiles DEF UploadsInit, Typed, Planned, InSpool
  <2>4. TempInv
    BY <2>2 DEF TempInv
  <2>5. SpoolInv
    BY PlainFiles DEF UploadsInit, SpoolInv
  <2> QED
    BY <2>3, <2>4, <2>5 DEF UploadInv
<1> QED
  BY <1>1, UploadInvNext, PTL DEF UploadsSpec

----------------------------------------------------------------------------
\* NothingLeftBehind for every set of names, archives and files, and any number of uploads
\* and stops: each of the ways out of an upload removes what the steps before it made.
THEOREM NothingIsEverLeftBehind == UploadsSpec => []NothingLeftBehind
<1>1. UploadInv => NothingLeftBehind
  BY DEF UploadInv, TempInv, Expected, SpoolInv, InSpool, NothingLeftBehind
<1> QED
  BY <1>1, UploadAlways, PTL

\* PrintedFits for every build volume and every header, whichever way the file came: what
\* the service prints gives no bound outside the volume.
THEOREM PrintedAlwaysFits == UploadsSpec => []PrintedFits
<1>1. UploadInv => PrintedFits
  BY DEF UploadInv, Typed, PrintedFits
<1> QED
  BY <1>1, UploadAlways, PTL
=============================================================================
