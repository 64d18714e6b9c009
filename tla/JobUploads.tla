----------------------------- MODULE JobUploads -----------------------------
(***************************************************************************)
(* The files of a print job: what deneb-api writes while it takes an       *)
(* upload (main.c stream_upload, api_multipart.c, api_print_job_post), the *)
(* build-volume check and the UFP archives of print_job_file.c, which the  *)
(* service uses again when it opens the file, and the material catalogue.  *)
(* PrintClients has the commands and the races for the record; here every  *)
(* step of an upload that creates or removes a file may fail.              *)
(*                                                                         *)
(* The server is single threaded, so one request is handled at a time; the *)
(* print service and the touch screen run between its steps.               *)
(***************************************************************************)
EXTENDS Integers, FiniteSets, FiniteSetsExt, SequencesExt

CONSTANTS
  Name,        \* names of uploaded files after deneb_print_job_file_sanitize_name
  Axis,        \* axes of the build volume
  Size,        \* the build volume on every axis is 0 .. Size
  Absent, Garbled, NaN,  \* a bound that is not there, is no number, is not finite
  LongName,    \* a name that does not fit the path buffers
  Archives,    \* the member lists of UFP archives
  MaxListed,   \* DENEB_UFP_THUMB_MAX_CANDIDATES
  Guid,        \* material identifiers
  BadGuid,     \* what a profile has that is no material's
  NozzleText,  \* how a nozzle may be written: <<size, unit>>, where unit may be ""
  MaxRequests, \* bound on uploads
  MaxStops     \* bound on stops of the server

Chunk == {"IHDR", "IDAT", "IEND"}   \* the chunks of a PNG that are looked at

ASSUME UploadsAssumption ==
  /\ Size \in Nat \ {0} /\ MaxRequests \in Nat /\ MaxStops \in Nat
  /\ MaxListed \in Nat /\ <<"0.4", "">> \in NozzleText
  /\ Archives \subseteq Seq([picture : BOOLEAN, whole : BOOLEAN, score : Nat,
                             format : {"rgb", "rgba", "other"},
                             chunks : SUBSET Chunk, lines : BOOLEAN])

VARIABLES
  at,        \* the step the server is at
  up,        \* the upload in hand: [file, name, ufp, model, thumb, waits] or [guid]
  temp,      \* its temporary files: "body", "gcode", "model", "thumb"
  spool,     \* spool[n]: the contents of the spool file n
  record,    \* the name in the pending-job file, or NoName
  thumbnail, \* the upload whose picture is DENEB_ACTIVE_THUMB_PATH, Usb, or None
  job,       \* the contents the service prints, or NoFile
  catalog,   \* materials of the catalogue
  taken,     \* history variable: uploads answered 201
  cut,       \* history variable: uploads that a stop of the server cut off
  budget

uploadVars == <<at, up, temp, spool, record, thumbnail, job, catalog, taken, cut, budget>>

None    == 0   \* no upload: they are counted down to 1
Usb     == -1
NoName  == "none"
NoFile  == [id |-> None, fits |-> TRUE, passes |-> TRUE]
Partial == [id |-> up.file.id, fits |-> TRUE, passes |-> TRUE]  \* a copy under way

----------------------------------------------------------------------------
(* The build volume. *)

\* A bound of the header as metadata_extract_float finds it: not there, there
\* without a number, or a number, which need not be finite.
Field == {Absent, Garbled, NaN} \cup (-1 .. Size + 1)

\* The bounds of a header, PRINT.MIN.X to PRINT.MAX.Z.
Bounds == [Axis -> [min : Field, max : Field]]

Fields(m)  == {m[a].min : a \in Axis} \cup {m[a].max : a \in Axis}
\* bounds_field_mask: the fields that hold a number.
Mask(m)    == {f \in Axis \X {"min", "max"} : m[f[1]][f[2]] \notin {Absent, Garbled}}
Invalid(m) == Garbled \in Fields(m)

\* Mutant: the limits are only applied to the upper ends.
CheckBuildVolumeAbove(m) ==
  \/ Mask(m) = {} /\ ~Invalid(m)
  \/ /\ ~Invalid(m) /\ Mask(m) = Axis \X {"min", "max"} /\ NaN \notin Fields(m)
     /\ \A a \in Axis : m[a].min <= m[a].max /\ m[a].max <= Size

\* deneb_print_job_file_check_build_volume on what metadata_load found.
CheckBuildVolume(m) ==
  \/ Mask(m) = {} /\ ~Invalid(m)
  \/ /\ ~Invalid(m) /\ Mask(m) = Axis \X {"min", "max"} /\ NaN \notin Fields(m)
     /\ \A a \in Axis : m[a].min <= m[a].max /\ 0 <= m[a].min /\ m[a].max <= Size

\* What the check is for: every bound the header gives lies in the volume.
Fits(m) == Fields(m) \subseteq {Absent} \cup (0 .. Size)

\* A file is told apart by what its header says and what the check makes of that.
Verdicts == {[fits |-> Fits(m), passes |-> CheckBuildVolume(m)] : m \in Bounds}
Files(n) == {[id |-> n, fits |-> v.fits, passes |-> v.passes] : v \in Verdicts}

----------------------------------------------------------------------------
(* The material and the nozzle: the printer's against the header's. *)

\* What deneb_print_job_file_metadata_extract_value finds for a key: nothing, a key
\* without a value, or a value.
Given(v) == v \notin {Absent, Garbled}

Header == [material_guid : Guid \cup {BadGuid, Absent, Garbled},
           train_guid    : Guid \cup {BadGuid, Absent, Garbled},
           nozzle_size   : NozzleText \cup {Absent, Garbled},
           print_core_id : NozzleText \cup {Absent, Garbled},
           diameter      : NozzleText \cup {Absent, Garbled}]

\* deneb_print_job_file_metadata_load: the older key is asked when the newer gave no
\* value.  A print core without a value takes the nozzle size away again.
HeaderMaterial(h) == IF Given(h.material_guid) THEN h.material_guid ELSE h.train_guid
HeaderNozzle(h) ==
  LET v == IF h.print_core_id = Absent THEN h.nozzle_size ELSE h.print_core_id
  IN  IF Given(v) THEN v ELSE h.diameter

\* What read_line_command finds in the configuration, or the default.
Loaded == [material : Guid \cup {BadGuid}, nozzle : NozzleText]

\* deneb_print_profile_normalize_nozzle_id adds the unit and leaves the number as it
\* is written: 0.40 is another nozzle than 0.4.
NozzleId(t) == IF t[2] = "" THEN <<t[1], "mm">> ELSE t

\* deneb_pending_job_registration_prepare: what has to be changed for the print.
ChangesRequired(h, l) ==
  {c \in {"material", "print_core"} :
     \/ c = "material" /\ Given(HeaderMaterial(h)) /\ HeaderMaterial(h) # l.material
     \/ /\ c = "print_core" /\ Given(HeaderNozzle(h))
        /\ NozzleId(HeaderNozzle(h)) # NozzleId(l.nozzle)}

\* deneb_pending_job_change_count: a job with changes waits for the user.
Waits == {ChangesRequired(h, l) # {} : h \in Header, l \in Loaded}

----------------------------------------------------------------------------
(* UFP archives. *)

\* list_ufp_thumbnail_members: the first pictures of the central directory.
Listed(members) ==
  LET pictures == SelectSeq(members, LAMBDA c : c.picture)
  IN  SubSeq(pictures, 1, Min({MaxListed, Len(pictures)}))

\* extract_zip_candidate and read_png_dimensions_data: those that can be unpacked
\* and begin like a PNG.
Readable(members) == SelectSeq(Listed(members), LAMBDA c : c.whole)

\* decode_png_rgba32: the header, the data and the end are there, the header says 8-bit
\* RGB or RGBA without interlacing, at most 4096 pixels each way, and the data unpacks to
\* the lines of the picture, each with a filter PNG has.
Decodes(c) == Chunk \subseteq c.chunks /\ c.format \in {"rgb", "rgba"} /\ c.lines

\* write_png_thumbnail_rgb565: whether the picture is drawn, at least a pixel wide and
\* high, and written; memory or the disk may not do.
Drawn(c) == {FALSE, Decodes(c)}

\* thumbnail_score: the distance to 116 x 116; the first of the nearest is taken.
Nearest(cs) ==
  Min({i \in DOMAIN cs : \A k \in DOMAIN cs : cs[i].score <= cs[k].score})

\* deneb_print_job_file_extract_ufp_thumbnail decides on the size alone: when the
\* nearest picture cannot be decoded there is none.
HasThumbnail(members) ==
  LET cs == Readable(members) IN IF cs = <<>> THEN {FALSE} ELSE Drawn(cs[Nearest(cs)])

Thumbs == UNION {HasThumbnail(members) : members \in Archives}

\* deneb_print_job_file_upload_storage_plan: the name without directories, in the
\* spool directory.
StoragePlan(n) == n \in Name

\* deneb_material_catalog_parse_file: a GUID of 32 to 63 hex digits and dashes and a
\* version that is a number.
MaterialParses(g) == g \in Guid

\* The catalogue after deneb_material_catalog_store_file, whose writing may fail.
Stored(g) == IF MaterialParses(g) THEN {catalog, catalog \cup {g}} ELSE {catalog}

----------------------------------------------------------------------------
UploadsInit ==
  /\ at = "idle" /\ up = <<>> /\ temp = {}
  /\ spool = [n \in Name |-> NoFile] /\ record = NoName
  /\ thumbnail = None /\ job = NoFile /\ catalog = {}
  /\ taken = {None} /\ cut = {}
  /\ budget = [request |-> MaxRequests, stop |-> MaxStops]

serviceFiles == <<thumbnail, job>>

\* The request goes on at s with the temporary files t.
Step(from, s, t) == at = from /\ at' = s /\ temp' = t

\* The file that is to be printed.
JobFile == IF up.ufp THEN "model" ELSE "gcode"

\* handle_client with a multipart POST: stream_upload makes the temporary file.
Arrive ==
  /\ at = "idle" /\ budget.request > 0
  /\ budget' = [budget EXCEPT !.request = @ - 1]
  /\ \/ \E f \in Files(budget.request), n \in Name \cup {LongName},
           ufp \in BOOLEAN, model \in BOOLEAN,
           thumb \in Thumbs :
          up' = [file |-> f, name |-> n, ufp |-> ufp, model |-> model, thumb |-> thumb,
                 waits |-> FALSE]
     \/ \E g \in Guid \cup {BadGuid} : up' = [guid |-> g]
  /\ at' = "body" /\ temp' = {"body"}
  /\ UNCHANGED <<spool, record, serviceFiles, catalog, taken, cut>>

\* stream_upload gives up: the client is gone, silent for 30 s, or /tmp is full.
StreamFails ==
  /\ Step("body", "idle", {}) /\ up' = <<>>
  /\ UNCHANGED <<spool, record, serviceFiles, catalog, taken, cut, budget>>

\* extract_multipart_file: the first part with a file name, copied; a body that
\* has none or is not closed by a boundary, or a full disk, and it is a 400.
Extract ==
  /\ \/ /\ at = "body" /\ Step("body", IF "guid" \in DOMAIN up THEN "material"
                        ELSE IF up.ufp THEN "archive" ELSE "validate",
                temp \cup {"gcode"})
     \/ Step("body", "done", temp)
  /\ UNCHANGED <<up, spool, record, serviceFiles, catalog, taken, cut, budget>>

\* deneb_print_job_file_extract_ufp_model_gcode into a file of its own, and
\* extract_ufp_member's answers: anything unpacked is a success; when nothing is, the
\* file is removed and unzip's exit status is returned, which is positive and so no
\* failure to the caller; only an unzip that could not be run or was killed is a 400.
ExtractModel ==
  /\ \/ Step("archive", "thumb", temp \cup {"model"}) /\ up.model
     \/ Step("archive", "thumb", temp)
     \/ Step("archive", "done", temp \ {"gcode"})
  /\ UNCHANGED <<up, spool, record, serviceFiles, catalog, taken, cut, budget>>

\* The picture, which a job may do without; then the archive is removed.
ExtractThumb ==
  /\ \/ Step("thumb", "validate", (temp \cup {"thumb"}) \ {"gcode"}) /\ up.thumb
     \/ Step("thumb", "validate", temp \ {"gcode"})  \* none, or no file for it
  /\ UNCHANGED <<up, spool, record, serviceFiles, catalog, taken, cut, budget>>

\* deneb_print_job_file_validate_build_volume_path: the file is there and passes (422);
\* then the storage plan: a name may be too long (500).
Valid == JobFile \in temp /\ up.file.passes /\ StoragePlan(up.name)

Validate ==
  /\ \/ Step("validate", "check", temp) /\ Valid
     \/ Step("validate", "done", {"body"}) /\ ~Valid
  /\ UNCHANGED <<up, spool, record, serviceFiles, catalog, taken, cut, budget>>

\* deneb_pending_job_file_check_upload_default: a duplicate (200) or another job
\* that is pending (409) ends the upload.
CheckPending ==
  /\ IF record = NoName THEN Step("check", "store", temp) ELSE Step("check", "done", {"body"})
  /\ UNCHANGED <<up, spool, record, serviceFiles, catalog, taken, cut, budget>>

\* deneb_print_job_file_store_upload.  From /tmp to the flash a rename fails, and
\* the file is copied over one of the same name.
Store ==
  /\ \/ Step("store", "register", temp \ {JobFile}) /\ spool' = [spool EXCEPT ![up.name] = up.file]
     \/ Step("store", "copy", temp) /\ spool' = [spool EXCEPT ![up.name] = Partial]
     \/ Step("store", "done", {"body"}) /\ UNCHANGED spool
  /\ UNCHANGED <<up, record, serviceFiles, catalog, taken, cut, budget>>

Copy ==
  /\ \/ Step("copy", "register", temp \ {JobFile}) /\ spool' = [spool EXCEPT ![up.name] = up.file]
     \/ Step("copy", "done", {"body"}) /\ spool' = [spool EXCEPT ![up.name] = NoFile]
  /\ UNCHANGED <<up, record, serviceFiles, catalog, taken, cut, budget>>

\* deneb_job_control_accept: one job at a time, whose header is checked again.  The
\* picture is removed, and a file that is itself an archive may bring its own: an
\* upload's was unpacked before it got its .gcode name.
ServiceStarts(f) ==
  \/ /\ job = NoFile /\ f.passes /\ job' = f
     /\ thumbnail' \in IF f.id = Usb THEN {None, Usb} ELSE {None}
  \/ (job # NoFile \/ ~f.passes) /\ UNCHANGED serviceFiles

\* register_native_print: the record is written beside the old one and renamed, or
\* that fails and the old one stays.
Register ==
  /\ \/ /\ Step("register", "dispatch", temp) /\ record' = up.name
        /\ \E w \in Waits : up' = [up EXCEPT !.waits = w]
     \/ Step("register", "undo", temp) /\ UNCHANGED <<record, up>>
  /\ UNCHANGED <<spool, serviceFiles, catalog, taken, cut, budget>>

\* deneb_pending_job_registration_dispatch_start: a job that waits is not started.
\* The start fails when the web service sees a print, and when the answer is late,
\* which the service does not know.
Dispatch ==
  /\ \/ Step("dispatch", "adopt", temp) /\ up.waits /\ UNCHANGED serviceFiles
     \/ Step("dispatch", "adopt", temp) /\ ~up.waits /\ ServiceStarts(up.file)
     \/ /\ Step("dispatch", "undo", temp) /\ ~up.waits
        /\ UNCHANGED serviceFiles \/ ServiceStarts(up.file)
  /\ UNCHANGED <<up, spool, record, catalog, taken, cut, budget>>

\* Mutant: the picture is not removed with the rest.
UndoKeepsThumb ==
  /\ Step("undo", "done", temp) /\ record' = NoName
  /\ spool' = [spool EXCEPT ![up.name] = NoFile]
  /\ UNCHANGED <<up, serviceFiles, catalog, taken, cut, budget>>

\* A registration that failed is taken back (503).
Undo ==
  /\ Step("undo", "done", temp \ {"thumb"}) /\ record' = NoName
  /\ spool' = [spool EXCEPT ![up.name] = NoFile]
  /\ UNCHANGED <<up, serviceFiles, catalog, taken, cut, budget>>

\* The upload is accepted (201) and its picture becomes the one on the screen,
\* whatever is printed by then.
Adopt ==
  /\ Step("adopt", "done", temp \ {"thumb"})
  /\ thumbnail' \in IF "thumb" \in temp THEN {up.file.id, thumbnail} ELSE {thumbnail}
  /\ taken' = taken \cup {up.file.id}
  /\ UNCHANGED <<up, spool, record, job, catalog, cut, budget>>

\* The body is removed whatever the handler answered.
Answer ==
  /\ Step("done", "idle", temp \ {"body"}) /\ up' = <<>>
  /\ UNCHANGED <<spool, record, serviceFiles, catalog, taken, cut, budget>>

\* persist_uploaded_material: the profile is read, its record is written, and the
\* upload is removed either way.
StoreMaterial ==
  /\ Step("material", "done", temp \ {"gcode"})
  /\ catalog' \in Stored(up.guid)
  /\ UNCHANGED <<up, spool, record, serviceFiles, taken, cut, budget>>

----------------------------------------------------------------------------
(* The other processes. *)

\* import_usb_material_profiles on the touch screen.
ImportMaterials ==
  /\ \E gs \in SUBSET Guid : gs \ catalog # {} /\ catalog' = catalog \cup gs
  /\ UNCHANGED <<at, up, temp, spool, record, serviceFiles, taken, cut, budget>>

\* The touch screen starts a file from a USB stick, which is no upload.
StartUsb ==
  /\ \E f \in Files(Usb) : ServiceStarts(f)
  /\ UNCHANGED <<at, up, temp, spool, record, catalog, taken, cut, budget>>

\* The user tells the waiting job to go ahead.
StartPending ==
  /\ record # NoName /\ spool[record] # NoFile /\ ServiceStarts(spool[record])
  /\ UNCHANGED <<at, up, temp, spool, record, catalog, taken, cut, budget>>

\* deneb_job_lifecycle_complete and _abort.
JobEnds ==
  /\ job # NoFile /\ job' = NoFile /\ thumbnail' = None
  /\ UNCHANGED <<at, up, temp, spool, record, catalog, taken, cut, budget>>

\* A stop, a cancel or the end of a print removes the record.
RecordEnds ==
  /\ record # NoName /\ record' = NoName
  /\ UNCHANGED <<at, up, temp, spool, serviceFiles, catalog, taken, cut, budget>>

\* procd starts the server again.  Its temporary files have names that are never
\* used again, in a directory that is in memory.
StopServer ==
  /\ at # "idle" /\ budget.stop > 0
  /\ budget' = [budget EXCEPT !.stop = @ - 1]
  /\ at' = "idle" /\ temp' = {} /\ up' = <<>>
  /\ cut' = IF "file" \in DOMAIN up THEN cut \cup {up.file.id} ELSE cut
  /\ UNCHANGED <<spool, record, serviceFiles, catalog, taken>>

----------------------------------------------------------------------------
UploadsNext ==
  \/ Arrive \/ StreamFails \/ Extract \/ ExtractModel \/ ExtractThumb \/ Validate
  \/ CheckPending \/ Store \/ Copy \/ Register \/ Dispatch \/ Undo
  \/ Adopt \/ StoreMaterial \/ Answer
  \/ ImportMaterials \/ StartUsb \/ StartPending \/ JobEnds \/ RecordEnds \/ StopServer

UploadsSpec == UploadsInit /\ [][UploadsNext]_uploadVars

----------------------------------------------------------------------------
\* However a request ends, nothing of it stays behind: no temporary file, nothing in the
\* spool but uploads that were accepted (and those a stop of the server cut off), no
\* picture of an upload that was refused (api_print_job_post's eleven ways out).  A picture
\* that came with a file from a USB stick goes when the print of that file ends.
NothingLeftBehind ==
  /\ at = "idle" => temp = {}
  /\ at = "idle" => \A n \in Name : spool[n].id \in taken \cup cut
  /\ thumbnail \in taken \/ (thumbnail = Usb /\ job.id = Usb)

\* A job the service prints has a header whose bounds, if it gives any, lie in the build
\* volume: numbers that are missing, garbled, not finite or swapped do not get it past
\* the check, nor does the way it came (deneb_print_job_file_check_build_volume).
PrintedFits == job.fits
=============================================================================
