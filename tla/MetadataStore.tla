--------------------------- MODULE MetadataStore ---------------------------
(***************************************************************************)
(* FileMetadataStore: one JSON file per table, kept by the API and by the  *)
(* workers in one directory they share, without a lock.  An operation      *)
(* reads the file, computes the new document, opens the file for writing,  *)
(* which empties it, writes it when the buffer is flushed, and exports it  *)
(* (ArtifactStore).  The API serves the edits one at a time on its event   *)
(* loop; it describes on demand in threads (POST /describe), which save as *)
(* the workers do.                                                         *)
(*                                                                         *)
(* The documents considered are those of one instance, schema and table    *)
(* name, one per configuration: an edit does not name a configuration.     *)
(***************************************************************************)
EXTENDS ArtifactStore

CONSTANTS
    Procs,      \* threads and processes with the store open
    Editors,    \* those that serve PATCH: the API's event loop
    Modes,      \* the flags saves are called with
    Torn,       \* a file that is not (yet) JSON: truncated, or overlaid
    Unknown,    \* of a document nothing is promised of
    MaxOps,     \* bound on the number of operations
    MaxFaults   \* bound on crashes and failed writes

AllModes == [changed : BOOLEAN,    \* only_if_changed
             save : BOOLEAN,       \* save_metadata
             markdown : BOOLEAN, okf : BOOLEAN]   \* export_options.formats

ASSUME StoreAssumption ==
    /\ Editors \subseteq Procs
    /\ Modes \subseteq AllModes
    /\ \A m \in Modes : m.save \/ m.markdown \/ m.okf   \* else there is no store
    /\ Torn \notin Records \cup {Absent} /\ Absent \notin Records
    /\ Unknown \notin Records \cup {Absent}
    /\ MaxOps \in Nat /\ MaxFaults \in Nat

VARIABLES
    file,       \* the document of each path, or Absent, or Torn
    proc,       \* what each process is doing
    ops, faults,
    noted,      \* the owner that the last stored edit gave
    disturbed,  \* paths whose reads and writes overlapped or were cut
    bundleDisturbed   \* the same of the exports to the OKF bundle

observed == <<noted, disturbed, bundleDisturbed>>
vars == <<file, artifacts, proc, ops, faults, observed>>

(***************************************************************************)
(* pc is the next step of save_table_metadata, update_table_metadata and   *)
(* export: open the file for writing, flush it, write each export, list    *)
(* the bundle and write its index.                                         *)
(***************************************************************************)
Idle == [pc |-> "idle", op |-> "save", path |-> Absent, record |-> Absent,
         mode |-> [changed |-> FALSE, save |-> TRUE, markdown |-> TRUE, okf |-> TRUE],
         listing |-> Absent,
         stored |-> FALSE,   \* is the record in the file?
         clash |-> FALSE,    \* has another process had the file open too?
         alone |-> TRUE]     \* has no other operation met this one?

Init ==
    /\ file = [c \in Paths |-> Absent]
    /\ ArtifactsInit
    /\ proc = [p \in Procs |-> Idle]
    /\ ops = 0 /\ faults = 0
    /\ noted = [c \in Paths |-> NoOwner]
    /\ disturbed = {} /\ bundleDisturbed = FALSE

OthersAt(p, c, pcs) == {q \in Procs \ {p} : proc[q].path = c /\ proc[q].pc \in pcs}

Writing == {"open", "flush"}
Exporting == {"markdown", "okf", "list", "index"}

\* export skips the formats that are not asked for; a process is done after the
\* last one.
AfterWrite(mode) == IF mode.markdown THEN "markdown" ELSE IF mode.okf THEN "okf" ELSE "idle"

At(p, label) == [proc[p] EXCEPT !.pc = label]
MoveTo(p, label) ==
    proc' = [proc EXCEPT ![p] = IF label = "idle" THEN Idle ELSE At(p, label)]

Fail == faults < MaxFaults /\ faults' = faults + 1

-----------------------------------------------------------------------------
(* save_table_metadata and update_table_metadata, up to the read           *)

\* A process has read path c and continues at label with the record.
Begin(p, op, c, mode, record, label) ==
    /\ ops < MaxOps /\ ops' = ops + 1
    /\ LET others == OthersAt(p, c, Writing \cup Exporting)
       IN  proc' = [q \in Procs |->
              IF q = p THEN [Idle EXCEPT !.pc = label, !.op = op, !.path = c, !.mode = mode,
                                         !.record = record, !.alone = (others = {}),
                                         !.stored = (label # "open" /\ file[c] = record)]
              ELSE [proc[q] EXCEPT !.alone = @ /\ q \notin others]]
    /\ disturbed' = IF OthersAt(p, c, Writing) # {} /\ label = "open"
                    THEN disturbed \cup {c} ELSE disturbed
    /\ UNCHANGED <<file, artifacts, faults, noted, bundleDisturbed>>

\* get_table_metadata gives nothing for a file it cannot read.
Existing(c) == IF file[c] \in Records THEN {file[c]} ELSE {}

\* Mutant: the custom fields of the existing document are not carried forward.
Merged_Fresh(c, s, a) ==
    [schema |-> s,
     ai |-> IF a # NoAi \/ Existing(c) = {} THEN a ELSE file[c].ai,
     owner |-> NoOwner]

\* Mutant: an AI documentation of None replaces the stored one.
Merged_ClearsAi(c, s, a) ==
    [schema |-> s, ai |-> a,
     owner |-> IF Existing(c) = {} THEN NoOwner ELSE file[c].owner]

\* The new document: the custom fields, and the AI documentation unless there
\* is a new one, are those of the existing document.
Merged(c, s, a) ==
    [schema |-> s,
     ai |-> IF a # NoAi \/ Existing(c) = {} THEN a ELSE file[c].ai,
     owner |-> IF Existing(c) = {} THEN NoOwner ELSE file[c].owner]

\* only_if_changed: the document is exported and not written.
SaveUnchanged(p) == \E c \in Paths, mode \in Modes :
    /\ p \notin Editors /\ proc[p].pc = "idle"
    /\ mode.changed /\ Existing(c) # {}
    /\ AfterWrite(mode) # "idle"
    /\ Begin(p, "save", c, mode, file[c], AfterWrite(mode))

Save(p) == \E c \in Paths, mode \in Modes, s \in Schemas, a \in Ais \cup {NoAi} :
    /\ p \notin Editors /\ proc[p].pc = "idle"
    /\ mode.changed => \A e \in Existing(c) : e.schema # s
    /\ Begin(p, "save", c, mode, Merged(c, s, a),
             IF mode.save THEN "open" ELSE AfterWrite(mode))

\* PATCH: _find_file_path takes the first match in the order of the directory.
\* Without a match, or when it cannot be read, the answer is 404.  The payload
\* gives some fields a value, the owner among them or not; the others keep theirs.
Patch(p) == \E c \in Paths, r \in Records :
    /\ p \in Editors /\ proc[p].pc = "idle"
    /\ file[c] \in Records
    /\ r.ai = NoAi => file[c].ai = NoAi   \* null is not among the values
    /\ \/ r.owner \in Owners /\ Begin(p, "owner", c, Idle.mode, r, "open")
       \/ r.owner = file[c].owner /\ Begin(p, "edit", c, Idle.mode, r, "open")

-----------------------------------------------------------------------------
(* The write: open(path, "w") empties the file                             *)

\* Mutant: whether the document has changed is looked at once the file is open.
Open_ThenCompares(p) ==
    /\ proc[p].pc = "open"
    /\ file' = [file EXCEPT ![proc[p].path] = Torn]
    /\ MoveTo(p, IF file[proc[p].path] = proc[p].record
                 THEN AfterWrite(proc[p].mode) ELSE "flush")
    /\ UNCHANGED <<artifacts, ops, faults, observed>>

Open(p) ==
    /\ proc[p].pc = "open"
    /\ LET c == proc[p].path
           others == OthersAt(p, c, {"flush"})
       IN  /\ file' = [file EXCEPT ![c] = Torn]
           /\ proc' = [q \in Procs |->
                IF q = p THEN [proc[p] EXCEPT !.pc = "flush", !.clash = others # {}]
                ELSE [proc[q] EXCEPT !.clash = @ \/ q \in others]]
    /\ UNCHANGED <<artifacts, ops, faults, observed>>

\* Mutant: an edit goes to the file without being exported.
AfterFlush_NoExport(p) == IF proc[p].op = "save" THEN AfterWrite(proc[p].mode) ELSE "idle"

AfterFlush(p) == AfterWrite(proc[p].mode)

\* json.dump and close.  Where two processes have the file open at once, one
\* text overlays the other: it is this document, or no JSON at all.
Flush(p) ==
    /\ proc[p].pc = "flush"
    /\ LET c == proc[p].path
       IN  /\ \/ file' = [file EXCEPT ![c] = proc[p].record]
              \/ proc[p].clash /\ file' = [file EXCEPT ![c] = Torn]
           /\ noted' = IF proc[p].op = "owner"
                       THEN [noted EXCEPT ![c] = proc[p].record.owner] ELSE noted
    /\ proc' = [proc EXCEPT ![p] =
                  IF AfterFlush(p) = "idle" THEN Idle
                  ELSE [At(p, AfterFlush(p)) EXCEPT !.stored = TRUE, !.clash = FALSE]]
    /\ UNCHANGED <<artifacts, ops, faults, disturbed, bundleDisturbed>>

\* The write raises: a save logs it and exports, an edit returns None.
WriteFails(p) ==
    /\ proc[p].pc \in Writing
    /\ Fail
    /\ disturbed' = IF proc[p].pc = "flush" THEN disturbed \cup {proc[p].path} ELSE disturbed
    /\ MoveTo(p, IF proc[p].op = "save" THEN AfterWrite(proc[p].mode) ELSE "idle")
    /\ UNCHANGED <<file, artifacts, ops, noted, bundleDisturbed>>

-----------------------------------------------------------------------------
(* FileArtifactStore.export                                                *)

ExportMarkdown(p) ==
    /\ proc[p].pc = "markdown"
    /\ WriteMarkdown(proc[p].path, proc[p].record)
    /\ MoveTo(p, IF proc[p].mode.okf THEN "okf" ELSE "idle")
    /\ UNCHANGED <<file, okf, index, ops, faults, observed>>

\* Mutant: the index is rebuilt for new concepts only.
ExportConcept_NewOnly(p) ==
    /\ proc[p].pc = "okf"
    /\ WriteConcept(proc[p].path, proc[p].record)
    /\ bundleDisturbed' =
         (bundleDisturbed \/ \E q \in Procs \ {p} : proc[q].pc \in {"list", "index"})
    /\ MoveTo(p, IF okf[proc[p].path] = Absent THEN "list" ELSE "idle")
    /\ UNCHANGED <<file, markdown, index, ops, faults, noted, disturbed>>

ExportConcept(p) ==
    /\ proc[p].pc = "okf"
    /\ WriteConcept(proc[p].path, proc[p].record)
    /\ bundleDisturbed' =
         (bundleDisturbed \/ \E q \in Procs \ {p} : proc[q].pc \in {"list", "index"})
    /\ MoveTo(p, "list")
    /\ UNCHANGED <<file, markdown, index, ops, faults, noted, disturbed>>

ListBundle(p) ==
    /\ proc[p].pc = "list"
    /\ proc' = [proc EXCEPT ![p] = [At(p, "index") EXCEPT !.listing = Listing]]
    /\ UNCHANGED <<file, artifacts, ops, faults, observed>>

WriteIndex(p) ==
    /\ proc[p].pc = "index"
    /\ index' = proc[p].listing
    /\ MoveTo(p, "idle")
    /\ UNCHANGED <<file, markdown, okf, ops, faults, observed>>

\* The export raises, or the process is killed: the rest is not done.
Abort(p) ==
    /\ proc[p].pc # "idle"
    /\ Fail
    /\ disturbed' = IF proc[p].pc = "flush" THEN disturbed \cup {proc[p].path} ELSE disturbed
    /\ bundleDisturbed' = (bundleDisturbed \/ proc[p].pc \in {"list", "index"})
    /\ MoveTo(p, "idle")
    /\ UNCHANGED <<file, artifacts, ops, noted>>

-----------------------------------------------------------------------------
Next == \E p \in Procs :
    \/ Save(p) \/ SaveUnchanged(p) \/ Patch(p)
    \/ Open(p) \/ Flush(p) \/ WriteFails(p)
    \/ ExportMarkdown(p) \/ ExportConcept(p) \/ ListBundle(p) \/ WriteIndex(p)
    \/ Abort(p)

Spec == Init /\ [][Next]_vars

-----------------------------------------------------------------------------
(* Properties                                                              *)

ProcessesOK ==
    /\ DOMAIN proc = Procs
    /\ \A p \in Procs :
          /\ proc[p].pc \in {"idle"} \cup Writing \cup Exporting
          /\ proc[p].pc # "idle" => proc[p].path \in Paths /\ proc[p].record \in Records

\* Every variable has its type, and a process that is not idle has a path and a
\* whole record to write or to export.
StoreTypeOK ==
    /\ file \in [Paths -> Records \cup {Absent, Torn}]
    /\ ArtifactsOK /\ ProcessesOK
    /\ ops \in 0..MaxOps /\ faults \in 0..MaxFaults
    /\ noted \in [Paths -> Owners \cup {NoOwner}]
    /\ disturbed \subseteq Paths /\ bundleDisturbed \in BOOLEAN

Undisturbed(c) == c \notin disturbed

HasOpen(p, c) == proc[p].pc = "flush" /\ proc[p].path = c

\* A document can be read whenever nobody is writing it, unless two operations
\* overlapped on it or a write was cut (storage.py:198-204, 306-312).
Readable == \A c \in Paths :
    Undisturbed(c) /\ file[c] = Torn => \E p \in Procs : HasOpen(p, c)

\* The owner that the last edit gave stays in the document through all later scans
\* (storage.py:176-196), unless operations overlapped or a write was cut.
AnnotationsKept == \A c \in Paths :
    Undisturbed(c) /\ file[c] \in Records => file[c].owner = noted[c]

\* README.md:165 has no such condition.
AnnotationsNeverLost == \A c \in Paths : file[c] \in Records => file[c].owner = noted[c]

\* An operation has ended, without an error or a crash.
Ended(p) == proc[p].pc # "idle" /\ proc'[p].pc = "idle" /\ faults' = faults

\* When an operation that stored its document and exports both formats ends, and
\* no other met it, the exports are those of the stored document: an edit, too,
\* is exported, and an unchanged document is (storage.py:170-174, 206, 314).
ExportsAgree ==
    [][\A p \in Procs :
         /\ Ended(p) /\ proc[p].alone
         /\ proc[p].stored \/ proc[p].pc = "flush"
         /\ proc[p].mode.markdown /\ proc[p].mode.okf
         => LET c == proc[p].path
            IN  markdown'[c] = MarkdownView(file'[c]) /\ okf'[c] = OkfView(file'[c])]_vars

\* With no export under way, the index lists every concept with its present
\* description, unless two exports overlapped or one was cut
\* (artifact_store.py:45-63, 74-78).
IndexComplete ==
    (\A p \in Procs : proc[p].pc \notin {"list", "index"}) /\ ~bundleDisturbed
        => index = Listing

\* README.md:95 has no such condition: the index is maintained automatically.
IndexMaintained ==
    (\A p \in Procs : proc[p].pc = "idle") /\ faults = 0 => index = Listing

\* The document of each path, as soon as its write has begun.
Doc(c) ==
    IF c \in disturbed THEN Unknown
    ELSE IF \E p \in Procs : HasOpen(p, c)
    THEN proc[CHOOSE p \in Procs : HasOpen(p, c)].record
    ELSE file[c]

docs == [c \in Paths |-> Doc(c)]

Docs == INSTANCE MetadataDocs

\* Undisturbed, the store is the document store that MetadataDocs describes.
ImplementsDocs == Docs!Spec
=============================================================================
