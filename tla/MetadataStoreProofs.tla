------------------------ MODULE MetadataStoreProofs ------------------------
(***************************************************************************)
(* Theorems about MetadataStore, for any number of processes, paths,       *)
(* operations and faults.                                                  *)
(***************************************************************************)
EXTENDS MetadataStore, TLAPS

Labels == {"idle"} \cup Writing \cup Exporting

Listings == [Paths -> Ais \cup {NoAi, Absent}]

ProcState ==
    [pc : Labels, op : {"save", "owner", "edit"}, path : Paths \cup {Absent},
     record : Records \cup {Absent}, mode : AllModes, listing : Listings \cup {Absent},
     stored : BOOLEAN, clash : BOOLEAN, alone : BOOLEAN]

\* StoreTypeOK, with all of the local state of a process.
Shape ==
    /\ file \in [Paths -> Records \cup {Absent, Torn}]
    /\ ArtifactsOK
    /\ proc \in [Procs -> ProcState]
    /\ \A p \in Procs : proc[p].pc # "idle" => proc[p].path \in Paths /\ proc[p].record \in Records
    /\ \A p \in Procs : proc[p].pc = "index" => proc[p].listing \in Listings
    /\ ops \in 0..MaxOps /\ faults \in 0..MaxFaults
    /\ noted \in [Paths -> Owners \cup {NoOwner}]
    /\ disturbed \subseteq Paths /\ bundleDisturbed \in BOOLEAN

(***************************************************************************)
(* The invariant of an undisturbed document: at most one process is about  *)
(* to write it, with a record made of what the file has; the file is torn  *)
(* exactly while that process has it open; and the owner is the one noted. *)
(***************************************************************************)
Writer(p, c) == proc[p].pc \in Writing /\ proc[p].path = c

\* An edit makes the record r of the document d.
Edits(d, r) == d \in Records /\ r \in Records /\ (r.ai = NoAi => d.ai = NoAi)

\* The record r is what the operation makes of the document d.
Makes(op, d, r) ==
    \/ /\ op = "save" /\ d = Absent
       /\ \E s \in Schemas, a \in Ais \cup {NoAi} :
             r = [schema |-> s, ai |-> a, owner |-> NoOwner]
    \/ /\ op = "save" /\ d \in Records
       /\ \E s \in Schemas, a \in Ais \cup {NoAi} :
             r = [schema |-> s, ai |-> IF a = NoAi THEN d.ai ELSE a, owner |-> d.owner]
    \/ op = "owner" /\ Edits(d, r) /\ r.owner \in Owners
    \/ op = "edit" /\ Edits(d, r) /\ r.owner = d.owner

OneWriter(c) == \A p, q \in Procs : Writer(p, c) /\ Writer(q, c) => p = q

OpenOK(p, c) ==
    proc[p].pc = "open" /\ proc[p].path = c => Makes(proc[p].op, file[c], proc[p].record)

FlushOK(p, c) ==
    HasOpen(p, c) => /\ file[c] = Torn /\ proc[p].clash = FALSE
                     /\ proc[p].op # "owner" => proc[p].record.owner = noted[c]

FileOK(c) ==
    /\ file[c] = Torn => \E p \in Procs : HasOpen(p, c)
    /\ file[c] \in Records => file[c].owner = noted[c]
    /\ file[c] = Absent => noted[c] = NoOwner

DocOK(c) ==
    Undisturbed(c) => /\ OneWriter(c) /\ FileOK(c)
                      /\ \A p \in Procs : OpenOK(p, c) /\ FlushOK(p, c)

(***************************************************************************)
(* The invariant of an undisturbed bundle: at most one process is between  *)
(* its concept and the index, and what it has listed is still so.          *)
(***************************************************************************)
Indexing(p) == proc[p].pc \in {"list", "index"}

BundleOK ==
    ~bundleDisturbed =>
        /\ \A p, q \in Procs : Indexing(p) /\ Indexing(q) => p = q
        /\ \A p \in Procs : proc[p].pc = "index" => proc[p].listing = Listing
        /\ (\A p \in Procs : ~Indexing(p)) => index = Listing

StoreInv == Shape /\ (\A c \in Paths : DocOK(c)) /\ BundleOK

-----------------------------------------------------------------------------
LEMMA IdleType == Idle \in ProcState
  BY DEF Idle, ProcState, Labels, AllModes

LEMMA InitStore == Init => StoreInv
<1> SUFFICES ASSUME Init PROVE StoreInv
  OBVIOUS
<1> USE StoreAssumption, ValuesAssumption DEF Init
<1>1. \A p \in Procs : proc[p] = Idle /\ proc[p].pc = "idle"
  BY DEF Idle
<1>2. ArtifactsOK
  BY DEF ArtifactsInit, ArtifactsOK
<1>3. Shape
  <2>1. proc \in [Procs -> ProcState]
    BY IdleType
  <2>2. /\ file \in [Paths -> Records \cup {Absent, Torn}]
        /\ noted \in [Paths -> Owners \cup {NoOwner}]
    OBVIOUS
  <2>3. ops \in 0..MaxOps /\ faults \in 0..MaxFaults
    OBVIOUS
  <2>4. disturbed \subseteq Paths /\ bundleDisturbed \in BOOLEAN
    OBVIOUS
  <2>5. \A p \in Procs : proc[p].pc # "index"
    BY <1>1
  <2> QED
    BY <1>1, <1>2, <2>1, <2>2, <2>3, <2>4, <2>5 DEF Shape
<1>4. ASSUME NEW c \in Paths PROVE DocOK(c)
  BY <1>1 DEF DocOK, OneWriter, Writer, Writing, FileOK, OpenOK, FlushOK, HasOpen
<1>5. index = Listing
  BY DEF ArtifactsInit, Listing
<1>6. BundleOK
  BY <1>1, <1>5 DEF BundleOK, Indexing
<1> QED
  BY <1>3, <1>4, <1>6 DEF StoreInv

\* What a process keeps on its way.
Goes(p) == proc'[p].mode = proc[p].mode /\ proc'[p].alone = proc[p].alone

\* A process on its way between labels.
LEMMA Moves ==
    ASSUME Shape, NEW p \in Procs, proc[p].pc # "idle",
           NEW label \in Labels, label # "index", MoveTo(p, label)
    PROVE  /\ proc' \in [Procs -> ProcState] /\ proc'[p].pc = label
           /\ label # "idle" => /\ proc'[p].path = proc[p].path /\ proc'[p].record = proc[p].record
                                /\ proc'[p].stored = proc[p].stored
                                /\ proc'[p].clash = proc[p].clash /\ Goes(p)
           /\ \A q \in Procs \ {p} : proc'[q] = proc[q]
           /\ \A q \in Procs : proc'[q].pc # "idle" =>
                 proc'[q].path \in Paths /\ proc'[q].record \in Records
           /\ \A q \in Procs : proc'[q].pc = "index" => proc'[q].listing \in Listings
<1>1. proc[p] \in ProcState
  BY DEF Shape
<1>2. CASE label = "idle"
  <2>1. proc' = [proc EXCEPT ![p] = Idle]
    BY <1>2 DEF MoveTo
  <2>2. Idle.pc = "idle"
    BY DEF Idle
  <2> QED
    BY <1>2, <2>1, <2>2, IdleType DEF Shape
<1>3. CASE label # "idle"
  <2> DEFINE s == [proc[p] EXCEPT !.pc = label]
  <2>1. proc' = [proc EXCEPT ![p] = s]
    BY <1>3 DEF MoveTo, At
  <2>2. s \in ProcState /\ s.pc = label /\ s.path = proc[p].path /\ s.record = proc[p].record
    BY <1>1 DEF ProcState
  <2>3. /\ s.stored = proc[p].stored /\ s.clash = proc[p].clash
        /\ s.mode = proc[p].mode /\ s.alone = proc[p].alone
    BY <1>1 DEF ProcState
  <2> HIDE DEF s
  <2> QED
    BY <1>3, <2>1, <2>2, <2>3 DEF Shape, Goes
<1> QED
  BY <1>2, <1>3

\* What a step at process p has to do with an undisturbed document c when it
\* neither writes the file nor takes up a write.
LEMMA DocFrame ==
    ASSUME Shape, NEW c \in Paths, DocOK(c), NEW p \in Procs,
           Undisturbed(c)' => Undisturbed(c),
           file'[c] = file[c], noted'[c] = noted[c],
           ~Undisturbed(c)' \/ ~HasOpen(p, c),
           proc'[p].pc \notin Writing \/ proc'[p].path # c,
           \A q \in Procs \ {p} :
              /\ proc'[q].pc = proc[q].pc /\ proc'[q].path = proc[q].path
              /\ proc'[q].op = proc[q].op /\ proc'[q].record = proc[q].record
              /\ proc[q].path = c => proc'[q].clash = proc[q].clash
    PROVE  DocOK(c)'
<1> SUFFICES ASSUME Undisturbed(c)'
             PROVE  OneWriter(c)' /\ FileOK(c)' /\ \A q \in Procs : OpenOK(q, c)' /\ FlushOK(q, c)'
  BY DEF DocOK
<1>1. OneWriter(c) /\ FileOK(c) /\ \A q \in Procs : OpenOK(q, c) /\ FlushOK(q, c)
  BY DEF DocOK
<1>2. ~Writer(p, c)' /\ ~HasOpen(p, c)'
  BY DEF Writer, HasOpen, Writing
<1>3. \A q \in Procs \ {p} : /\ Writer(q, c)' <=> Writer(q, c)
                             /\ HasOpen(q, c)' <=> HasOpen(q, c)
  BY DEF Writer, HasOpen
<1>4. OneWriter(c)'
  BY <1>1, <1>2, <1>3 DEF OneWriter
<1>5. FileOK(c)'
  BY <1>1, <1>3 DEF FileOK
<1>6. ASSUME NEW q \in Procs PROVE OpenOK(q, c)' /\ FlushOK(q, c)'
  <2>1. CASE q = p
    BY <1>2, <2>1 DEF OpenOK, FlushOK, Writer, Writing
  <2>2. CASE q # p
    BY <1>1, <1>3, <2>2 DEF OpenOK, FlushOK, HasOpen
  <2> QED
    BY <2>1, <2>2
<1> QED
  BY <1>4, <1>5, <1>6

\* What the other processes keep.
Keeps(q) ==
    /\ proc'[q].pc = proc[q].pc /\ proc'[q].path = proc[q].path
    /\ proc'[q].op = proc[q].op /\ proc'[q].record = proc[q].record
    /\ proc'[q].listing = proc[q].listing
    /\ proc'[q].mode = proc[q].mode /\ proc'[q].stored = proc[q].stored
    /\ proc'[q].alone \in {proc[q].alone, FALSE}

\* The bundle is not touched by a step of a process that is not indexing.
LEMMA BundleFrame ==
    ASSUME BundleOK, NEW p \in Procs, UNCHANGED <<okf, index, bundleDisturbed>>,
           \A q \in Procs \ {p} : proc'[q].pc = proc[q].pc /\ proc'[q].listing = proc[q].listing,
           ~Indexing(p), ~Indexing(p)'
    PROVE  BundleOK'
<1>1. Listing' = Listing
  BY DEF Listing
<1>2. \A q \in Procs : Indexing(q)' <=> Indexing(q)
  BY DEF Indexing
<1>3. \A q \in Procs : proc'[q].pc = "index" =>
         proc[q].pc = "index" /\ proc'[q].listing = proc[q].listing
  BY DEF Indexing
<1> QED
  BY <1>1, <1>2, <1>3 DEF BundleOK

-----------------------------------------------------------------------------
(* An operation begins                                                     *)

\* What Begin makes of the processes.
Began(p, op, c, mode, record, label) ==
    /\ proc' \in [Procs -> ProcState]
    /\ proc'[p].pc = label /\ proc'[p].op = op /\ proc'[p].path = c
    /\ proc'[p].record = record /\ proc'[p].mode = mode
    /\ proc'[p].stored = TRUE => label # "open" /\ file[c] = record
    /\ proc'[p].clash = FALSE
    /\ proc'[p].alone = TRUE => OthersAt(p, c, Writing \cup Exporting) = {}
    /\ \A q \in Procs \ {p} : Keeps(q) /\ proc'[q].clash = proc[q].clash
    /\ \A q \in OthersAt(p, c, Writing \cup Exporting) : proc'[q].alone = FALSE

LEMMA BeginMoves ==
    ASSUME Shape, NEW p \in Procs, NEW op \in {"save", "owner", "edit"}, NEW c \in Paths,
           NEW mode \in AllModes, NEW record \in Records,
           NEW label \in {"open", "markdown", "okf"},
           Begin(p, op, c, mode, record, label)
    PROVE  Began(p, op, c, mode, record, label)
<1> DEFINE others == OthersAt(p, c, Writing \cup Exporting)
           calm == others = {}
           done == label # "open" /\ file[c] = record
           s == [Idle EXCEPT !.pc = label, !.op = op, !.path = c, !.mode = mode,
                             !.record = record, !.alone = calm, !.stored = done]
           r(q) == [proc[q] EXCEPT !.alone = proc[q].alone /\ q \notin others]
<1>1. proc' = [q \in Procs |-> IF q = p THEN s ELSE r(q)]
  BY DEF Begin
<1>2. calm \in BOOLEAN /\ done \in BOOLEAN
  OBVIOUS
<1> HIDE DEF calm, done
<1>3. label \in Labels
  BY DEF Labels, Writing, Exporting
<1>4. /\ s \in ProcState /\ s.pc = label /\ s.op = op /\ s.path = c /\ s.record = record
      /\ s.mode = mode /\ s.stored = done /\ s.alone = calm /\ s.clash = FALSE
  BY <1>2, <1>3, IdleType DEF ProcState, Idle
<1>5. ASSUME NEW q \in Procs
      PROVE  /\ r(q) \in ProcState /\ r(q).pc = proc[q].pc /\ r(q).path = proc[q].path
             /\ r(q).op = proc[q].op /\ r(q).record = proc[q].record
             /\ r(q).clash = proc[q].clash /\ r(q).listing = proc[q].listing
             /\ r(q).mode = proc[q].mode /\ r(q).stored = proc[q].stored
             /\ r(q).alone \in {proc[q].alone, FALSE}
             /\ q \in others => r(q).alone = FALSE
  <2> DEFINE b == proc[q].alone /\ q \notin others
  <2>1. b \in BOOLEAN /\ r(q) = [proc[q] EXCEPT !.alone = b]
    OBVIOUS
  <2>2. proc[q] \in ProcState
    BY DEF Shape
  <2>3. b \in {proc[q].alone, FALSE} /\ (q \in others => b = FALSE)
    BY <2>2 DEF ProcState
  <2> HIDE DEF b, r
  <2> QED
    BY <2>1, <2>2, <2>3 DEF ProcState
<1>6. \A q \in others : q \in Procs \ {p}
  BY DEF OthersAt
<1>7. (done = TRUE => label # "open" /\ file[c] = record) /\ (calm = TRUE => others = {})
  BY DEF done, calm
<1> HIDE DEF s, r, others
<1>8. proc'[p] = s /\ \A q \in Procs \ {p} : proc'[q] = r(q)
  BY <1>1
<1>9. proc' \in [Procs -> ProcState]
  BY <1>1, <1>4, <1>5
<1>10. ASSUME NEW q \in Procs \ {p}
       PROVE  Keeps(q) /\ proc'[q].clash = proc[q].clash
  <2>1. proc'[q] = r(q)
    BY <1>8
  <2>2. /\ r(q).pc = proc[q].pc /\ r(q).path = proc[q].path /\ r(q).op = proc[q].op
        /\ r(q).record = proc[q].record /\ r(q).listing = proc[q].listing
        /\ r(q).mode = proc[q].mode /\ r(q).stored = proc[q].stored
        /\ r(q).alone \in {proc[q].alone, FALSE} /\ r(q).clash = proc[q].clash
    BY <1>5
  <2> QED
    BY <2>1, <2>2 DEF Keeps
<1>11. \A q \in others : proc'[q].alone = FALSE
  BY <1>5, <1>6, <1>8
<1> QED
  BY <1>4, <1>7, <1>8, <1>9, <1>10, <1>11 DEF others, Began

\* An operation that finds another one writing leaves the document disturbed;
\* otherwise it is the only writer, with what it makes of the file.
LEMMA BeginKeeps ==
    ASSUME StoreInv, NEW p \in Procs, proc[p].pc = "idle",
           NEW op \in {"save", "owner", "edit"}, NEW c \in Paths, NEW mode \in AllModes,
           NEW record \in Records, NEW label \in {"open", "markdown", "okf"},
           label = "open" /\ file[c] # Torn => Makes(op, file[c], record),
           Begin(p, op, c, mode, record, label)
    PROVE  StoreInv'
<1> DEFINE others == OthersAt(p, c, Writing)
<1>1. Shape /\ BundleOK /\ \A d \in Paths : DocOK(d)
  BY DEF StoreInv
<1>2. /\ proc' \in [Procs -> ProcState]
      /\ proc'[p].pc = label /\ proc'[p].op = op /\ proc'[p].path = c
      /\ proc'[p].record = record
      /\ \A q \in Procs \ {p} : Keeps(q) /\ proc'[q].clash = proc[q].clash
  <2>1. Began(p, op, c, mode, record, label)
    BY <1>1, BeginMoves
  <2> QED
    BY <2>1 DEF Began
<1>3. /\ UNCHANGED <<file, artifacts, faults, noted, bundleDisturbed>>
      /\ ops' \in 0..MaxOps
      /\ disturbed' = IF others # {} /\ label = "open" THEN disturbed \cup {c} ELSE disturbed
  <2>1. ops < MaxOps /\ ops' = ops + 1
    BY DEF Begin
  <2>2. ops \in 0..MaxOps /\ MaxOps \in Nat
    BY <1>1, StoreAssumption DEF Shape
  <2>3. ops' \in 0..MaxOps
    BY <2>1, <2>2
  <2> QED
    BY <2>3 DEF Begin
<1>4. Shape'
  <2>1. ArtifactsOK'
    BY <1>1, <1>3 DEF Shape, ArtifactsOK, artifacts
  <2>2. \A q \in Procs : proc'[q].pc # "idle" => proc'[q].path \in Paths /\ proc'[q].record \in Records
    BY <1>1, <1>2 DEF Shape, Keeps
  <2>3. \A q \in Procs : proc'[q].pc = "index" => proc'[q].listing \in Listings
    BY <1>1, <1>2 DEF Shape, Keeps
  <2> QED
    BY <1>1, <1>2, <1>3, <2>1, <2>2, <2>3 DEF Shape
<1>5. BundleOK'
  <2>1. ~Indexing(p) /\ ~Indexing(p)'
    BY <1>2 DEF Indexing
  <2> QED
    BY <1>1, <1>2, <1>3, <2>1, BundleFrame DEF Keeps, artifacts
<1>6. ~HasOpen(p, c) /\ ~Writer(p, c)
  BY DEF HasOpen, Writer, Writing
<1>7. ASSUME NEW d \in Paths, d # c \/ label # "open" PROVE DocOK(d)'
  <2>1. Undisturbed(d)' => Undisturbed(d)
    BY <1>3 DEF Undisturbed
  <2>2. proc'[p].pc \notin Writing \/ proc'[p].path # d
    BY <1>2, <1>7 DEF Writing
  <2>3. ~HasOpen(p, d)
    BY DEF HasOpen
  <2>4. file'[d] = file[d] /\ noted'[d] = noted[d]
    BY <1>3
  <2> QED
    BY <1>1, <1>2, <2>1, <2>2, <2>3, <2>4, DocFrame DEF Keeps
<1>8. ASSUME label = "open" PROVE DocOK(c)'
  <2>1. SUFFICES ASSUME Undisturbed(c)'
                 PROVE  OneWriter(c)' /\ FileOK(c)' /\ \A q \in Procs : OpenOK(q, c)' /\ FlushOK(q, c)'
    BY DEF DocOK
  <2>2. others = {} /\ Undisturbed(c)
    BY <1>3, <1>8, <2>1 DEF Undisturbed
  <2>3. \A q \in Procs : ~Writer(q, c) /\ ~HasOpen(q, c)
    BY <1>6, <2>2 DEF OthersAt, Writer, HasOpen, Writing
  <2>4. file[c] # Torn
    BY <1>1, <2>2, <2>3 DEF DocOK, FileOK
  <2>5. \A q \in Procs \ {p} : ~Writer(q, c)'
    BY <1>2, <2>3 DEF Writer, Keeps
  <2>6. ~HasOpen(p, c)'
    BY <1>2, <1>8 DEF HasOpen
  <2>7. \A q \in Procs : ~HasOpen(q, c)'
    BY <2>5, <2>6 DEF HasOpen, Writer, Writing
  <2>8. OneWriter(c)'
    BY <2>5 DEF OneWriter
  <2>9. FileOK(c)'
    BY <1>1, <1>3, <2>2, <2>4 DEF DocOK, FileOK
  <2>10. \A q \in Procs : FlushOK(q, c)'
    BY <2>7 DEF FlushOK
  <2>11. OpenOK(p, c)'
    BY <1>2, <1>3, <1>8, <2>4 DEF OpenOK
  <2>12. \A q \in Procs \ {p} : OpenOK(q, c)'
    BY <2>5 DEF OpenOK, Writer, Writing
  <2> QED
    BY <2>8, <2>9, <2>10, <2>11, <2>12
<1>9. \A d \in Paths : DocOK(d)'
  BY <1>7, <1>8
<1> QED
  BY <1>4, <1>5, <1>9 DEF StoreInv

LEMMA AfterWriteType ==
    ASSUME NEW mode \in AllModes
    PROVE  AfterWrite(mode) \in {"markdown", "okf", "idle"}
  BY DEF AfterWrite

LEMMA SaveUnchangedKeeps ==
    ASSUME StoreInv, NEW p \in Procs, SaveUnchanged(p)
    PROVE  StoreInv'
<1>1. PICK c \in Paths, mode \in Modes :
        /\ proc[p].pc = "idle" /\ Existing(c) # {} /\ AfterWrite(mode) # "idle"
        /\ Begin(p, "save", c, mode, file[c], AfterWrite(mode))
  BY DEF SaveUnchanged
<1>2. file[c] \in Records
  BY <1>1 DEF Existing
<1>3. mode \in AllModes /\ AfterWrite(mode) \in {"markdown", "okf"}
  BY <1>1, StoreAssumption, AfterWriteType
<1> QED
  BY <1>1, <1>2, <1>3, BeginKeeps

\* A save makes of an absent document a new one, and of a present one its own with
\* the schema, and the AI documentation if there is one.
LEMMA MergedMakes ==
    ASSUME Shape, NEW c \in Paths, NEW s \in Schemas, NEW a \in Ais \cup {NoAi}
    PROVE  /\ Merged(c, s, a) \in Records
           /\ file[c] # Torn => Makes("save", file[c], Merged(c, s, a))
<1>1. CASE file[c] \in Records
  <2> DEFINE m == [schema |-> s, ai |-> IF a = NoAi THEN file[c].ai ELSE a,
                   owner |-> file[c].owner]
  <2>1. Existing(c) # {}
    BY <1>1 DEF Existing
  <2>2. Merged(c, s, a) = m
    BY <2>1 DEF Merged
  <2>3. m \in Records
    BY <1>1 DEF Records
  <2> HIDE DEF m
  <2>4. Makes("save", file[c], m)
    BY <1>1 DEF Makes, m
  <2> QED
    BY <2>2, <2>3, <2>4
<1>2. CASE file[c] \notin Records
  <2>1. Existing(c) = {}
    BY <1>2 DEF Existing
  <2>2. Merged(c, s, a) = [schema |-> s, ai |-> a, owner |-> NoOwner]
    BY <2>1 DEF Merged
  <2>3. file[c] # Torn => file[c] = Absent
    BY <1>2 DEF Shape
  <2> QED
    BY <2>2, <2>3 DEF Makes, Records
<1> QED
  BY <1>1, <1>2

LEMMA SaveKeeps ==
    ASSUME StoreInv, NEW p \in Procs, Save(p)
    PROVE  StoreInv'
<1>1. PICK c \in Paths, mode \in Modes, s \in Schemas, a \in Ais \cup {NoAi} :
        /\ proc[p].pc = "idle"
        /\ Begin(p, "save", c, mode, Merged(c, s, a),
                 IF mode.save THEN "open" ELSE AfterWrite(mode))
  BY DEF Save
<1>2. /\ Merged(c, s, a) \in Records
      /\ file[c] # Torn => Makes("save", file[c], Merged(c, s, a))
  BY MergedMakes DEF StoreInv
<1>3. mode \in AllModes /\ (mode.save \/ AfterWrite(mode) \in {"markdown", "okf"})
  <2>1. mode \in AllModes /\ (mode.save \/ mode.markdown \/ mode.okf)
    BY StoreAssumption
  <2> QED
    BY <2>1 DEF AfterWrite
<1> DEFINE label == IF mode.save THEN "open" ELSE AfterWrite(mode)
<1>4. label \in {"open", "markdown", "okf"}
  BY <1>3
<1>5. Begin(p, "save", c, mode, Merged(c, s, a), label)
  BY <1>1
<1> HIDE DEF label
<1> QED
  BY <1>1, <1>2, <1>3, <1>4, <1>5, BeginKeeps

LEMMA PatchMakes ==
    ASSUME NEW p \in Procs, Patch(p)
    PROVE  \E c \in Paths, r \in Records, op \in {"owner", "edit"} :
              /\ proc[p].pc = "idle" /\ Makes(op, file[c], r)
              /\ Begin(p, op, c, Idle.mode, r, "open")
<1>1. PICK c \in Paths, r \in Records :
        /\ proc[p].pc = "idle" /\ Edits(file[c], r)
        /\ \/ r.owner \in Owners /\ Begin(p, "owner", c, Idle.mode, r, "open")
           \/ r.owner = file[c].owner /\ Begin(p, "edit", c, Idle.mode, r, "open")
  BY DEF Patch, Edits
<1>2. /\ r.owner \in Owners => Makes("owner", file[c], r)
      /\ r.owner = file[c].owner => Makes("edit", file[c], r)
  BY <1>1 DEF Makes
<1> QED
  BY <1>1, <1>2

LEMMA PatchKeeps ==
    ASSUME StoreInv, NEW p \in Procs, Patch(p)
    PROVE  StoreInv'
<1>1. PICK c \in Paths, r \in Records, op \in {"owner", "edit"} :
        /\ proc[p].pc = "idle" /\ Makes(op, file[c], r)
        /\ Begin(p, op, c, Idle.mode, r, "open")
  BY PatchMakes
<1>2. Idle.mode \in AllModes
  BY IdleType DEF ProcState
<1> QED
  BY <1>1, <1>2, BeginKeeps

-----------------------------------------------------------------------------
(* The write                                                               *)

\* Only an edit of the owner changes the owner.
LEMMA MakesOwner ==
    ASSUME NEW op, NEW d, NEW r, Makes(op, d, r), op # "owner"
    PROVE  \/ d = Absent /\ r.owner = NoOwner
           \/ d \in Records /\ r.owner = d.owner
<1>1. CASE \E s \in Schemas, a \in Ais \cup {NoAi} :
             r = [schema |-> s, ai |-> a, owner |-> NoOwner]
  <2>1. r.owner = NoOwner
    BY <1>1
  <2>2. CASE d = Absent
    BY <2>1, <2>2
  <2>3. CASE d # Absent
    BY <2>3 DEF Makes, Edits
  <2> QED
    BY <2>2, <2>3
<1>2. CASE d \in Records /\ \E s \in Schemas, a \in Ais \cup {NoAi} :
             r = [schema |-> s, ai |-> IF a = NoAi THEN d.ai ELSE a, owner |-> d.owner]
  BY <1>2
<1>3. CASE Edits(d, r) /\ r.owner = d.owner
  BY <1>3 DEF Edits
<1> QED
  BY <1>1, <1>2, <1>3 DEF Makes

LEMMA OpenMoves ==
    ASSUME Shape, NEW p \in Procs, Open(p)
    PROVE  /\ proc' \in [Procs -> ProcState]
           /\ proc'[p].pc = "flush"
           /\ proc'[p].path = proc[p].path /\ proc'[p].record = proc[p].record
           /\ proc'[p].op = proc[p].op /\ proc'[p].stored = proc[p].stored /\ Goes(p)
           /\ OthersAt(p, proc[p].path, {"flush"}) = {} => proc'[p].clash = FALSE
           /\ \A q \in Procs \ {p} :
                 /\ Keeps(q)
                 /\ proc[q].path # proc[p].path => proc'[q].clash = proc[q].clash
<1> DEFINE others == OthersAt(p, proc[p].path, {"flush"})
           met == others # {}
           s == [proc[p] EXCEPT !.pc = "flush", !.clash = met]
           r(q) == [proc[q] EXCEPT !.clash = proc[q].clash \/ q \in others]
<1>1. proc' = [q \in Procs |-> IF q = p THEN s ELSE r(q)]
  BY DEF Open
<1>2. met \in BOOLEAN /\ (others = {} => met = FALSE)
  OBVIOUS
<1> HIDE DEF met
<1>3. proc[p].pc = "open" /\ "flush" \in Labels
  BY DEF Open, Labels, Writing
<1>4. /\ s \in ProcState /\ s.pc = "flush" /\ s.path = proc[p].path
      /\ s.record = proc[p].record /\ s.op = proc[p].op /\ s.clash = met
      /\ s.stored = proc[p].stored /\ s.mode = proc[p].mode /\ s.alone = proc[p].alone
  BY <1>2, <1>3 DEF ProcState, Shape
<1>5. ASSUME NEW q \in Procs
      PROVE  /\ r(q) \in ProcState /\ r(q).pc = proc[q].pc /\ r(q).path = proc[q].path
             /\ r(q).op = proc[q].op /\ r(q).record = proc[q].record
             /\ r(q).listing = proc[q].listing /\ r(q).alone = proc[q].alone
             /\ r(q).mode = proc[q].mode /\ r(q).stored = proc[q].stored
             /\ q \notin others => r(q).clash = proc[q].clash
  <2> DEFINE b == proc[q].clash \/ q \in others
  <2>1. b \in BOOLEAN /\ r(q) = [proc[q] EXCEPT !.clash = b]
    OBVIOUS
  <2>2. proc[q] \in ProcState
    BY DEF Shape
  <2>3. q \notin others => b = proc[q].clash
    BY <2>2 DEF ProcState
  <2> HIDE DEF b, r
  <2> QED
    BY <2>1, <2>2, <2>3 DEF ProcState
<1>6. \A q \in Procs : proc[q].path # proc[p].path => q \notin others
  BY DEF OthersAt
<1> HIDE DEF s, r
<1>7. proc'[p] = s /\ \A q \in Procs \ {p} : proc'[q] = r(q)
  BY <1>1
<1>8. proc' \in [Procs -> ProcState]
  BY <1>1, <1>4, <1>5
<1>9. ASSUME NEW q \in Procs \ {p}
      PROVE  /\ Keeps(q)
             /\ proc[q].path # proc[p].path => proc'[q].clash = proc[q].clash
  <2>1. proc'[q] = r(q)
    BY <1>7
  <2>2. /\ r(q).pc = proc[q].pc /\ r(q).path = proc[q].path /\ r(q).op = proc[q].op
        /\ r(q).record = proc[q].record /\ r(q).listing = proc[q].listing
        /\ r(q).mode = proc[q].mode /\ r(q).stored = proc[q].stored
        /\ r(q).alone = proc[q].alone
        /\ q \notin others => r(q).clash = proc[q].clash
    BY <1>5
  <2>3. proc[q].path # proc[p].path => q \notin others
    BY <1>6
  <2> QED
    BY <2>1, <2>2, <2>3 DEF Keeps
<1> QED
  BY <1>2, <1>4, <1>7, <1>8, <1>9 DEF Goes

\* The only writer empties the file: what it is about to write keeps the owner.
LEMMA OpenKeeps ==
    ASSUME StoreInv, NEW p \in Procs, Open(p)
    PROVE  StoreInv'
<1>1. Shape /\ BundleOK /\ \A d \in Paths : DocOK(d)
  BY DEF StoreInv
<1>c. PICK c \in Paths : c = proc[p].path
  BY <1>1 DEF Open, Shape
<1>2. proc[p].pc = "open" /\ proc[p].path = c /\ proc[p].record \in Records
  BY <1>1, <1>c DEF Open, Shape
<1>3. /\ proc' \in [Procs -> ProcState] /\ proc'[p].pc = "flush"
      /\ proc'[p].path = c /\ proc'[p].record = proc[p].record /\ proc'[p].op = proc[p].op
      /\ OthersAt(p, c, {"flush"}) = {} => proc'[p].clash = FALSE
      /\ \A q \in Procs \ {p} : /\ Keeps(q)
                                /\ proc[q].path # c => proc'[q].clash = proc[q].clash
  BY <1>1, <1>2, OpenMoves
<1>4. /\ file' = [file EXCEPT ![c] = Torn]
      /\ UNCHANGED <<artifacts, ops, faults, noted, disturbed, bundleDisturbed>>
  BY <1>2 DEF Open, observed
<1>5. Shape'
  <2>1. ArtifactsOK'
    BY <1>1, <1>4 DEF Shape, ArtifactsOK, artifacts
  <2>2. \A q \in Procs : proc'[q].pc # "idle" => proc'[q].path \in Paths /\ proc'[q].record \in Records
    BY <1>1, <1>2, <1>3 DEF Shape, Keeps
  <2>3. \A q \in Procs : proc'[q].pc = "index" => proc'[q].listing \in Listings
    BY <1>1, <1>3 DEF Shape, Keeps
  <2>4. file' \in [Paths -> Records \cup {Absent, Torn}]
    BY <1>1, <1>4 DEF Shape
  <2> QED
    BY <1>1, <1>3, <1>4, <2>1, <2>2, <2>3, <2>4 DEF Shape
<1>6. BundleOK'
  <2>1. ~Indexing(p) /\ ~Indexing(p)'
    BY <1>2, <1>3 DEF Indexing
  <2> QED
    BY <1>1, <1>3, <1>4, <2>1, BundleFrame DEF Keeps, artifacts
<1>7. ASSUME NEW d \in Paths \ {c} PROVE DocOK(d)'
  <2>1. file'[d] = file[d] /\ noted'[d] = noted[d] /\ (Undisturbed(d)' => Undisturbed(d))
    BY <1>1, <1>4 DEF Shape, Undisturbed
  <2>2. proc'[p].path # d /\ ~HasOpen(p, d)
    BY <1>2, <1>3 DEF HasOpen
  <2>3. \A q \in Procs \ {p} : proc[q].path = d => proc'[q].clash = proc[q].clash
    BY <1>3
  <2> QED
    BY <1>1, <1>3, <2>1, <2>2, <2>3, DocFrame DEF Keeps
<1>8. DocOK(c)'
  <2>1. SUFFICES ASSUME Undisturbed(c)
                 PROVE  OneWriter(c)' /\ FileOK(c)' /\ \A q \in Procs : OpenOK(q, c)' /\ FlushOK(q, c)'
    BY <1>3, <1>4 DEF DocOK, Undisturbed
  <2>2. OneWriter(c) /\ FileOK(c) /\ OpenOK(p, c)
    BY <1>1, <1>2, <2>1 DEF DocOK
  <2>3. Writer(p, c)
    BY <1>2 DEF Writer, Writing
  <2>4. \A q \in Procs \ {p} : ~Writer(q, c)
    BY <2>2, <2>3 DEF OneWriter
  <2>5. \A q \in Procs \ {p} : ~Writer(q, c)'
    BY <1>3, <1>4, <2>4 DEF Writer, Keeps
  <2>6. HasOpen(p, c)'
    BY <1>3 DEF HasOpen
  <2>7. OneWriter(c)'
    BY <2>5 DEF OneWriter
  <2>8. file'[c] = Torn /\ noted'[c] = noted[c]
    BY <1>1, <1>2, <1>4 DEF Shape
  <2>9. FileOK(c)'
    BY <2>6, <2>8, StoreAssumption DEF FileOK
  <2>10. \A q \in Procs \ {p} : OpenOK(q, c)' /\ FlushOK(q, c)'
    BY <2>5 DEF OpenOK, FlushOK, HasOpen, Writer, Writing
  <2>11. proc'[p].clash = FALSE
    <3>1. OthersAt(p, c, {"flush"}) = {}
      BY <2>4 DEF OthersAt, Writer, Writing
    <3> QED
      BY <1>3, <3>1
  <2>12. proc[p].op # "owner" => proc[p].record.owner = noted[c]
    <3>1. Makes(proc[p].op, file[c], proc[p].record)
      BY <1>2, <2>2 DEF OpenOK
    <3> QED
      BY <2>2, <3>1, MakesOwner DEF FileOK
  <2>13. OpenOK(p, c)' /\ FlushOK(p, c)'
    BY <1>3, <2>8, <2>11, <2>12 DEF OpenOK, FlushOK
  <2> QED
    BY <2>7, <2>9, <2>10, <2>13
<1>9. \A d \in Paths : DocOK(d)'
  BY <1>7, <1>8
<1> QED
  BY <1>5, <1>6, <1>9 DEF StoreInv

LEMMA FlushMoves ==
    ASSUME Shape, NEW p \in Procs, Flush(p)
    PROVE  /\ proc' \in [Procs -> ProcState]
           /\ proc'[p].pc \in {"markdown", "okf", "idle"}
           /\ proc'[p].pc = AfterWrite(proc[p].mode)
           /\ proc'[p].pc # "idle" => /\ proc'[p].path = proc[p].path
                                      /\ proc'[p].record = proc[p].record
                                      /\ proc'[p].clash = FALSE /\ Goes(p)
           /\ \A q \in Procs \ {p} : proc'[q] = proc[q]
<1> DEFINE label == AfterFlush(p)
           s == [proc[p] EXCEPT !.pc = label, !.stored = TRUE, !.clash = FALSE]
<1>1. proc[p] \in ProcState
  BY DEF Shape
<1>2. label \in {"markdown", "okf", "idle"}
  BY <1>1, AfterWriteType DEF AfterFlush, ProcState
<1>3. CASE label = "idle"
  <2>1. proc' = [proc EXCEPT ![p] = Idle]
    BY <1>3 DEF Flush
  <2>2. Idle.pc = "idle"
    BY DEF Idle
  <2> QED
    BY <1>3, <2>1, <2>2, IdleType DEF Shape, AfterFlush
<1>4. CASE label # "idle"
  <2>1. proc' = [proc EXCEPT ![p] = s]
    BY <1>4 DEF Flush, At
  <2>4. label = AfterWrite(proc[p].mode)
    BY DEF AfterFlush
  <2>2. label \in Labels
    BY <1>2 DEF Labels, Exporting
  <2> HIDE DEF label
  <2>3. /\ s \in ProcState /\ s.pc = label /\ s.path = proc[p].path /\ s.record = proc[p].record
        /\ s.clash = FALSE /\ s.mode = proc[p].mode /\ s.alone = proc[p].alone
    BY <1>1, <2>2 DEF ProcState
  <2> HIDE DEF s
  <2> QED
    BY <1>2, <2>1, <2>3, <2>4 DEF Shape, Goes
<1> QED
  BY <1>3, <1>4

\* The only writer of an undisturbed document closes it: the file has its record, and
\* nobody else is about to write.
LEMMA FlushKeeps ==
    ASSUME StoreInv, NEW p \in Procs, Flush(p)
    PROVE  StoreInv'
<1>1. Shape /\ BundleOK /\ \A d \in Paths : DocOK(d)
  BY DEF StoreInv
<1>c. PICK c \in Paths : c = proc[p].path
  BY <1>1 DEF Flush, Shape
<1>2. proc[p].pc = "flush" /\ proc[p].path = c /\ proc[p].record \in Records
  BY <1>1, <1>c DEF Flush, Shape
<1>3. /\ proc' \in [Procs -> ProcState]
      /\ proc'[p].pc \in {"markdown", "okf", "idle"}
      /\ proc'[p].pc # "idle" => proc'[p].path = proc[p].path /\ proc'[p].record = proc[p].record
      /\ \A q \in Procs \ {p} : proc'[q] = proc[q]
  BY <1>1, FlushMoves
<1>4. /\ \/ file' = [file EXCEPT ![c] = proc[p].record]
         \/ proc[p].clash /\ file' = [file EXCEPT ![c] = Torn]
      /\ noted' = IF proc[p].op = "owner" THEN [noted EXCEPT ![c] = proc[p].record.owner]
                  ELSE noted
      /\ UNCHANGED <<artifacts, ops, faults, disturbed, bundleDisturbed>>
  BY <1>2 DEF Flush
<1>5. Shape'
  <2>1. ArtifactsOK'
    BY <1>1, <1>4 DEF Shape, ArtifactsOK, artifacts
  <2>2. \A q \in Procs : proc'[q].pc # "idle" => proc'[q].path \in Paths /\ proc'[q].record \in Records
    BY <1>1, <1>2, <1>3 DEF Shape
  <2>3. \A q \in Procs : proc'[q].pc = "index" => proc'[q].listing \in Listings
    BY <1>1, <1>3 DEF Shape
  <2>4. file' \in [Paths -> Records \cup {Absent, Torn}]
    BY <1>1, <1>2, <1>4 DEF Shape
  <2>5. noted' \in [Paths -> Owners \cup {NoOwner}]
    <3>1. proc[p].record.owner \in Owners \cup {NoOwner}
      BY <1>2 DEF Records
    <3> QED
      BY <1>1, <1>4, <3>1 DEF Shape
  <2> QED
    BY <1>1, <1>3, <1>4, <2>1, <2>2, <2>3, <2>4, <2>5 DEF Shape
<1>6. BundleOK'
  <2>1. ~Indexing(p) /\ ~Indexing(p)'
    BY <1>2, <1>3 DEF Indexing
  <2> QED
    BY <1>1, <1>3, <1>4, <2>1, BundleFrame DEF artifacts
<1>7. ASSUME NEW d \in Paths \ {c} PROVE DocOK(d)'
  <2>1. file'[d] = file[d] /\ noted'[d] = noted[d] /\ (Undisturbed(d)' => Undisturbed(d))
    BY <1>1, <1>4 DEF Shape, Undisturbed
  <2>2. proc'[p].pc \notin Writing /\ ~HasOpen(p, d)
    BY <1>2, <1>3 DEF HasOpen, Writing
  <2> QED
    BY <1>1, <1>3, <2>1, <2>2, DocFrame
<1>8. DocOK(c)'
  <2>1. SUFFICES ASSUME Undisturbed(c)
                 PROVE  OneWriter(c)' /\ FileOK(c)' /\ \A q \in Procs : OpenOK(q, c)' /\ FlushOK(q, c)'
    BY <1>4 DEF DocOK, Undisturbed
  <2>2. OneWriter(c) /\ FileOK(c) /\ FlushOK(p, c) /\ HasOpen(p, c)
    BY <1>1, <1>2, <2>1 DEF DocOK, HasOpen
  <2>3. \A q \in Procs : ~Writer(q, c)'
    <3>1. \A q \in Procs \ {p} : ~Writer(q, c)
      BY <1>2, <2>2 DEF OneWriter, Writer, Writing
    <3>2. ~Writer(p, c)'
      BY <1>3 DEF Writer, Writing
    <3> QED
      BY <1>3, <3>1, <3>2 DEF Writer
  <2>4. file'[c] = proc[p].record /\ proc[p].record \notin {Absent, Torn}
    BY <1>1, <1>2, <1>4, <2>2, StoreAssumption DEF Shape, FlushOK
  <2>5. noted'[c] = proc[p].record.owner
    <3>1. CASE proc[p].op = "owner"
      BY <1>1, <1>4, <3>1 DEF Shape
    <3>2. CASE proc[p].op # "owner"
      BY <1>4, <2>2, <3>2 DEF FlushOK
    <3> QED
      BY <3>1, <3>2
  <2>6. FileOK(c)'
    BY <2>4, <2>5 DEF FileOK
  <2> QED
    BY <2>3, <2>6 DEF OneWriter, OpenOK, FlushOK, HasOpen, Writer, Writing
<1>9. \A d \in Paths : DocOK(d)'
  BY <1>7, <1>8
<1> QED
  BY <1>5, <1>6, <1>9 DEF StoreInv

-----------------------------------------------------------------------------
(* Steps that leave the files of the documents alone                       *)

\* A process that gives up a write it has begun leaves the document disturbed.
LEMMA QuietDocs ==
    ASSUME Shape, \A d \in Paths : DocOK(d), NEW p \in Procs,
           UNCHANGED <<file, noted>>, disturbed \subseteq disturbed',
           proc[p].pc = "flush" => proc[p].path \in disturbed',
           proc'[p].pc \notin Writing,
           \A q \in Procs \ {p} : proc'[q] = proc[q]
    PROVE  \A d \in Paths : DocOK(d)'
<1> SUFFICES ASSUME NEW d \in Paths PROVE DocOK(d)'
  OBVIOUS
<1>1. Undisturbed(d)' => Undisturbed(d)
  BY DEF Undisturbed
<1>2. ~Undisturbed(d)' \/ ~HasOpen(p, d)
  BY DEF Undisturbed, HasOpen
<1>3. file'[d] = file[d] /\ noted'[d] = noted[d]
  OBVIOUS
<1> QED
  BY <1>1, <1>2, <1>3, DocFrame

LEMMA FailType ==
    ASSUME Shape, Fail
    PROVE  faults' \in 0..MaxFaults
<1>1. faults < MaxFaults /\ faults' = faults + 1
  BY DEF Fail
<1>2. faults \in 0..MaxFaults /\ MaxFaults \in Nat
  BY StoreAssumption DEF Shape
<1> QED
  BY <1>1, <1>2

LEMMA WriteFailsKeeps ==
    ASSUME StoreInv, NEW p \in Procs, WriteFails(p)
    PROVE  StoreInv'
<1> DEFINE label == IF proc[p].op = "save" THEN AfterWrite(proc[p].mode) ELSE "idle"
<1>1. Shape /\ BundleOK /\ \A d \in Paths : DocOK(d)
  BY DEF StoreInv
<1>2. /\ proc[p].pc \in Writing /\ Fail /\ MoveTo(p, label)
      /\ disturbed' = IF proc[p].pc = "flush" THEN disturbed \cup {proc[p].path} ELSE disturbed
      /\ UNCHANGED <<file, artifacts, ops, noted, bundleDisturbed>>
  BY DEF WriteFails
<1>3. label \in {"markdown", "okf", "idle"}
  BY <1>1, AfterWriteType DEF Shape, ProcState
<1> HIDE DEF label
<1>4. proc[p].pc # "idle" /\ label \in Labels /\ label # "index"
  BY <1>2, <1>3 DEF Writing, Labels, Exporting
<1>5. /\ proc' \in [Procs -> ProcState] /\ proc'[p].pc = label
      /\ \A q \in Procs \ {p} : proc'[q] = proc[q]
      /\ \A q \in Procs : proc'[q].pc # "idle" =>
            proc'[q].path \in Paths /\ proc'[q].record \in Records
      /\ \A q \in Procs : proc'[q].pc = "index" => proc'[q].listing \in Listings
  BY <1>1, <1>2, <1>4, Moves
<1>6. Shape'
  <2>1. ArtifactsOK'
    BY <1>1, <1>2 DEF Shape, ArtifactsOK, artifacts
  <2>2. faults' \in 0..MaxFaults
    BY <1>1, <1>2, FailType
  <2>3. disturbed' \subseteq Paths
    BY <1>1, <1>2, <1>4 DEF Shape
  <2> QED
    BY <1>1, <1>2, <1>5, <2>1, <2>2, <2>3 DEF Shape
<1>7. BundleOK'
  <2>1. ~Indexing(p) /\ ~Indexing(p)'
    BY <1>2, <1>3, <1>5 DEF Indexing, Writing
  <2> QED
    BY <1>1, <1>2, <1>5, <2>1, BundleFrame DEF artifacts
<1>8. \A d \in Paths : DocOK(d)'
  <2>1. disturbed \subseteq disturbed' /\ (proc[p].pc = "flush" => proc[p].path \in disturbed')
    BY <1>2
  <2>2. proc'[p].pc \notin Writing
    BY <1>3, <1>5 DEF Writing
  <2> QED
    BY <1>1, <1>2, <1>5, <2>1, <2>2, QuietDocs
<1> QED
  BY <1>6, <1>7, <1>8 DEF StoreInv

LEMMA AbortKeeps ==
    ASSUME StoreInv, NEW p \in Procs, Abort(p)
    PROVE  StoreInv'
<1>1. Shape /\ BundleOK /\ \A d \in Paths : DocOK(d)
  BY DEF StoreInv
<1>2. /\ proc[p].pc # "idle" /\ Fail /\ MoveTo(p, "idle")
      /\ disturbed' = IF proc[p].pc = "flush" THEN disturbed \cup {proc[p].path} ELSE disturbed
      /\ bundleDisturbed' = (bundleDisturbed \/ Indexing(p))
      /\ UNCHANGED <<file, artifacts, ops, noted>>
  BY DEF Abort, Indexing
<1>3. "idle" \in Labels
  BY DEF Labels
<1>4. /\ proc' \in [Procs -> ProcState] /\ proc'[p].pc = "idle"
      /\ \A q \in Procs \ {p} : proc'[q] = proc[q]
      /\ \A q \in Procs : proc'[q].pc # "idle" =>
            proc'[q].path \in Paths /\ proc'[q].record \in Records
      /\ \A q \in Procs : proc'[q].pc = "index" => proc'[q].listing \in Listings
  BY <1>1, <1>2, <1>3, Moves
<1>5. Shape'
  <2>1. ArtifactsOK'
    BY <1>1, <1>2 DEF Shape, ArtifactsOK, artifacts
  <2>2. faults' \in 0..MaxFaults
    BY <1>1, <1>2, FailType
  <2>3. disturbed' \subseteq Paths
    BY <1>1, <1>2 DEF Shape
  <2>4. bundleDisturbed' \in BOOLEAN
    BY <1>2
  <2> QED
    BY <1>1, <1>2, <1>4, <2>1, <2>2, <2>3, <2>4 DEF Shape
<1>6. BundleOK'
  <2>1. CASE Indexing(p)
    BY <1>2, <2>1 DEF BundleOK
  <2>2. CASE ~Indexing(p)
    <3>1. bundleDisturbed' = bundleDisturbed
      BY <1>1, <1>2, <2>2 DEF Shape
    <3>2. ~Indexing(p)'
      BY <1>4 DEF Indexing
    <3> QED
      BY <1>1, <1>2, <1>4, <2>2, <3>1, <3>2, BundleFrame DEF artifacts
  <2> QED
    BY <2>1, <2>2
<1>7. \A d \in Paths : DocOK(d)'
  <2>1. disturbed \subseteq disturbed' /\ (proc[p].pc = "flush" => proc[p].path \in disturbed')
    BY <1>2
  <2>2. proc'[p].pc \notin Writing
    BY <1>4 DEF Writing
  <2> QED
    BY <1>1, <1>2, <1>4, <2>1, <2>2, QuietDocs
<1> QED
  BY <1>5, <1>6, <1>7 DEF StoreInv

\* What the steps of an export have in common.
LEMMA ExportKeeps ==
    ASSUME StoreInv, NEW p \in Procs, proc[p].pc \in Exporting,
           UNCHANGED <<file, ops, faults, noted, disturbed>>,
           ArtifactsOK', bundleDisturbed' \in BOOLEAN,
           proc' \in [Procs -> ProcState], proc'[p].pc \in {"okf", "list", "index", "idle"},
           proc'[p].pc # "idle" => proc'[p].path \in Paths /\ proc'[p].record \in Records,
           proc'[p].pc = "index" => proc'[p].listing \in Listings,
           \A q \in Procs \ {p} : proc'[q] = proc[q]
    PROVE  Shape' /\ \A d \in Paths : DocOK(d)'
<1>1. Shape /\ \A d \in Paths : DocOK(d)
  BY DEF StoreInv
<1>2. Shape'
  <2>1. \A q \in Procs : proc'[q].pc # "idle" => proc'[q].path \in Paths /\ proc'[q].record \in Records
    BY <1>1 DEF Shape
  <2>2. \A q \in Procs : proc'[q].pc = "index" => proc'[q].listing \in Listings
    BY <1>1 DEF Shape
  <2> QED
    BY <1>1, <2>1, <2>2 DEF Shape
<1>3. proc[p].pc # "flush" /\ proc'[p].pc \notin Writing
  BY DEF Exporting, Writing
<1> QED
  BY <1>1, <1>2, <1>3, QuietDocs

LEMMA ExportMarkdownKeeps ==
    ASSUME StoreInv, NEW p \in Procs, ExportMarkdown(p)
    PROVE  StoreInv'
<1> DEFINE label == IF proc[p].mode.okf THEN "okf" ELSE "idle"
<1>1. Shape /\ BundleOK
  BY DEF StoreInv
<1>2. /\ proc[p].pc = "markdown" /\ MoveTo(p, label)
      /\ WriteMarkdown(proc[p].path, proc[p].record)
      /\ UNCHANGED <<file, okf, index, ops, faults, noted, disturbed, bundleDisturbed>>
  BY DEF ExportMarkdown, observed
<1>3. label \in {"okf", "idle"}
  OBVIOUS
<1> HIDE DEF label
<1>4. proc[p].pc # "idle" /\ label \in Labels /\ label # "index"
  BY <1>2, <1>3 DEF Labels, Exporting
<1>5. /\ proc' \in [Procs -> ProcState] /\ proc'[p].pc = label
      /\ \A q \in Procs \ {p} : proc'[q] = proc[q]
      /\ \A q \in Procs : proc'[q].pc # "idle" =>
            proc'[q].path \in Paths /\ proc'[q].record \in Records
  BY <1>1, <1>2, <1>4, Moves
<1>6. ArtifactsOK'
  <2>1. proc[p].path \in Paths /\ proc[p].record \in Records
    BY <1>1, <1>4 DEF Shape
  <2>2. MarkdownView(proc[p].record) \in [schema : Schemas, ai : Ais \cup {NoAi}]
    BY <2>1 DEF MarkdownView, Records
  <2> QED
    BY <1>1, <1>2, <2>1, <2>2 DEF Shape, ArtifactsOK, WriteMarkdown
<1>7. Shape' /\ \A d \in Paths : DocOK(d)'
  <2>1. proc[p].pc \in Exporting /\ bundleDisturbed' \in BOOLEAN
    BY <1>1, <1>2 DEF Exporting, Shape
  <2> QED
    BY <1>2, <1>3, <1>5, <1>6, <2>1, ExportKeeps
<1>8. BundleOK'
  <2>1. ~Indexing(p) /\ ~Indexing(p)'
    BY <1>2, <1>3, <1>5 DEF Indexing
  <2> QED
    BY <1>1, <1>2, <1>5, <2>1, BundleFrame
<1> QED
  BY <1>7, <1>8 DEF StoreInv

\* A concept written while another process is indexing leaves the bundle disturbed.
LEMMA ExportConceptKeeps ==
    ASSUME StoreInv, NEW p \in Procs, ExportConcept(p)
    PROVE  StoreInv'
<1> DEFINE met == \E q \in Procs \ {p} : Indexing(q)
<1>1. Shape /\ BundleOK
  BY DEF StoreInv
<1>2. /\ proc[p].pc = "okf" /\ MoveTo(p, "list")
      /\ WriteConcept(proc[p].path, proc[p].record)
      /\ bundleDisturbed' = (bundleDisturbed \/ met)
      /\ UNCHANGED <<file, markdown, index, ops, faults, noted, disturbed>>
  BY DEF ExportConcept, Indexing
<1>3. "list" \in Labels
  BY DEF Labels, Exporting
<1>4. /\ proc' \in [Procs -> ProcState] /\ proc'[p].pc = "list"
      /\ \A q \in Procs \ {p} : proc'[q] = proc[q]
      /\ \A q \in Procs : proc'[q].pc # "idle" =>
            proc'[q].path \in Paths /\ proc'[q].record \in Records
  BY <1>1, <1>2, <1>3, Moves
<1>5. ArtifactsOK'
  <2>1. proc[p].path \in Paths /\ proc[p].record \in Records
    BY <1>1, <1>2 DEF Shape
  <2>2. OkfView(proc[p].record) \in Records
    BY <2>1 DEF OkfView, Records
  <2> QED
    BY <1>1, <1>2, <2>1, <2>2 DEF Shape, ArtifactsOK, WriteConcept
<1>6. Shape' /\ \A d \in Paths : DocOK(d)'
  <2>1. proc[p].pc \in Exporting /\ bundleDisturbed' \in BOOLEAN
    BY <1>2 DEF Exporting
  <2> QED
    BY <1>2, <1>4, <1>5, <2>1, ExportKeeps
<1>7. BundleOK'
  <2>1. SUFFICES ASSUME ~bundleDisturbed'
                 PROVE  /\ \A q, r \in Procs : Indexing(q)' /\ Indexing(r)' => q = r
                        /\ \A q \in Procs : proc'[q].pc # "index"
                        /\ \E q \in Procs : Indexing(q)'
    BY DEF BundleOK
  <2>2. ~met
    BY <1>2, <2>1
  <2>3. \A q \in Procs \ {p} : ~Indexing(q)' /\ proc'[q].pc # "index"
    BY <1>4, <2>2 DEF Indexing
  <2>4. Indexing(p)'
    BY <1>4 DEF Indexing
  <2> QED
    BY <1>4, <2>3, <2>4
<1> QED
  BY <1>6, <1>7 DEF StoreInv

LEMMA ListBundleKeeps ==
    ASSUME StoreInv, NEW p \in Procs, ListBundle(p)
    PROVE  StoreInv'
<1> DEFINE s == [proc[p] EXCEPT !.pc = "index", !.listing = Listing]
<1>1. Shape /\ BundleOK
  BY DEF StoreInv
<1>2. /\ proc[p].pc = "list" /\ proc' = [proc EXCEPT ![p] = s]
      /\ UNCHANGED <<file, artifacts, ops, faults, noted, disturbed, bundleDisturbed>>
  BY DEF ListBundle, At, observed
<1>3. Listing \in Listings
  BY <1>1 DEF Shape, ArtifactsOK, Listing, Listings, Records
<1>4. /\ s \in ProcState /\ s.pc = "index" /\ s.listing = Listing
      /\ s.path = proc[p].path /\ s.record = proc[p].record
  BY <1>1, <1>3 DEF Shape, ProcState, Labels, Exporting
<1> HIDE DEF s
<1>5. /\ proc' \in [Procs -> ProcState] /\ proc'[p] = s
      /\ \A q \in Procs \ {p} : proc'[q] = proc[q]
  BY <1>1, <1>2, <1>4 DEF Shape
<1>6. Shape' /\ \A d \in Paths : DocOK(d)'
  <2>1. proc[p].pc \in Exporting /\ bundleDisturbed' \in BOOLEAN
    BY <1>1, <1>2 DEF Exporting, Shape
  <2>2. proc[p].path \in Paths /\ proc[p].record \in Records
    BY <1>1, <1>2 DEF Shape
  <2>3. ArtifactsOK'
    BY <1>1, <1>2 DEF Shape, ArtifactsOK, artifacts
  <2> QED
    BY <1>2, <1>3, <1>4, <1>5, <2>1, <2>2, <2>3, ExportKeeps
<1>7. BundleOK'
  <2>1. Listing' = Listing /\ index' = index /\ bundleDisturbed' = bundleDisturbed
    BY <1>2 DEF Listing, artifacts
  <2>2. Indexing(p) /\ Indexing(p)' /\ \A q \in Procs : Indexing(q)' <=> Indexing(q)
    BY <1>2, <1>4, <1>5 DEF Indexing
  <2>3. SUFFICES ASSUME ~bundleDisturbed
                 PROVE  /\ \A q, r \in Procs : Indexing(q)' /\ Indexing(r)' => q = r
                        /\ \A q \in Procs : proc'[q].pc = "index" => proc'[q].listing = Listing
    BY <2>1, <2>2 DEF BundleOK
  <2>4. \A q \in Procs \ {p} : ~Indexing(q)
    BY <1>1, <2>2, <2>3 DEF BundleOK
  <2>5. \A q \in Procs \ {p} : proc'[q].pc # "index"
    BY <1>5, <2>4 DEF Indexing
  <2> QED
    BY <1>4, <1>5, <2>2, <2>4, <2>5
<1> QED
  BY <1>6, <1>7 DEF StoreInv

LEMMA WriteIndexKeeps ==
    ASSUME StoreInv, NEW p \in Procs, WriteIndex(p)
    PROVE  StoreInv'
<1>1. Shape /\ BundleOK
  BY DEF StoreInv
<1>2. /\ proc[p].pc = "index" /\ MoveTo(p, "idle") /\ index' = proc[p].listing
      /\ UNCHANGED <<file, markdown, okf, ops, faults, noted, disturbed, bundleDisturbed>>
  BY DEF WriteIndex, observed
<1>3. "idle" \in Labels
  BY DEF Labels
<1>4. /\ proc' \in [Procs -> ProcState] /\ proc'[p].pc = "idle"
      /\ \A q \in Procs \ {p} : proc'[q] = proc[q]
  BY <1>1, <1>2, <1>3, Moves
<1>5. ArtifactsOK'
  BY <1>1, <1>2 DEF Shape, ArtifactsOK, Listings
<1>6. Shape' /\ \A d \in Paths : DocOK(d)'
  <2>1. proc[p].pc \in Exporting /\ bundleDisturbed' \in BOOLEAN
    BY <1>1, <1>2 DEF Exporting, Shape
  <2> QED
    BY <1>2, <1>4, <1>5, <2>1, ExportKeeps
<1>7. BundleOK'
  <2>1. SUFFICES ASSUME ~bundleDisturbed
                 PROVE  (\A q \in Procs : ~Indexing(q)') /\ index' = Listing'
    BY <1>2 DEF BundleOK, Indexing
  <2>2. Indexing(p) /\ proc[p].listing = Listing
    BY <1>1, <1>2, <2>1 DEF BundleOK, Indexing
  <2>3. \A q \in Procs \ {p} : ~Indexing(q)
    BY <1>1, <2>1, <2>2 DEF BundleOK
  <2>4. \A q \in Procs : ~Indexing(q)'
    BY <1>4, <2>3 DEF Indexing
  <2>5. Listing' = Listing
    BY <1>2 DEF Listing
  <2> QED
    BY <1>2, <2>2, <2>4, <2>5
<1> QED
  BY <1>6, <1>7 DEF StoreInv

-----------------------------------------------------------------------------
(* Theorems                                                                *)

LEMMA StoreStep == StoreInv /\ [Next]_vars => StoreInv'
<1> SUFFICES ASSUME StoreInv, [Next]_vars PROVE StoreInv'
  OBVIOUS
<1>1. CASE UNCHANGED vars
  <2>1. UNCHANGED <<file, markdown, okf, index, proc, ops, faults, noted, disturbed,
                    bundleDisturbed>>
    BY <1>1 DEF vars, artifacts, observed
  <2> QED
    BY <2>1 DEF StoreInv, Shape, ArtifactsOK, DocOK, Undisturbed, OneWriter, Writer, FileOK,
                OpenOK, FlushOK, HasOpen, BundleOK, Indexing, Listing
<1>2. ASSUME NEW p \in Procs,
             \/ Save(p) \/ SaveUnchanged(p) \/ Patch(p)
             \/ Open(p) \/ Flush(p) \/ WriteFails(p)
             \/ ExportMarkdown(p) \/ ExportConcept(p) \/ ListBundle(p) \/ WriteIndex(p)
             \/ Abort(p)
      PROVE  StoreInv'
  BY <1>2, SaveKeeps, SaveUnchangedKeeps, PatchKeeps, OpenKeeps, FlushKeeps, WriteFailsKeeps,
     ExportMarkdownKeeps, ExportConceptKeeps, ListBundleKeeps, WriteIndexKeeps, AbortKeeps
<1> QED
  BY <1>1, <1>2 DEF Next

\* The invariant holds in every state of every behaviour.
THEOREM StoreInvariant == Spec => []StoreInv
<1>1. Init => StoreInv
  BY InitStore
<1>2. StoreInv /\ [Next]_vars => StoreInv'
  BY StoreStep
<1> QED
  BY <1>1, <1>2, PTL DEF Spec

\* The variables have their types, and whoever is at work has a whole record.
THEOREM StoreTypeCorrect == Spec => []StoreTypeOK
<1>1. StoreInv => StoreTypeOK
  BY DEF StoreInv, Shape, StoreTypeOK, ProcessesOK, ProcState, Labels
<1> QED
  BY <1>1, StoreInvariant, PTL

\* An undisturbed document can be read whenever nobody has it open.
THEOREM DocumentsReadable == Spec => []Readable
<1>1. StoreInv => Readable
  BY DEF StoreInv, DocOK, FileOK, Readable
<1> QED
  BY <1>1, StoreInvariant, PTL

\* An undisturbed document has the owner that the last edit gave it.
THEOREM AnnotationsSurvive == Spec => []AnnotationsKept
<1>1. StoreInv => AnnotationsKept
  BY DEF StoreInv, DocOK, FileOK, AnnotationsKept
<1> QED
  BY <1>1, StoreInvariant, PTL

\* The index of an undisturbed bundle lists every concept when no export is under way.
THEOREM IndexIsComplete == Spec => []IndexComplete
<1>1. StoreInv => IndexComplete
  BY DEF StoreInv, BundleOK, Indexing, IndexComplete
<1> QED
  BY <1>1, StoreInvariant, PTL
-----------------------------------------------------------------------------
(* The exports are those of the stored document                            *)

Busy(q, c) == proc[q].pc # "idle" /\ proc[q].path = c

(***************************************************************************)
(* The invariant of an operation that no other has met: it is the only one *)
(* at its path, so that nobody else can have its file open or write its    *)
(* exports; while it exports what it has stored, the file has its record,  *)
(* and so has each export that is behind it.                               *)
(***************************************************************************)
Solitary(p) ==
    /\ \A q \in Procs \ {p} : ~Busy(q, proc[p].path)
    /\ proc[p].clash = FALSE
    /\ proc[p].pc \in Writing => proc[p].stored # TRUE

ExportsSoFar(p, c, r) ==
    proc[p].pc \in Exporting /\ proc[p].stored = TRUE =>
        /\ file[c] = r
        /\ proc[p].pc # "markdown" /\ proc[p].mode.markdown = TRUE =>
              markdown[c] = MarkdownView(r)
        /\ proc[p].pc \in {"list", "index"} => okf[c] = OkfView(r)

Alone(p) == proc[p].pc # "idle" /\ proc[p].alone = TRUE

AloneOK(p) == Alone(p) => Solitary(p) /\ ExportsSoFar(p, proc[p].path, proc[p].record)

ExportInv == StoreInv /\ \A p \in Procs : AloneOK(p)

\* What a step of process p leaves to the others once its operation has begun.
Stays(p) ==
    /\ proc'[p].pc # "idle" => proc'[p].path = proc[p].path
    /\ \A q \in Procs \ {p} :
          /\ Keeps(q)
          /\ proc[q].path # proc[p].path => proc'[q].clash = proc[q].clash
    /\ \A c \in Paths \ {proc[p].path} :
          file'[c] = file[c] /\ markdown'[c] = markdown[c] /\ okf'[c] = okf[c]

LEMMA OthersAlone ==
    ASSUME Shape, NEW p \in Procs, proc[p].pc # "idle", Stays(p),
           NEW q \in Procs \ {p}, AloneOK(q)
    PROVE  AloneOK(q)'
<1> SUFFICES ASSUME Alone(q)'
             PROVE  Solitary(q)' /\ ExportsSoFar(q, proc[q].path, proc[q].record)'
  BY DEF AloneOK
<1>1. Keeps(q)
  BY DEF Stays
<1>2. Alone(q)
  BY <1>1 DEF Alone, Keeps
<1>3. PICK c \in Paths, r \in Records : c = proc[q].path /\ r = proc[q].record
  BY <1>2 DEF Alone, Shape
<1>4. Solitary(q) /\ ExportsSoFar(q, c, r)
  BY <1>2, <1>3 DEF AloneOK
<1>5. proc[p].path # c
  BY <1>3, <1>4 DEF Solitary, Busy
<1>6. proc'[q].path = c /\ proc'[q].record = r /\ proc'[q].clash = proc[q].clash
  BY <1>1, <1>3, <1>5 DEF Stays, Keeps
<1>7. ASSUME NEW s \in Procs \ {q} PROVE ~Busy(s, c)'
  <2>1. CASE s = p
    BY <1>5, <2>1 DEF Stays, Busy
  <2>2. CASE s # p
    <3>1. Keeps(s)
      BY <2>2 DEF Stays
    <3> QED
      BY <1>3, <1>4, <3>1 DEF Keeps, Busy, Solitary
  <2> QED
    BY <2>1, <2>2
<1>8. Solitary(q)'
  BY <1>1, <1>4, <1>6, <1>7 DEF Solitary, Keeps
<1>9. file'[c] = file[c] /\ markdown'[c] = markdown[c] /\ okf'[c] = okf[c]
  BY <1>5 DEF Stays
<1>10. ExportsSoFar(q, c, r)'
  BY <1>1, <1>4, <1>9 DEF ExportsSoFar, Keeps
<1> QED
  BY <1>6, <1>8, <1>10

\* The step of an operation that is alone leaves it alone.
LEMMA StaysSolitary ==
    ASSUME NEW p \in Procs, Stays(p), Solitary(p), proc'[p].path = proc[p].path,
           proc'[p].clash = FALSE, proc'[p].pc \in Writing => proc'[p].stored # TRUE
    PROVE  Solitary(p)'
<1>1. ASSUME NEW q \in Procs \ {p} PROVE ~Busy(q, proc[p].path)'
  <2>1. Keeps(q)
    BY DEF Stays
  <2> QED
    BY <2>1 DEF Solitary, Busy, Keeps
<1> QED
  BY <1>1 DEF Solitary

\* A step after the beginning: what is left to show is of the process itself.
LEMMA StayStep ==
    ASSUME ExportInv, NEW p \in Procs, proc[p].pc # "idle", Stays(p), AloneOK(p)'
    PROVE  \A q \in Procs : AloneOK(q)'
<1>1. Shape
  BY DEF ExportInv, StoreInv
<1>2. ASSUME NEW q \in Procs \ {p} PROVE AloneOK(q)'
  BY <1>1, OthersAlone DEF ExportInv
<1> QED
  BY <1>2
LEMMA BusyOthers ==
    ASSUME Shape, NEW p \in Procs, NEW c, NEW q \in Procs \ {p},
           Busy(q, c)
    PROVE  q \in OthersAt(p, c, Writing \cup Exporting)
  BY DEF OthersAt, Busy, Shape, ProcState, Labels

\* An operation that begins is alone when it meets no other, and leaves none alone
\* that it meets.
LEMMA BeginExports ==
    ASSUME ExportInv, NEW p \in Procs, proc[p].pc = "idle",
           NEW op \in {"save", "owner", "edit"}, NEW c \in Paths, NEW mode \in AllModes,
           NEW record \in Records, NEW label \in {"open", "markdown", "okf"},
           label \in {"open", AfterWrite(mode)},
           Begin(p, op, c, mode, record, label)
    PROVE  \A q \in Procs : AloneOK(q)'
<1> DEFINE others == OthersAt(p, c, Writing \cup Exporting)
<1>1. Shape /\ \A q \in Procs : AloneOK(q)
  BY DEF ExportInv, StoreInv
<1>2. Began(p, op, c, mode, record, label)
  BY <1>1, BeginMoves
<1>3. UNCHANGED <<file, markdown, okf>>
  BY DEF Begin, artifacts
<1>4. \A q \in Procs \ {p} : Keeps(q) /\ proc'[q].clash = proc[q].clash
  BY <1>2 DEF Began
<1>5. AloneOK(p)'
  <2>1. SUFFICES ASSUME Alone(p)'
                 PROVE  Solitary(p)' /\ ExportsSoFar(p, c, record)'
    BY <1>2 DEF AloneOK, Began
  <2>2. others = {}
    BY <1>2, <2>1 DEF Alone, Began
  <2>3. ASSUME NEW q \in Procs \ {p} PROVE ~Busy(q, c)'
    <3>1. ~Busy(q, c)
      BY <1>1, <2>2, BusyOthers
    <3> QED
      BY <1>4, <3>1 DEF Keeps, Busy
  <2>4. Solitary(p)'
    BY <1>2, <2>3 DEF Solitary, Began, Writing
  <2>5. label # "open" => label = "markdown" \/ mode.markdown = FALSE
    BY DEF AfterWrite, AllModes
  <2>6. ExportsSoFar(p, c, record)'
    BY <1>2, <1>3, <2>5 DEF ExportsSoFar, Began, Exporting
  <2> QED
    BY <2>4, <2>6
<1>6. ASSUME NEW q \in Procs \ {p} PROVE AloneOK(q)'
  <2>1. SUFFICES ASSUME Alone(q)'
                 PROVE  Solitary(q)' /\ ExportsSoFar(q, proc[q].path, proc[q].record)'
    BY DEF AloneOK
  <2>2. Keeps(q) /\ proc'[q].clash = proc[q].clash
    BY <1>4
  <2>3. Alone(q)
    BY <2>1, <2>2 DEF Alone, Keeps
  <2>4. Solitary(q) /\ ExportsSoFar(q, proc[q].path, proc[q].record)
    BY <1>1, <2>3 DEF AloneOK
  <2>5. PICK d : d = proc[q].path
    OBVIOUS
  <2>6. q \notin others
    BY <1>2, <2>1 DEF Alone, Began
  <2>7. d # c
    BY <1>1, <2>3, <2>5, <2>6, BusyOthers DEF Busy, Alone
  <2>8. ASSUME NEW s \in Procs \ {q} PROVE ~Busy(s, d)'
    <3>1. CASE s = p
      BY <1>2, <2>7, <3>1 DEF Began, Busy
    <3>2. CASE s # p
      <4>1. Keeps(s)
        BY <1>4, <3>2
      <4> QED
        BY <2>4, <2>5, <4>1 DEF Keeps, Busy, Solitary
    <3> QED
      BY <3>1, <3>2
  <2>9. Solitary(q)'
    BY <2>2, <2>4, <2>5, <2>8 DEF Solitary, Keeps
  <2>10. ExportsSoFar(q, proc[q].path, proc[q].record)'
    BY <1>3, <2>2, <2>4 DEF ExportsSoFar, Keeps
  <2> QED
    BY <2>9, <2>10
<1> QED
  BY <1>5, <1>6

LEMMA SaveUnchangedExports ==
    ASSUME ExportInv, NEW p \in Procs, SaveUnchanged(p)
    PROVE  \A q \in Procs : AloneOK(q)'
<1>1. PICK c \in Paths, mode \in Modes :
        /\ proc[p].pc = "idle" /\ Existing(c) # {} /\ AfterWrite(mode) # "idle"
        /\ Begin(p, "save", c, mode, file[c], AfterWrite(mode))
  BY DEF SaveUnchanged
<1>2. file[c] \in Records
  BY <1>1 DEF Existing
<1>3. mode \in AllModes /\ AfterWrite(mode) \in {"markdown", "okf"}
  BY <1>1, StoreAssumption, AfterWriteType
<1> QED
  BY <1>1, <1>2, <1>3, BeginExports

LEMMA SaveExports ==
    ASSUME ExportInv, NEW p \in Procs, Save(p)
    PROVE  \A q \in Procs : AloneOK(q)'
<1>1. PICK c \in Paths, mode \in Modes, s \in Schemas, a \in Ais \cup {NoAi} :
        /\ proc[p].pc = "idle"
        /\ Begin(p, "save", c, mode, Merged(c, s, a),
                 IF mode.save THEN "open" ELSE AfterWrite(mode))
  BY DEF Save
<1>2. Merged(c, s, a) \in Records
  BY MergedMakes DEF ExportInv, StoreInv
<1>3. mode \in AllModes /\ (mode.save \/ AfterWrite(mode) \in {"markdown", "okf"})
  <2>1. mode \in AllModes /\ (mode.save \/ mode.markdown \/ mode.okf)
    BY StoreAssumption
  <2> QED
    BY <2>1 DEF AfterWrite
<1> DEFINE label == IF mode.save THEN "open" ELSE AfterWrite(mode)
<1>4. label \in {"open", "markdown", "okf"} /\ label \in {"open", AfterWrite(mode)}
  BY <1>3
<1>5. Begin(p, "save", c, mode, Merged(c, s, a), label)
  BY <1>1
<1> HIDE DEF label
<1> QED
  BY <1>1, <1>2, <1>3, <1>4, <1>5, BeginExports

LEMMA PatchExports ==
    ASSUME ExportInv, NEW p \in Procs, Patch(p)
    PROVE  \A q \in Procs : AloneOK(q)'
<1>1. PICK c \in Paths, r \in Records, op \in {"owner", "edit"} :
        /\ proc[p].pc = "idle" /\ Makes(op, file[c], r)
        /\ Begin(p, op, c, Idle.mode, r, "open")
  BY PatchMakes
<1>2. Idle.mode \in AllModes
  BY IdleType DEF ProcState
<1> QED
  BY <1>1, <1>2, BeginExports
LEMMA OpenExports ==
    ASSUME ExportInv, NEW p \in Procs, Open(p)
    PROVE  \A q \in Procs : AloneOK(q)'
<1>1. Shape /\ AloneOK(p)
  BY DEF ExportInv, StoreInv
<1>2. proc[p].pc = "open" /\ proc[p].pc # "idle"
  BY DEF Open
<1>3. /\ proc'[p].pc = "flush" /\ proc'[p].path = proc[p].path
      /\ proc'[p].stored = proc[p].stored /\ Goes(p)
      /\ OthersAt(p, proc[p].path, {"flush"}) = {} => proc'[p].clash = FALSE
      /\ \A q \in Procs \ {p} :
            /\ Keeps(q)
            /\ proc[q].path # proc[p].path => proc'[q].clash = proc[q].clash
  BY <1>1, OpenMoves
<1>4. \A c \in Paths \ {proc[p].path} :
         file'[c] = file[c] /\ markdown'[c] = markdown[c] /\ okf'[c] = okf[c]
  BY <1>1 DEF Open, artifacts, Shape
<1>5. Stays(p)
  BY <1>3, <1>4 DEF Stays
<1>6. ASSUME Alone(p)' PROVE Solitary(p)'
  <2>1. Solitary(p)
    BY <1>1, <1>2, <1>3, <1>6 DEF AloneOK, Alone, Goes
  <2>2. OthersAt(p, proc[p].path, {"flush"}) = {}
    BY <2>1 DEF Solitary, Busy, OthersAt
  <2>3. proc'[p].stored # TRUE
    BY <1>2, <1>3, <2>1 DEF Solitary, Writing
  <2> QED
    BY <1>3, <1>5, <2>1, <2>2, <2>3, StaysSolitary
<1>7. ExportsSoFar(p, proc[p].path, proc[p].record)'
  BY <1>3 DEF ExportsSoFar, Exporting
<1> QED
  BY <1>2, <1>5, <1>6, <1>7, StayStep DEF AloneOK

\* The file has the record: no other process had it open.
LEMMA FlushExports ==
    ASSUME ExportInv, NEW p \in Procs, Flush(p)
    PROVE  \A q \in Procs : AloneOK(q)'
<1>1. Shape /\ AloneOK(p)
  BY DEF ExportInv, StoreInv
<1>2. PICK c \in Paths, r \in Records :
        proc[p].pc = "flush" /\ proc[p].path = c /\ proc[p].record = r
  BY <1>1 DEF Flush, Shape
<1>3. /\ proc'[p].pc = AfterWrite(proc[p].mode)
      /\ proc'[p].pc \in {"markdown", "okf", "idle"}
      /\ proc'[p].pc # "idle" => /\ proc'[p].path = c /\ proc'[p].record = r
                                 /\ proc'[p].clash = FALSE /\ Goes(p)
      /\ \A q \in Procs \ {p} : proc'[q] = proc[q]
  BY <1>1, <1>2, FlushMoves
<1>4. /\ \/ file' = [file EXCEPT ![c] = r]
         \/ proc[p].clash /\ file' = [file EXCEPT ![c] = Torn]
      /\ UNCHANGED <<markdown, okf>>
  BY <1>2 DEF Flush, artifacts
<1>5. Stays(p)
  <2>1. \A d \in Paths \ {c} : file'[d] = file[d]
    BY <1>1, <1>4 DEF Shape
  <2>2. \A q \in Procs \ {p} : Keeps(q) /\ proc'[q].clash = proc[q].clash
    BY <1>3 DEF Keeps
  <2> QED
    BY <1>2, <1>3, <1>4, <2>1, <2>2 DEF Stays
<1>6. ASSUME Alone(p)' PROVE Solitary(p)' /\ ExportsSoFar(p, c, r)'
  <2>1. Alone(p)
    BY <1>2, <1>3, <1>6 DEF Alone, Goes
  <2>2. Solitary(p)
    BY <1>1, <2>1 DEF AloneOK
  <2>3. Solitary(p)'
    BY <1>2, <1>3, <1>5, <1>6, <2>2, StaysSolitary DEF Alone, Writing
  <2>4. file'[c] = r
    BY <1>1, <1>4, <2>2 DEF Shape, Solitary
  <2>5. proc'[p].pc = "okf" => proc'[p].mode.markdown # TRUE
    BY <1>3 DEF AfterWrite, Goes
  <2>6. ExportsSoFar(p, c, r)'
    BY <1>3, <2>4, <2>5 DEF ExportsSoFar, Exporting
  <2> QED
    BY <2>3, <2>6
<1>7. AloneOK(p)'
  BY <1>3, <1>6 DEF AloneOK, Alone
<1> QED
  BY <1>2, <1>5, <1>7, StayStep

\* A failed write leaves nothing stored, and what ends is of no interest.
LEMMA WriteFailsExports ==
    ASSUME ExportInv, NEW p \in Procs, WriteFails(p)
    PROVE  \A q \in Procs : AloneOK(q)'
<1> DEFINE label == IF proc[p].op = "save" THEN AfterWrite(proc[p].mode) ELSE "idle"
<1>1. Shape /\ AloneOK(p)
  BY DEF ExportInv, StoreInv
<1>2. /\ proc[p].pc \in Writing /\ proc[p].pc # "idle"
      /\ MoveTo(p, label) /\ UNCHANGED <<file, markdown, okf>>
  BY DEF WriteFails, Writing, artifacts
<1>3. label \in {"markdown", "okf", "idle"}
  BY <1>1, AfterWriteType DEF Shape, ProcState
<1> HIDE DEF label
<1>4. label \in Labels /\ label # "index"
  BY <1>3 DEF Labels, Exporting
<1>5. /\ proc'[p].pc = label
      /\ label # "idle" => /\ proc'[p].path = proc[p].path
                           /\ proc'[p].stored = proc[p].stored
                           /\ proc'[p].clash = proc[p].clash /\ Goes(p)
      /\ \A q \in Procs \ {p} : proc'[q] = proc[q]
  BY <1>1, <1>2, <1>4, Moves
<1>6. Stays(p)
  BY <1>2, <1>5 DEF Stays, Keeps
<1>7. ASSUME Alone(p)'
      PROVE  Solitary(p)' /\ ExportsSoFar(p, proc[p].path, proc[p].record)'
  <2>1. Solitary(p)
    BY <1>1, <1>2, <1>5, <1>7 DEF AloneOK, Alone, Goes
  <2>2. proc'[p].stored # TRUE
    BY <1>2, <1>5, <1>7, <2>1 DEF Solitary, Alone
  <2>3. Solitary(p)'
    BY <1>5, <1>6, <1>7, <2>1, <2>2, StaysSolitary DEF Solitary, Alone
  <2> QED
    BY <2>2, <2>3 DEF ExportsSoFar
<1> QED
  BY <1>2, <1>6, <1>7, StayStep DEF AloneOK

\* A step of an export: what is written is of this path, and of the record.
LEMMA ExportingStep ==
    ASSUME ExportInv, NEW p \in Procs, proc[p].pc \in Exporting,
           NEW c \in Paths, c = proc[p].path, NEW r \in Records, r = proc[p].record,
           UNCHANGED file,
           \A d \in Paths \ {c} : markdown'[d] = markdown[d] /\ okf'[d] = okf[d],
           \A q \in Procs \ {p} : proc'[q] = proc[q],
           proc'[p].pc # "idle" =>
               /\ proc'[p].path = c /\ proc'[p].record = r
               /\ proc'[p].stored = proc[p].stored /\ proc'[p].clash = proc[p].clash /\ Goes(p)
               /\ proc'[p].pc \notin Writing
               /\ ExportsSoFar(p, c, r) => ExportsSoFar(p, c, r)'
    PROVE  \A q \in Procs : AloneOK(q)'
<1>1. Stays(p) /\ proc[p].pc # "idle"
  BY DEF Stays, Keeps, Exporting
<1>2. ASSUME Alone(p)' PROVE Solitary(p)' /\ ExportsSoFar(p, c, r)'
  <2>1. Solitary(p) /\ ExportsSoFar(p, c, r)
    BY <1>1, <1>2 DEF ExportInv, AloneOK, Alone, Goes
  <2>2. Solitary(p)'
    BY <1>1, <1>2, <2>1, StaysSolitary DEF Solitary, Alone
  <2> QED
    BY <1>2, <2>1, <2>2 DEF Alone
<1>3. AloneOK(p)'
  BY <1>2 DEF AloneOK, Alone
<1> QED
  BY <1>1, <1>3, StayStep
LEMMA ExportMarkdownExports ==
    ASSUME ExportInv, NEW p \in Procs, ExportMarkdown(p)
    PROVE  \A q \in Procs : AloneOK(q)'
<1> DEFINE label == IF proc[p].mode.okf THEN "okf" ELSE "idle"
<1>1. Shape /\ proc[p].pc = "markdown" /\ proc[p].pc \in Exporting
  BY DEF ExportInv, StoreInv, ExportMarkdown, Exporting
<1>2. PICK c \in Paths, r \in Records : c = proc[p].path /\ r = proc[p].record
  BY <1>1 DEF Shape
<1>3. /\ MoveTo(p, label) /\ markdown' = [markdown EXCEPT ![c] = MarkdownView(r)]
      /\ UNCHANGED <<file, okf>>
  BY <1>2 DEF ExportMarkdown, WriteMarkdown
<1>4. label \in {"okf", "idle"}
  OBVIOUS
<1> HIDE DEF label
<1>5. proc[p].pc # "idle" /\ label \in Labels /\ label # "index"
  BY <1>1, <1>4 DEF Labels, Exporting
<1>6. /\ proc'[p].pc = label
      /\ label # "idle" => /\ proc'[p].path = c /\ proc'[p].record = r
                           /\ proc'[p].stored = proc[p].stored
                           /\ proc'[p].clash = proc[p].clash /\ Goes(p)
      /\ \A q \in Procs \ {p} : proc'[q] = proc[q]
  BY <1>1, <1>2, <1>3, <1>5, Moves
<1>7. markdown'[c] = MarkdownView(r) /\ \A d \in Paths \ {c} : markdown'[d] = markdown[d]
  BY <1>1, <1>3 DEF Shape, ArtifactsOK
<1>8. label # "idle" /\ ExportsSoFar(p, c, r) => ExportsSoFar(p, c, r)'
  BY <1>1, <1>3, <1>4, <1>6, <1>7 DEF ExportsSoFar
<1>9. proc'[p].pc \notin Writing
  BY <1>4, <1>6 DEF Writing
<1> QED
  BY <1>1, <1>2, <1>3, <1>6, <1>7, <1>8, <1>9, ExportingStep

LEMMA ExportConceptExports ==
    ASSUME ExportInv, NEW p \in Procs, ExportConcept(p)
    PROVE  \A q \in Procs : AloneOK(q)'
<1>1. Shape /\ proc[p].pc = "okf" /\ proc[p].pc \in Exporting
  BY DEF ExportInv, StoreInv, ExportConcept, Exporting
<1>2. PICK c \in Paths, r \in Records : c = proc[p].path /\ r = proc[p].record
  BY <1>1 DEF Shape
<1>3. /\ MoveTo(p, "list") /\ okf' = [okf EXCEPT ![c] = OkfView(r)]
      /\ UNCHANGED <<file, markdown>>
  BY <1>2 DEF ExportConcept, WriteConcept
<1>4. proc[p].pc # "idle" /\ "list" \in Labels
  BY <1>1 DEF Labels, Exporting
<1>5. /\ proc'[p].pc = "list"
      /\ proc'[p].path = c /\ proc'[p].record = r
      /\ proc'[p].stored = proc[p].stored
      /\ proc'[p].clash = proc[p].clash /\ Goes(p)
      /\ \A q \in Procs \ {p} : proc'[q] = proc[q]
  BY <1>1, <1>2, <1>3, <1>4, Moves
<1>6. okf'[c] = OkfView(r) /\ \A d \in Paths \ {c} : okf'[d] = okf[d]
  BY <1>1, <1>3 DEF Shape, ArtifactsOK
<1>7. ExportsSoFar(p, c, r) => ExportsSoFar(p, c, r)'
  BY <1>1, <1>3, <1>5, <1>6 DEF ExportsSoFar, Goes
<1>8. proc'[p].pc \notin Writing
  BY <1>5 DEF Writing
<1> QED
  BY <1>1, <1>2, <1>3, <1>5, <1>6, <1>7, <1>8, ExportingStep

LEMMA ListBundleExports ==
    ASSUME ExportInv, NEW p \in Procs, ListBundle(p)
    PROVE  \A q \in Procs : AloneOK(q)'
<1> DEFINE s == [proc[p] EXCEPT !.pc = "index", !.listing = Listing]
<1>1. Shape /\ proc[p].pc = "list" /\ proc[p].pc \in Exporting
  BY DEF ExportInv, StoreInv, ListBundle, Exporting
<1>2. PICK c \in Paths, r \in Records : c = proc[p].path /\ r = proc[p].record
  BY <1>1 DEF Shape
<1>3. proc' = [proc EXCEPT ![p] = s] /\ UNCHANGED <<file, markdown, okf>>
  BY DEF ListBundle, At, artifacts
<1>4. /\ s.pc = "index" /\ s.path = c /\ s.record = r
      /\ s.stored = proc[p].stored /\ s.clash = proc[p].clash
      /\ s.mode = proc[p].mode /\ s.alone = proc[p].alone
  BY <1>1, <1>2 DEF Shape, ProcState
<1> HIDE DEF s
<1>5. proc'[p] = s /\ \A q \in Procs \ {p} : proc'[q] = proc[q]
  BY <1>1, <1>3 DEF Shape
<1>6. Goes(p) /\ proc'[p].pc \notin Writing
  BY <1>4, <1>5 DEF Goes, Writing
<1>7. ExportsSoFar(p, c, r) => ExportsSoFar(p, c, r)'
  BY <1>1, <1>3, <1>4, <1>5 DEF ExportsSoFar
<1> QED
  BY <1>1, <1>2, <1>3, <1>4, <1>5, <1>6, <1>7, ExportingStep

\* A process that has ended is not at work.
LEMMA EndExports ==
    ASSUME ExportInv, NEW p \in Procs, proc[p].pc # "idle", MoveTo(p, "idle"),
           UNCHANGED <<file, markdown, okf>>
    PROVE  \A q \in Procs : AloneOK(q)'
<1>1. Shape /\ "idle" \in Labels
  BY DEF ExportInv, StoreInv, Labels
<1>2. proc'[p].pc = "idle" /\ \A q \in Procs \ {p} : proc'[q] = proc[q]
  BY <1>1, Moves
<1>3. Stays(p) /\ AloneOK(p)'
  BY <1>2 DEF Stays, Keeps, AloneOK, Alone
<1> QED
  BY <1>3, StayStep

LEMMA ExportInit == Init => ExportInv
<1> SUFFICES ASSUME Init PROVE ExportInv
  OBVIOUS
<1>1. \A p \in Procs : proc[p].pc = "idle"
  BY DEF Init, Idle
<1> QED
  BY <1>1, InitStore DEF ExportInv, AloneOK, Alone

LEMMA ExportStep == ExportInv /\ [Next]_vars => ExportInv'
<1> SUFFICES ASSUME ExportInv, [Next]_vars PROVE \A q \in Procs : AloneOK(q)'
  BY StoreStep DEF ExportInv
<1>1. CASE UNCHANGED vars
  <2>1. UNCHANGED <<file, markdown, okf, proc>>
    BY <1>1 DEF vars, artifacts
  <2> QED
    BY <2>1 DEF ExportInv, AloneOK, Alone, Solitary, Busy, ExportsSoFar
<1>2. ASSUME NEW p \in Procs, WriteIndex(p) \/ Abort(p)
      PROVE  \A q \in Procs : AloneOK(q)'
  <2>1. proc[p].pc # "idle" /\ MoveTo(p, "idle") /\ UNCHANGED <<file, markdown, okf>>
    BY <1>2 DEF WriteIndex, Abort, artifacts
  <2> QED
    BY <2>1, EndExports
<1>3. ASSUME NEW p \in Procs,
             \/ Save(p) \/ SaveUnchanged(p) \/ Patch(p)
             \/ Open(p) \/ Flush(p) \/ WriteFails(p)
             \/ ExportMarkdown(p) \/ ExportConcept(p) \/ ListBundle(p)
      PROVE  \A q \in Procs : AloneOK(q)'
  BY <1>3, SaveExports, SaveUnchangedExports, PatchExports, OpenExports, FlushExports,
     WriteFailsExports, ExportMarkdownExports, ExportConceptExports, ListBundleExports
<1> QED
  BY <1>1, <1>2, <1>3 DEF Next

LEMMA ExportsInvariant == Spec => []ExportInv
<1>1. Init => ExportInv
  BY ExportInit
<1>2. ExportInv /\ [Next]_vars => ExportInv'
  BY ExportStep
<1> QED
  BY <1>1, <1>2, PTL DEF Spec
\* A step of one process moves no other.
LEMMA OnlyOneMoves ==
    ASSUME Shape, NEW r \in Procs, NEW p \in Procs \ {r},
           \/ Save(r) \/ SaveUnchanged(r) \/ Patch(r)
           \/ Open(r) \/ Flush(r) \/ WriteFails(r)
           \/ ExportMarkdown(r) \/ ExportConcept(r) \/ ListBundle(r) \/ WriteIndex(r)
           \/ Abort(r)
    PROVE  proc'[p].pc = proc[p].pc
<1>1. proc[p] \in ProcState
  BY DEF Shape
<1>2. ASSUME NEW op, NEW c, NEW mode, NEW record, NEW label,
             Begin(r, op, c, mode, record, label)
      PROVE  proc'[p].pc = proc[p].pc
  <2> DEFINE b == proc[p].alone /\ p \notin OthersAt(r, c, Writing \cup Exporting)
  <2>1. proc'[p] = [proc[p] EXCEPT !.alone = b]
    BY <1>2 DEF Begin
  <2> HIDE DEF b
  <2> QED
    BY <1>1, <2>1 DEF ProcState
<1>3. CASE Save(r) \/ SaveUnchanged(r) \/ Patch(r)
  BY <1>2, <1>3 DEF Save, SaveUnchanged, Patch
<1>4. CASE Open(r)
  BY <1>4, OpenMoves DEF Keeps
<1>5. CASE Flush(r)
  BY <1>5 DEF Flush, Shape
<1>6. ASSUME NEW label, MoveTo(r, label) PROVE proc'[p].pc = proc[p].pc
  BY <1>6 DEF MoveTo, Shape
<1>7. CASE WriteFails(r) \/ ExportMarkdown(r) \/ ExportConcept(r) \/ WriteIndex(r) \/ Abort(r)
  BY <1>6, <1>7 DEF WriteFails, ExportMarkdown, ExportConcept, WriteIndex, Abort
<1>8. CASE ListBundle(r)
  BY <1>8 DEF ListBundle, Shape
<1> QED
  BY <1>3, <1>4, <1>5, <1>7, <1>8

\* An operation of both formats ends, without a fault, with the index.
LEMMA EndsWithIndex ==
    ASSUME Shape, NEW p \in Procs, Ended(p), [Next]_vars,
           proc[p].mode.markdown, proc[p].mode.okf
    PROVE  proc[p].pc = "index" /\ WriteIndex(p)
<1>1. proc[p].pc # "idle" /\ proc'[p].pc = "idle" /\ faults' = faults
  BY DEF Ended
<1>2. faults \in Nat
  BY StoreAssumption DEF Shape
<1>3. proc' # proc
  BY <1>1
<1>4. PICK r \in Procs :
        \/ Save(r) \/ SaveUnchanged(r) \/ Patch(r)
        \/ Open(r) \/ Flush(r) \/ WriteFails(r)
        \/ ExportMarkdown(r) \/ ExportConcept(r) \/ ListBundle(r) \/ WriteIndex(r)
        \/ Abort(r)
  BY <1>3 DEF Next, vars
<1>5. r = p
  BY <1>1, <1>4, OnlyOneMoves
<1>6. ~Save(p) /\ ~SaveUnchanged(p) /\ ~Patch(p)
  BY <1>1 DEF Save, SaveUnchanged, Patch
<1>7. ~Open(p)
  BY <1>1, OpenMoves
<1>8. ~Flush(p)
  <2>1. AfterWrite(proc[p].mode) # "idle"
    BY DEF AfterWrite
  <2> QED
    BY <1>1, <2>1, FlushMoves
<1>9. ~WriteFails(p) /\ ~Abort(p)
  BY <1>1, <1>2 DEF WriteFails, Abort, Fail
<1>10. ~ExportMarkdown(p)
  <2>1. ASSUME MoveTo(p, "okf"), proc[p].pc = "markdown" PROVE FALSE
    <3>1. "okf" \in Labels
      BY DEF Labels, Exporting
    <3> QED
      BY <1>1, <2>1, <3>1, Moves
  <2> QED
    BY <2>1 DEF ExportMarkdown
<1>11. ~ExportConcept(p)
  <2>1. "list" \in Labels
    BY DEF Labels, Exporting
  <2> QED
    BY <1>1, <2>1, Moves DEF ExportConcept
<1>12. ~ListBundle(p)
  <2>1. ASSUME ListBundle(p) PROVE proc'[p].pc = "index"
    BY <2>1 DEF ListBundle, At, Shape, ProcState
  <2> QED
    BY <1>1, <2>1
<1> QED
  BY <1>4, <1>5, <1>6, <1>7, <1>8, <1>9, <1>10, <1>11, <1>12 DEF WriteIndex

\* When an operation that no other met, and that stored its document, ends, the
\* exports of the two formats are those of the document in the file.
THEOREM ExportsOfTheDocument == Spec => ExportsAgree
<1>1. ASSUME ExportInv, [Next]_vars, NEW p \in Procs,
             Ended(p), proc[p].alone, proc[p].stored \/ proc[p].pc = "flush",
             proc[p].mode.markdown, proc[p].mode.okf
      PROVE  LET c == proc[p].path
             IN  markdown'[c] = MarkdownView(file'[c]) /\ okf'[c] = OkfView(file'[c])
  <2>1. Shape /\ AloneOK(p)
    BY <1>1 DEF ExportInv, StoreInv
  <2>2. proc[p].pc = "index" /\ WriteIndex(p)
    BY <1>1, <2>1, EndsWithIndex
  <2>3. proc[p].alone = TRUE /\ proc[p].stored = TRUE /\ proc[p].mode.markdown = TRUE
    BY <1>1, <2>2
  <2>4. PICK c \in Paths, r \in Records : c = proc[p].path /\ r = proc[p].record
    BY <2>1, <2>2 DEF Shape
  <2>5. ExportsSoFar(p, c, r)
    BY <2>1, <2>2, <2>3, <2>4 DEF AloneOK, Alone
  <2>6. file[c] = r /\ markdown[c] = MarkdownView(r) /\ okf[c] = OkfView(r)
    BY <2>2, <2>3, <2>5 DEF ExportsSoFar, Exporting
  <2>7. UNCHANGED <<file, markdown, okf>>
    BY <2>2 DEF WriteIndex
  <2> QED
    BY <2>4, <2>6, <2>7
<1> DEFINE Agree ==
        \A p \in Procs :
          /\ Ended(p) /\ proc[p].alone
          /\ proc[p].stored \/ proc[p].pc = "flush"
          /\ proc[p].mode.markdown /\ proc[p].mode.okf
          => LET c == proc[p].path
             IN  markdown'[c] = MarkdownView(file'[c]) /\ okf'[c] = OkfView(file'[c])
<1>2. ExportInv /\ [Next]_vars => [Agree]_vars
  BY <1>1
<1> QED
  BY <1>2, ExportsInvariant, PTL DEF Spec, ExportsAgree

-----------------------------------------------------------------------------
(* The metadata store implements the document store of MetadataDocs: every *)
(* step of a process is one change of one document, or none.               *)

\* The value of a document before and after a step.
LEMMA DocValue ==
    ASSUME NEW c \in Paths, Undisturbed(c), OneWriter(c)
    PROVE  /\ \A p \in Procs : HasOpen(p, c) => Doc(c) = proc[p].record
           /\ (\A p \in Procs : ~HasOpen(p, c)) => Doc(c) = file[c]
<1>1. \A p, q \in Procs : HasOpen(p, c) /\ HasOpen(q, c) => p = q
  BY DEF OneWriter, HasOpen, Writer, Writing
<1>2. c \notin disturbed
  BY DEF Undisturbed
<1>3. ASSUME NEW p \in Procs, HasOpen(p, c) PROVE Doc(c) = proc[p].record
  <2>1. (CHOOSE q \in Procs : HasOpen(q, c)) = p
    BY <1>1, <1>3
  <2> QED
    BY <1>2, <1>3, <2>1 DEF Doc
<1> QED
  BY <1>2, <1>3 DEF Doc

LEMMA DocValueNext ==
    ASSUME NEW c \in Paths, Undisturbed(c)', OneWriter(c)'
    PROVE  /\ \A p \in Procs : HasOpen(p, c)' => Doc(c)' = proc'[p].record
           /\ (\A p \in Procs : ~HasOpen(p, c)') => Doc(c)' = file'[c]
<1>1. \A p, q \in Procs : HasOpen(p, c)' /\ HasOpen(q, c)' => p = q
  BY DEF OneWriter, HasOpen, Writer, Writing
<1>2. c \notin disturbed'
  BY DEF Undisturbed
<1>3. ASSUME NEW p \in Procs, HasOpen(p, c)' PROVE Doc(c)' = proc'[p].record
  <2>1. (CHOOSE q \in Procs : HasOpen(q, c)') = p
    BY <1>1, <1>3
  <2> QED
    BY <1>2, <1>3, <2>1 DEF Doc
<1> QED
  BY <1>2, <1>3 DEF Doc

\* A document stays when nobody opens, closes or disturbs its file.
LEMMA DocStays ==
    ASSUME StoreInv, StoreInv', NEW c \in Paths,
           c \in disturbed' <=> c \in disturbed, file'[c] = file[c],
           \A q \in Procs : /\ HasOpen(q, c)' <=> HasOpen(q, c)
                            /\ HasOpen(q, c) => proc'[q].record = proc[q].record
    PROVE  Doc(c)' = Doc(c)
<1>1. CASE c \in disturbed
  BY <1>1 DEF Doc
<1>2. CASE c \notin disturbed
  <2>1. Undisturbed(c) /\ Undisturbed(c)'
    BY <1>2 DEF Undisturbed
  <2>2. OneWriter(c) /\ OneWriter(c)'
    BY <2>1 DEF StoreInv, DocOK
  <2>3. CASE \E p \in Procs : HasOpen(p, c)
    BY <2>1, <2>2, <2>3, DocValue, DocValueNext
  <2>4. CASE \A p \in Procs : ~HasOpen(p, c)
    BY <2>1, <2>2, <2>4, DocValue, DocValueNext
  <2> QED
    BY <2>3, <2>4
<1> QED
  BY <1>1, <1>2

LEMMA OneDocChanges ==
    ASSUME NEW c \in Paths, \A d \in Paths \ {c} : Doc(d)' = Doc(d)
    PROVE  docs' = [docs EXCEPT ![c] = Doc(c)']
  BY DEF docs

LEMMA DocsStay ==
    ASSUME \A d \in Paths : Doc(d)' = Doc(d)
    PROVE  docs' = docs
  BY DEF docs

\* A document that is disturbed in this step, and no other changes.
LEMMA DocDisturbed ==
    ASSUME NEW c \in Paths, c \in disturbed', \A d \in Paths \ {c} : Doc(d)' = Doc(d)
    PROVE  Docs!Next
<1>1. Doc(c)' = Unknown
  BY DEF Doc
<1>2. Docs!Disturb(c)
  BY <1>1, OneDocChanges DEF Docs!Disturb
<1> QED
  BY <1>2 DEF Docs!Next

\* What an operation makes of a document is one of the changes of MetadataDocs.
LEMMA DocMade ==
    ASSUME NEW c \in Paths, NEW op, Makes(op, Doc(c), Doc(c)'),
           \A d \in Paths \ {c} : Doc(d)' = Doc(d)
    PROVE  Docs!Next
<1> DEFINE d == docs[c]
           r == Doc(c)'
<1>1. docs' = [docs EXCEPT ![c] = r] /\ d = Doc(c)
  BY OneDocChanges DEF docs
<1>2. Absent \notin Records /\ Unknown \notin Records \cup {Absent}
  BY StoreAssumption
<1>3. Makes(op, d, r)
  BY <1>1
<1>4. docs = [x \in Paths |-> docs[x]]
  BY DEF docs
<1> HIDE DEF r
<1>5. ASSUME d = Absent, NEW s \in Schemas, NEW a \in Ais \cup {NoAi},
             r = [schema |-> s, ai |-> a, owner |-> NoOwner]
      PROVE  Docs!Create(c, s, a)
  BY <1>1, <1>5 DEF Docs!Create
<1>6. ASSUME d \in Records, NEW s \in Schemas, NEW a \in Ais \cup {NoAi},
             r = [schema |-> s, ai |-> IF a = NoAi THEN d.ai ELSE a, owner |-> d.owner]
      PROVE  Docs!Rescan(c, s, a)
  <2>1. d \notin {Absent, Unknown}
    BY <1>2, <1>6
  <2> QED
    BY <1>1, <1>6, <2>1 DEF Docs!Rescan
<1>7. ASSUME Edits(d, r), r.owner \in Owners \/ r.owner = d.owner
      PROVE  \E s \in Schemas, a \in Ais \cup {NoAi}, o \in Owners \cup {NoOwner} :
                Docs!Edit(c, s, a, o)
  <2>1. d \notin {Absent, Unknown}
    BY <1>2, <1>7 DEF Edits
  <2>2. PICK s \in Schemas, a \in Ais \cup {NoAi}, o \in Owners \cup {NoOwner} :
          r = [schema |-> s, ai |-> a, owner |-> o]
    BY <1>7 DEF Edits, Records
  <2>3. /\ a = NoAi => d.ai = NoAi
        /\ o = NoOwner => d.owner = NoOwner
    BY <1>7, <2>2, ValuesAssumption DEF Edits
  <2> QED
    BY <1>1, <2>1, <2>2, <2>3 DEF Docs!Edit
<1> HIDE DEF d
<1> QED
  BY <1>3, <1>5, <1>6, <1>7 DEF Makes, Docs!Next

-----------------------------------------------------------------------------
(* The steps of the store                                                  *)

DocsStep == Docs!Next \/ docs' = docs

\* A step that opens and closes no file, with at most one document disturbed.
LEMMA QuietStep ==
    ASSUME StoreInv, StoreInv', NEW p \in Procs, NEW c \in Paths, file' = file,
           disturbed' = disturbed \/ disturbed' = disturbed \cup {c},
           \A q \in Procs : /\ HasOpen(q, c)' <=> HasOpen(q, c)
                            /\ HasOpen(q, c) => proc'[q].record = proc[q].record,
           \A d \in Paths \ {c} : \A q \in Procs :
              /\ HasOpen(q, d)' <=> HasOpen(q, d)
              /\ HasOpen(q, d) => proc'[q].record = proc[q].record
    PROVE  DocsStep
<1>1. \A d \in Paths \ {c} : Doc(d)' = Doc(d)
  BY DocStays
<1>2. CASE c \in disturbed'
  BY <1>1, <1>2, DocDisturbed DEF DocsStep
<1>3. CASE c \notin disturbed'
  <2>1. Doc(c)' = Doc(c)
    BY <1>3, DocStays
  <2> QED
    BY <1>1, <2>1, DocsStay DEF DocsStep
<1> QED
  BY <1>2, <1>3

\* An operation that begins has no file open, and may disturb its document.
LEMMA BeginImplements ==
    ASSUME StoreInv, StoreInv', NEW p \in Procs, proc[p].pc = "idle",
           NEW op \in {"save", "owner", "edit"}, NEW c \in Paths, NEW mode \in AllModes,
           NEW record \in Records, NEW label \in {"open", "markdown", "okf"},
           Begin(p, op, c, mode, record, label)
    PROVE  DocsStep
<1>1. /\ proc'[p].pc = label
      /\ \A q \in Procs \ {p} : Keeps(q)
  <2>1. Shape
    BY DEF StoreInv
  <2>2. Began(p, op, c, mode, record, label)
    BY <2>1, BeginMoves
  <2> QED
    BY <2>2 DEF Began
<1>2. \A d \in Paths : \A q \in Procs : /\ HasOpen(q, d)' <=> HasOpen(q, d)
                                        /\ HasOpen(q, d) => proc'[q].record = proc[q].record
  BY <1>1 DEF HasOpen, Keeps
<1>3. file' = file /\ (disturbed' = disturbed \/ disturbed' = disturbed \cup {c})
  BY DEF Begin
<1> QED
  BY <1>2, <1>3, QuietStep

LEMMA OperationsImplement ==
    ASSUME StoreInv, StoreInv', NEW p \in Procs, Save(p) \/ SaveUnchanged(p) \/ Patch(p)
    PROVE  DocsStep
<1>1. CASE SaveUnchanged(p)
  <2>1. PICK c \in Paths, mode \in Modes :
          /\ proc[p].pc = "idle" /\ Existing(c) # {} /\ AfterWrite(mode) # "idle"
          /\ Begin(p, "save", c, mode, file[c], AfterWrite(mode))
    BY <1>1 DEF SaveUnchanged
  <2>2. file[c] \in Records
    BY <2>1 DEF Existing
  <2>3. mode \in AllModes /\ AfterWrite(mode) \in {"markdown", "okf"}
    BY <2>1, StoreAssumption, AfterWriteType
  <2> QED
    BY <2>1, <2>2, <2>3, BeginImplements
<1>2. CASE Save(p)
  <2>1. PICK c \in Paths, mode \in Modes, s \in Schemas, a \in Ais \cup {NoAi} :
          /\ proc[p].pc = "idle"
          /\ Begin(p, "save", c, mode, Merged(c, s, a),
                   IF mode.save THEN "open" ELSE AfterWrite(mode))
    BY <1>2 DEF Save
  <2>2. Merged(c, s, a) \in Records
    BY MergedMakes DEF StoreInv
  <2>3. mode \in AllModes /\ (mode.save \/ mode.markdown \/ mode.okf)
    BY StoreAssumption
  <2> DEFINE label == IF mode.save THEN "open" ELSE AfterWrite(mode)
  <2>4. label \in {"open", "markdown", "okf"}
    BY <2>3 DEF AfterWrite
  <2>5. Begin(p, "save", c, mode, Merged(c, s, a), label)
    BY <2>1
  <2> HIDE DEF label
  <2> QED
    BY <2>1, <2>2, <2>3, <2>4, <2>5, BeginImplements
<1>3. CASE Patch(p)
  <2>1. PICK c \in Paths, r \in Records, op \in {"owner", "edit"} :
          proc[p].pc = "idle" /\ Begin(p, op, c, Idle.mode, r, "open")
    BY <1>3, PatchMakes
  <2>2. Idle.mode \in AllModes
    BY IdleType DEF ProcState
  <2> QED
    BY <2>1, <2>2, BeginImplements
<1> QED
  BY <1>1, <1>2, <1>3

\* Opening the file is where an undisturbed document changes.
LEMMA OpenImplements ==
    ASSUME StoreInv, StoreInv', NEW p \in Procs, Open(p)
    PROVE  DocsStep
<1>1. Shape /\ \A d \in Paths : DocOK(d) /\ DocOK(d)'
  BY DEF StoreInv
<1>2. PICK c \in Paths : c = proc[p].path
  BY <1>1 DEF Open, Shape
<1>3. /\ proc[p].pc = "open" /\ proc[p].path = c /\ disturbed' = disturbed
      /\ file' = [file EXCEPT ![c] = Torn]
  BY <1>2 DEF Open, observed
<1>4. /\ proc'[p].pc = "flush" /\ proc'[p].path = c /\ proc'[p].record = proc[p].record
      /\ \A q \in Procs \ {p} : Keeps(q)
  BY <1>1, <1>3, OpenMoves
<1>5. \A d \in Paths \ {c} : Doc(d)' = Doc(d)
  <2> SUFFICES ASSUME NEW d \in Paths \ {c} PROVE Doc(d)' = Doc(d)
    OBVIOUS
  <2>1. \A q \in Procs : /\ HasOpen(q, d)' <=> HasOpen(q, d)
                         /\ HasOpen(q, d) => proc'[q].record = proc[q].record
    BY <1>3, <1>4 DEF HasOpen, Keeps
  <2>2. file'[d] = file[d] /\ (d \in disturbed' <=> d \in disturbed)
    BY <1>1, <1>3 DEF Shape
  <2> QED
    BY <2>1, <2>2, DocStays
<1>6. CASE c \in disturbed
  BY <1>3, <1>5, <1>6, DocDisturbed DEF DocsStep
<1>7. CASE c \notin disturbed
  <2>1. Undisturbed(c) /\ Undisturbed(c)'
    BY <1>3, <1>7 DEF Undisturbed
  <2>2. OneWriter(c) /\ OneWriter(c)' /\ OpenOK(p, c)
    BY <1>1, <2>1 DEF DocOK
  <2>3. \A q \in Procs : ~HasOpen(q, c)
    BY <1>3, <2>2 DEF OneWriter, HasOpen, Writer, Writing
  <2>4. Doc(c) = file[c]
    BY <2>1, <2>2, <2>3, DocValue
  <2>5. HasOpen(p, c)'
    BY <1>4 DEF HasOpen
  <2>6. Doc(c)' = proc[p].record
    BY <1>4, <2>1, <2>2, <2>5, DocValueNext
  <2>7. Makes(proc[p].op, Doc(c), Doc(c)')
    BY <1>3, <2>2, <2>4, <2>6 DEF OpenOK
  <2> QED
    BY <1>5, <2>7, DocMade DEF DocsStep
<1> QED
  BY <1>6, <1>7

\* Closing it changes nothing any more.
LEMMA FlushImplements ==
    ASSUME StoreInv, StoreInv', NEW p \in Procs, Flush(p)
    PROVE  DocsStep
<1>1. Shape /\ \A d \in Paths : DocOK(d) /\ DocOK(d)'
  BY DEF StoreInv
<1>2. PICK c \in Paths : c = proc[p].path
  BY <1>1 DEF Flush, Shape
<1>3. /\ proc[p].pc = "flush" /\ proc[p].path = c /\ disturbed' = disturbed
      /\ \/ file' = [file EXCEPT ![c] = proc[p].record]
         \/ proc[p].clash /\ file' = [file EXCEPT ![c] = Torn]
  BY <1>2 DEF Flush
<1>4. /\ proc'[p].pc \in {"markdown", "okf", "idle"}
      /\ \A q \in Procs \ {p} : proc'[q] = proc[q]
  BY <1>1, FlushMoves
<1>5. \A d \in Paths \ {c} : Doc(d)' = Doc(d)
  <2> SUFFICES ASSUME NEW d \in Paths \ {c} PROVE Doc(d)' = Doc(d)
    OBVIOUS
  <2>1. \A q \in Procs : /\ HasOpen(q, d)' <=> HasOpen(q, d)
                         /\ HasOpen(q, d) => proc'[q].record = proc[q].record
    BY <1>3, <1>4 DEF HasOpen
  <2>2. file'[d] = file[d] /\ (d \in disturbed' <=> d \in disturbed)
    BY <1>1, <1>3 DEF Shape
  <2> QED
    BY <2>1, <2>2, DocStays
<1>6. CASE c \in disturbed
  BY <1>3, <1>5, <1>6, DocDisturbed DEF DocsStep
<1>7. CASE c \notin disturbed
  <2>1. Undisturbed(c) /\ Undisturbed(c)'
    BY <1>3, <1>7 DEF Undisturbed
  <2>2. OneWriter(c) /\ OneWriter(c)' /\ FlushOK(p, c) /\ HasOpen(p, c)
    BY <1>1, <1>3, <2>1 DEF DocOK, HasOpen
  <2>3. Doc(c) = proc[p].record
    BY <2>1, <2>2, DocValue
  <2>4. \A q \in Procs : ~HasOpen(q, c)'
    <3>1. \A q \in Procs \ {p} : ~HasOpen(q, c)
      BY <2>2 DEF OneWriter, HasOpen, Writer, Writing
    <3> QED
      BY <1>4, <3>1 DEF HasOpen
  <2>5. Doc(c)' = file'[c]
    BY <2>1, <2>2, <2>4, DocValueNext
  <2>6. file'[c] = proc[p].record
    BY <1>1, <1>3, <2>2 DEF Shape, FlushOK
  <2> QED
    BY <1>5, <2>3, <2>5, <2>6, DocsStay DEF DocsStep
<1> QED
  BY <1>6, <1>7

\* A write that is given up disturbs the document, if the file is open.
LEMMA FailuresImplement ==
    ASSUME StoreInv, StoreInv', NEW p \in Procs, WriteFails(p) \/ Abort(p)
    PROVE  DocsStep
<1>1. Shape
  BY DEF StoreInv
<1>2. PICK c \in Paths : c = proc[p].path
  BY <1>1 DEF WriteFails, Abort, Writing, Shape
<1>3. /\ proc[p].path = c /\ file' = file
      /\ disturbed' = IF proc[p].pc = "flush" THEN disturbed \cup {c} ELSE disturbed
  BY <1>2 DEF WriteFails, Abort
<1>4. \A q \in Procs \ {p} : proc'[q] = proc[q]
  BY <1>1 DEF WriteFails, Abort, MoveTo, Shape
<1>5. proc'[p].pc # "flush"
  <2>1. PICK label \in {"markdown", "okf", "idle"} : MoveTo(p, label)
    BY <1>1, AfterWriteType DEF WriteFails, Abort, Shape, ProcState
  <2>2. label \in Labels /\ label # "index" /\ label # "flush" /\ proc[p].pc # "idle"
    BY DEF Labels, Exporting, WriteFails, Abort, Writing
  <2> QED
    BY <1>1, <2>1, <2>2, Moves
<1>6. \A d \in Paths \ {c} : Doc(d)' = Doc(d)
  <2> SUFFICES ASSUME NEW d \in Paths \ {c} PROVE Doc(d)' = Doc(d)
    OBVIOUS
  <2>1. \A q \in Procs : /\ HasOpen(q, d)' <=> HasOpen(q, d)
                         /\ HasOpen(q, d) => proc'[q].record = proc[q].record
    BY <1>3, <1>4, <1>5 DEF HasOpen
  <2>2. file'[d] = file[d] /\ (d \in disturbed' <=> d \in disturbed)
    BY <1>3
  <2> QED
    BY <2>1, <2>2, DocStays
<1>7. CASE proc[p].pc = "flush"
  BY <1>3, <1>6, <1>7, DocDisturbed DEF DocsStep
<1>8. CASE proc[p].pc # "flush"
  <2>1. \A q \in Procs : /\ HasOpen(q, c)' <=> HasOpen(q, c)
                         /\ HasOpen(q, c) => proc'[q].record = proc[q].record
    BY <1>4, <1>5, <1>8 DEF HasOpen
  <2>2. Doc(c)' = Doc(c)
    BY <1>3, <1>8, <2>1, DocStays
  <2> QED
    BY <1>6, <2>2, DocsStay DEF DocsStep
<1> QED
  BY <1>7, <1>8

LEMMA ExportsImplement ==
    ASSUME StoreInv, StoreInv', NEW p \in Procs,
           ExportMarkdown(p) \/ ExportConcept(p) \/ ListBundle(p) \/ WriteIndex(p)
    PROVE  docs' = docs
<1>1. Shape
  BY DEF StoreInv
<1>2. /\ proc[p].pc # "flush" /\ file' = file /\ disturbed' = disturbed
  BY DEF ExportMarkdown, ExportConcept, ListBundle, WriteIndex, observed
<1>3. \A q \in Procs \ {p} : proc'[q] = proc[q]
  BY <1>1 DEF ExportMarkdown, ExportConcept, ListBundle, WriteIndex, MoveTo, Shape
<1>4. proc'[p].pc # "flush"
  <2>1. CASE ListBundle(p)
    BY <1>1, <2>1 DEF ListBundle, At, Shape, ProcState
  <2>2. CASE ~ListBundle(p)
    <3>1. PICK label \in {"okf", "list", "idle"} : MoveTo(p, label)
      BY <2>2 DEF ExportMarkdown, ExportConcept, WriteIndex
    <3>2. label \in Labels /\ label # "index" /\ label # "flush" /\ proc[p].pc # "idle"
      BY DEF Labels, Exporting, ExportMarkdown, ExportConcept, ListBundle, WriteIndex
    <3> QED
      BY <1>1, <3>1, <3>2, Moves
  <2> QED
    BY <2>1, <2>2
<1>5. \A d \in Paths : Doc(d)' = Doc(d)
  <2> SUFFICES ASSUME NEW d \in Paths PROVE Doc(d)' = Doc(d)
    OBVIOUS
  <2>1. \A q \in Procs : /\ HasOpen(q, d)' <=> HasOpen(q, d)
                         /\ HasOpen(q, d) => proc'[q].record = proc[q].record
    BY <1>2, <1>3, <1>4 DEF HasOpen
  <2> QED
    BY <1>2, <2>1, DocStays
<1> QED
  BY <1>5, DocsStay

-----------------------------------------------------------------------------
\* At the start there is no document.
LEMMA InitImplements == Init => Docs!Init
<1> SUFFICES ASSUME Init PROVE docs = [c \in Paths |-> Absent]
  BY DEF Docs!Init
<1>1. ASSUME NEW c \in Paths PROVE Doc(c) = Absent
  <2>1. \A p \in Procs : ~HasOpen(p, c)
    BY DEF Init, Idle, HasOpen
  <2> QED
    BY <2>1 DEF Init, Doc
<1> QED
  BY <1>1 DEF docs

\* The metadata store, with any number of processes that interleave, crash and fail,
\* is the document store of MetadataDocs.
THEOREM StoreImplementsDocs == Spec => ImplementsDocs
<1>1. StoreInv /\ StoreInv' /\ [Next]_vars => [Docs!Next]_docs
  <2> SUFFICES ASSUME StoreInv, StoreInv', [Next]_vars PROVE DocsStep
    BY DEF DocsStep
  <2>1. CASE UNCHANGED vars
    BY <2>1 DEF vars, observed, docs, Doc, HasOpen, DocsStep
  <2>2. ASSUME NEW p \in Procs,
               \/ Save(p) \/ SaveUnchanged(p) \/ Patch(p)
               \/ Open(p) \/ Flush(p) \/ WriteFails(p)
               \/ ExportMarkdown(p) \/ ExportConcept(p) \/ ListBundle(p) \/ WriteIndex(p)
               \/ Abort(p)
        PROVE  DocsStep
    BY <2>2, OperationsImplement, OpenImplements, FlushImplements, FailuresImplement,
       ExportsImplement DEF DocsStep
  <2> QED
    BY <2>1, <2>2 DEF Next
<1> QED
  BY <1>1, InitImplements, StoreInvariant, PTL DEF Spec, ImplementsDocs, Docs!Spec
=============================================================================
