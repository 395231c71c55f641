--------------------------- MODULE ArtifactStore ---------------------------
(***************************************************************************)
(* The files that FileArtifactStore derives from metadata records: one     *)
(* Markdown file and one OKF concept per table, and the index of the OKF   *)
(* bundle.  Each is replaced as a whole (a temporary file and os.replace). *)
(* The temporary file a crash leaves behind has no .md suffix, so nothing  *)
(* reads it and it is not part of the state.                               *)
(***************************************************************************)
EXTENDS Integers, FiniteSets

CONSTANTS
    Paths,        \* one per configuration that owns a table of this name
    Schemas,      \* schema descriptions
    Ais, NoAi,    \* AI documentations, and none
    Owners, NoOwner,  \* a custom field that humans write, and none
    Absent        \* no such file

ASSUME ValuesAssumption ==
    NoAi \notin Ais /\ NoOwner \notin Owners /\ Absent \notin Ais \cup {NoAi}

VARIABLES
    markdown, okf,  \* the exports of each path
    index           \* the descriptions index.md gives, Absent when not listed

artifacts == <<markdown, okf, index>>

Records == [schema : Schemas, ai : Ais \cup {NoAi}, owner : Owners \cup {NoOwner}]

\* What the two renderers keep: Markdown does not show the owner.
MarkdownView(record) == [schema |-> record.schema, ai |-> record.ai]
OkfView(record) == [schema |-> record.schema, ai |-> record.ai, owner |-> record.owner]

ArtifactsInit ==
    /\ markdown = [c \in Paths |-> Absent]
    /\ okf = [c \in Paths |-> Absent]
    /\ index = [c \in Paths |-> Absent]

WriteMarkdown(c, record) == markdown' = [markdown EXCEPT ![c] = MarkdownView(record)]

WriteConcept(c, record) == okf' = [okf EXCEPT ![c] = OkfView(record)]

\* Mutant: the index gives the whole concept as the description.
Listing_Whole == [c \in Paths |-> okf[c]]

\* _write_okf_index reads every concept of the bundle, and its description.
Listing == [c \in Paths |-> IF okf[c] = Absent THEN Absent ELSE okf[c].ai]

ArtifactsOK ==
    /\ markdown \in [Paths -> [schema : Schemas, ai : Ais \cup {NoAi}] \cup {Absent}]
    /\ okf \in [Paths -> Records \cup {Absent}]
    /\ index \in [Paths -> Ais \cup {NoAi, Absent}]
=============================================================================
