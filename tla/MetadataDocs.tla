---------------------------- MODULE MetadataDocs ----------------------------
(***************************************************************************)
(* What the metadata store promises of each document: it changes as a      *)
(* whole, an automated save keeps what humans wrote in it, and an edit     *)
(* gives fields of a document that exists a value.  The promise holds      *)
(* until two operations on the document overlap, or one is cut short.      *)
(***************************************************************************)
CONSTANTS Paths, Schemas, Ais, NoAi, Owners, NoOwner, Absent, Unknown

VARIABLE docs

Init == docs = [c \in Paths |-> Absent]

\* save_table_metadata, the first time and again.
Create(c, s, a) ==
    /\ docs[c] = Absent
    /\ docs' = [docs EXCEPT ![c] = [schema |-> s, ai |-> a, owner |-> NoOwner]]

Rescan(c, s, a) ==
    /\ docs[c] \notin {Absent, Unknown}
    /\ docs' = [docs EXCEPT ![c] =
                  [schema |-> s, ai |-> IF a = NoAi THEN @.ai ELSE a, owner |-> @.owner]]

\* update_table_metadata of any fields: none is taken away.
Edit(c, s, a, o) ==
    /\ docs[c] \notin {Absent, Unknown}
    /\ a = NoAi => docs[c].ai = NoAi
    /\ o = NoOwner => docs[c].owner = NoOwner
    /\ docs' = [docs EXCEPT ![c] = [schema |-> s, ai |-> a, owner |-> o]]

\* From here on nothing is promised of the document.
Disturb(c) == docs' = [docs EXCEPT ![c] = Unknown]

Next == \E c \in Paths :
    \/ \E s \in Schemas, a \in Ais \cup {NoAi} : Create(c, s, a) \/ Rescan(c, s, a)
    \/ \E s \in Schemas, a \in Ais \cup {NoAi}, o \in Owners \cup {NoOwner} :
          Edit(c, s, a, o)
    \/ Disturb(c)

Spec == Init /\ [][Next]_docs
=============================================================================
