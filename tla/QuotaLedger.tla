----------------------------- MODULE QuotaLedger -----------------------------
(***************************************************************************)
(* What the upload accounting promises, without its tables: an upload is   *)
(* charged from the moment it is admitted until its content is gone, it is *)
(* admitted only if it fits, and content exists only while it is charged.  *)
(* DocumentUpload implements this module (see DocumentUploadProofs).       *)
(***************************************************************************)
EXTENDS Integers

CONSTANTS
    Upload, Project, User,
    ProjectOf, UserOf, Size,
    Bytes(_),       \* the bytes of a set of uploads
    Count(_),       \* the number of uploads in a set
    ProjectLimit, UserLimit, CountLimit

VARIABLES
    phase,   \* new -> held -> published -> releasing -> free
    stored   \* uploads with content on disk or in the vector index

ledgerVars == <<phase, stored>>

Phase == {"new", "held", "published", "releasing", "free"}

Charged == {u \in Upload : phase[u] \in {"held", "published", "releasing"}}

OfProject(p) == {u \in Upload : ProjectOf[u] = p}
OfUser(x)    == {u \in Upload : UserOf[u] = x}

Init ==
    /\ phase = [u \in Upload |-> "new"]
    /\ stored = {}

Admit(u) ==
    /\ phase[u] = "new"
    /\ Bytes(OfProject(ProjectOf[u]) \cap Charged) + Size[u] <= ProjectLimit
    /\ Bytes(OfUser(UserOf[u]) \cap Charged) + Size[u] <= UserLimit
    /\ Count(OfProject(ProjectOf[u]) \cap Charged) + 1 <= CountLimit
    /\ phase' = [phase EXCEPT ![u] = "held"]
    /\ UNCHANGED stored

Store(u) ==
    /\ phase[u] = "held"
    /\ stored' = stored \cup {u}
    /\ UNCHANGED phase

Publish(u) ==
    /\ phase[u] = "held" /\ u \in stored
    /\ phase' = [phase EXCEPT ![u] = "published"]
    /\ UNCHANGED stored

Discard(u) ==
    /\ phase[u] \in {"held", "published"}
    /\ phase' = [phase EXCEPT ![u] = "releasing"]
    /\ UNCHANGED stored

Erase(u) ==
    /\ phase[u] = "releasing"
    /\ stored' = stored \ {u}
    /\ UNCHANGED phase

\* The last of the content may go in the step that gives the charge back.
Free(u) ==
    /\ phase[u] = "releasing"
    /\ phase' = [phase EXCEPT ![u] = "free"]
    /\ stored' = stored \ {u}

Next == \E u \in Upload :
    Admit(u) \/ Store(u) \/ Publish(u) \/ Discard(u) \/ Erase(u) \/ Free(u)

Spec == Init /\ [][Next]_ledgerVars

-----------------------------------------------------------------------------
\* Content exists only while somebody is charged for it.
StoredIsCharged == stored \subseteq Charged

=============================================================================
