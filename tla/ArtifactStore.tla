--------------------------- MODULE ArtifactStore ---------------------------
(***************************************************************************)
(* The artifact store of src/src/orchestration/artifacts.py: an index of   *)
(* rows (job, logical key, digest) in artifacts.db and content-addressed   *)
(* blobs in the file system.  put_bytes looks the key up, writes the blob  *)
(* and reads it back, and inserts the row in a transaction of its own: the *)
(* three parts are steps, so that other processes come between them.  A    *)
(* blob is named by its digest, so a digest stands for the content, its    *)
(* size and its media type.  One tenant.                                   *)
(***************************************************************************)
EXTENDS Naturals, FiniteSets

CONSTANTS
    Jobs,
    Keys,       \* logical keys of a job's artifacts
    Digests,    \* contents
    Writers     \* processes that call put_bytes

VARIABLES
    rows,       \* the artifacts table
    blobs,      \* digests with a file under tenants/<tenant>/blobs
    put         \* writer -> its put_bytes call in progress

astoreVars == <<rows, blobs, put>>

Binding == [job: Jobs, key: Keys, digest: Digests]

\* No call in progress: the arguments are arbitrary.
NoPut == [pc |-> "idle", arg |-> CHOOSE b \in Binding : TRUE]

AInit ==
    /\ rows = {}
    /\ blobs = {}
    /\ put = [w \in Writers |-> NoPut]

Bound(job, key) == {r \in rows : r.job = job /\ r.key = key}

BindingsOf(job) == {r \in rows : r.job = job}

\* put_bytes on a key that has a row returns it or raises: nothing is written.
PutLookup(w, b) ==
    /\ put[w].pc = "idle"
    /\ Bound(b.job, b.key) = {}
    /\ put' = [put EXCEPT ![w] = [pc |-> "write", arg |-> b]]
    /\ UNCHANGED <<rows, blobs>>

\* The blob is linked into place unless it is there, and read back.
PutWrite(w) ==
    /\ put[w].pc = "write"
    /\ blobs' = blobs \cup {put[w].arg.digest}
    /\ put' = [put EXCEPT ![w].pc = "commit"]
    /\ UNCHANGED rows

\* BEGIN IMMEDIATE ... COMMIT.  A row that came meanwhile is returned, or is
\* an ArtifactConflict when it holds other content; it is never replaced.
PutCommit(w) ==
    /\ put[w].pc = "commit"
    /\ rows' = IF Bound(put[w].arg.job, put[w].arg.key) = {}
               THEN rows \cup {put[w].arg} ELSE rows
    /\ put' = [put EXCEPT ![w] = NoPut]
    /\ UNCHANGED blobs

\* The writer is killed: a blob it wrote stays, without a row.
PutCrash(w) ==
    /\ put[w].pc # "idle"
    /\ put' = [put EXCEPT ![w] = NoPut]
    /\ UNCHANGED <<rows, blobs>>

\* get_ref and read_bytes: the reference is the row's, and its blob is there.
Readable(r) == r \in rows /\ r.digest \in blobs
=============================================================================
