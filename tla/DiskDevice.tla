------------------------------ MODULE DiskDevice ------------------------------
\* A redirected directory (protocol/rdpdr/disk.go, DiskDevice): the files the
\* server holds open on it, what each request does to the directory, and the user
\* of this machine who changes the same directory meanwhile.  The directory is
\* flat: names and the objects they stand for.  Reading and writing go through the
\* open file; querying, renaming, deleting and listing go through the recorded path.
\* Each request is answered by one completion with the status of its outcome.
EXTENDS Integers, FiniteSets, Sequences, SequencesExt

CONSTANTS Names,        \* names in the shared directory
          Root,         \* the shared directory itself
          MaxObjects,   \* bound: files and directories that ever exist
          MaxCreates,   \* bound: files the server opens
          MaxOpen,      \* maxOpenFiles, 4096 in the code
          MaxLocal      \* bound: changes the user of this machine makes

VARIABLES readOnly,     \* DiskDevice.readOnly
          tree,         \* path -> object, 0 when there is none
          kind,         \* object -> "file", "dir", or "none" before it exists
          size,         \* object -> 1 when it holds data
          files,        \* DiskDevice.files: FileId -> openFile
          nextID, fds,  \* fds: files this process has open on the directory
          astray,       \* a request reached another object than the handle's, whose
                        \* path nobody else had touched
          touched,      \* operations that changed a directory shared read-only
          refused,      \* failed creates that changed the directory
          local         \* changes made by the user of this machine

vars == <<readOnly, tree, kind, size, files, nextID, fds, astray, touched, refused, local>>

Paths == Names \cup {Root}
Objects == 1..MaxObjects
None == 0
Exists(p) == tree[p] # None
IsDir(p) == Exists(p) /\ kind[tree[p]] = "dir"
Unused == {o \in Objects : kind[o] = "none"}
Fresh == CHOOSE o \in Unused : \A q \in Unused : o <= q

Init ==
    /\ readOnly \in BOOLEAN
    /\ \E present \in SUBSET Names :
         tree = [p \in Paths |-> IF p = Root THEN 1 ELSE IF p \in present THEN 2 ELSE None]
    /\ \A p, q \in Names : tree[p] # None /\ tree[q] # None => p = q
    /\ kind = [o \in Objects |-> IF o = 1 THEN "dir" ELSE IF o = 2 THEN "file" ELSE "none"]
    /\ size = [o \in Objects |-> IF o = 2 THEN 1 ELSE 0]
    /\ files = <<>> /\ nextID = 1 /\ fds = 0
    /\ astray = FALSE /\ touched = {} /\ refused = {} /\ local = 0

\* What a request leaves behind: the directory and how it ended.  A handle whose
\* path changes hands without its doing is marked; a listing remembers which names
\* have been there since it began.
Outcome(status, t, k, s) == [status |-> status, tree |-> t, kind |-> k, size |-> s]
Same(status) == Outcome(status, tree, kind, size)
Made(p, what) == Outcome("Success", [tree EXCEPT ![p] = Fresh], [kind EXCEPT ![Fresh] = what], size)
Changes(out) == <<out.tree, out.size>> # <<tree, size>>
Leaves(op, out) ==
    /\ tree' = out.tree /\ kind' = out.kind /\ size' = out.size
    /\ touched' = IF readOnly /\ Changes(out) THEN touched \cup {op} ELSE touched
Marked(fs, doer, t) ==
    [h \in DOMAIN fs |->
        [fs[h] EXCEPT !.moved = @ \/ (h # doer /\ t[fs[h].path] # tree[fs[h].path]),
                      !.stay = {n \in @ : t[n] # None}]]

\* createDirectory, then os.Open
CreateDirectory(p, disposition) ==
    CASE disposition = "Open" -> Same(IF ~Exists(p) THEN "ObjectNameNotFound"
                                      ELSE IF IsDir(p) THEN "Success" ELSE "Unsuccessful")
      [] disposition = "Create" -> IF readOnly THEN Same("AccessDenied")
                                   ELSE IF Exists(p) THEN Same("ObjectNameCollision") ELSE Made(p, "dir")
      [] disposition = "OpenIf" -> IF IsDir(p) THEN Same("Success")
                                   ELSE IF readOnly THEN Same("AccessDenied")
                                   ELSE IF Exists(p) THEN Same("Unsuccessful") ELSE Made(p, "dir")
      [] OTHER -> Same(IF Exists(p) THEN "Success" ELSE "ObjectNameNotFound")

Superseded(p) == IF readOnly THEN Same("AccessDenied") ELSE Made(p, "file")

\* createFile
CreateFile(p, disposition) ==
    CASE disposition = "Open" -> Same(IF Exists(p) THEN "Success" ELSE "ObjectNameNotFound")
      [] disposition = "Create" -> IF readOnly THEN Same("AccessDenied")
                                   ELSE IF Exists(p) THEN Same("ObjectNameCollision") ELSE Made(p, "file")
      [] disposition = "OpenIf" -> IF Exists(p) THEN Same("Success")
                                   ELSE IF readOnly THEN Same("AccessDenied") ELSE Made(p, "file")
      [] disposition = "Overwrite" -> IF readOnly THEN Same("AccessDenied")
                                      ELSE IF Exists(p) THEN Outcome("Success", tree, kind, [size EXCEPT ![tree[p]] = 0])
                                      ELSE Made(p, "file")
      [] OTHER -> Superseded(p)

OpenAfterRefusal == fds

\* handleCreate: the file is opened, made, emptied or replaced before the limit on
\* open files is looked at.  The server does not ask for the shared directory itself
\* to be replaced or deleted.
HandleCreate(p, want, disposition, deleteOnClose) ==
    LET asDir == want = "dir" \/ (want = "any" /\ IsDir(p))
        out == IF asDir THEN CreateDirectory(p, disposition) ELSE CreateFile(p, disposition)
        opened == [obj |-> out.tree[p], path |-> p, isDir |-> asDir, deleteOnClose |-> deleteOnClose,
                   entries |-> <<>>, index |-> 0, pattern |-> "*", started |-> FALSE,
                   moved |-> FALSE, stay |-> {}, got |-> <<>>]
        over == Cardinality(DOMAIN files) >= MaxOpen
    IN /\ nextID <= MaxCreates \/ over
       /\ (p = Root => disposition = "Open" /\ ~deleteOnClose)
       /\ UNCHANGED <<readOnly, astray, local>>
       /\ IF want = "file" /\ IsDir(p)
          THEN UNCHANGED <<tree, kind, size, files, nextID, fds, touched, refused>>
          ELSE /\ Unused # {}
               /\ Leaves("create", out)
               /\ refused' = IF ~Changes(out) THEN refused
                             ELSE IF out.status # "Success" THEN refused \cup {out.status}
                             ELSE IF over THEN refused \cup {"TooManyOpenedFiles"} ELSE refused
               /\ LET others == Marked(files, None, out.tree)
                  IN IF out.status # "Success"
                     THEN files' = others /\ UNCHANGED <<nextID, fds>>
                     ELSE IF over
                     THEN files' = others /\ fds' = OpenAfterRefusal /\ UNCHANGED nextID
                     ELSE nextID' = nextID + 1 /\ fds' = fds + 1
                          /\ files' = [h \in DOMAIN files \cup {nextID} |-> IF h = nextID THEN opened ELSE others[h]]

Reaches(f) == astray' = (astray \/ (tree[f.path] # f.obj /\ ~f.moved))

\* handleClose: os.RemoveAll of the recorded path
HandleClose(id) ==
    /\ UNCHANGED <<readOnly, nextID, refused, local>>
    /\ IF id \in DOMAIN files
       THEN LET f == files[id]
                t == IF f.deleteOnClose THEN [tree EXCEPT ![f.path] = None] ELSE tree
                rest == [h \in DOMAIN files \ {id} |-> files[h]]
            IN /\ fds' = fds - 1 /\ Leaves("close", Outcome("Success", t, kind, size))
               /\ files' = Marked(rest, id, t)
               /\ IF f.deleteOnClose THEN Reaches(f) ELSE UNCHANGED astray
       ELSE UNCHANGED <<tree, kind, size, files, fds, astray, touched>>

\* handleWrite and the end-of-file part of handleSetInfo go through the open file.
HandleWrite(id, data) ==
    LET ok == ~readOnly /\ id \in DOMAIN files /\ kind[files[id].obj] = "file"
        out == IF ok THEN Outcome("Success", tree, kind, [size EXCEPT ![files[id].obj] = data])
               ELSE Same(IF readOnly THEN "AccessDenied" ELSE "NoSuchFile")
    IN /\ Leaves("write", out)
       /\ UNCHANGED <<readOnly, files, nextID, fds, astray, refused, local>>

\* handleQueryInfo: os.Stat of the recorded path
HandleQueryInfo(id) ==
    /\ id \in DOMAIN files
    /\ Reaches(files[id])
    /\ UNCHANGED <<readOnly, tree, kind, size, files, nextID, fds, touched, refused, local>>

SetRefused == readOnly

\* handleSetInfo, FileDispositionInformation
HandleDisposition(id, delete) ==
    /\ id \in DOMAIN files /\ files[id].path # Root
    /\ files' = IF SetRefused THEN files ELSE [files EXCEPT ![id].deleteOnClose = delete]
    /\ UNCHANGED <<readOnly, tree, kind, size, nextID, fds, astray, touched, refused, local>>

\* os.Rename: never onto a directory, and a directory never onto a file; whether
\* the server allowed a replacement is not looked at.
MayRename(from, to) ==
    Exists(from) /\ ~IsDir(to) /\ (IsDir(from) => ~Exists(to))
Renamed(f, to) == [f EXCEPT !.path = to]

\* handleSetInfo, FileRenameInformation
HandleRename(id, to) ==
    /\ id \in DOMAIN files /\ files[id].path # Root
    /\ UNCHANGED <<readOnly, nextID, fds, refused, local>>
    /\ LET f == files[id]
           ok == ~SetRefused /\ MayRename(f.path, to)
           t == IF f.path = to THEN tree ELSE [tree EXCEPT ![to] = tree[f.path], ![f.path] = None]
       IN IF ok
          THEN /\ Leaves("rename", Outcome("Success", t, kind, size)) /\ Reaches(f)
               /\ files' = [Marked(files, id, t) EXCEPT ![id] = Renamed(@, to)]
          ELSE UNCHANGED <<tree, kind, size, files, astray, touched>>

Listing == SetToSeq({n \in Names : Exists(n)})
Restart_KeepsIndex(f, pattern) ==
    [f EXCEPT !.entries = Listing, !.pattern = pattern, !.started = TRUE,
              !.stay = {n \in Names : Exists(n)}, !.got = <<>>]
Restart(f, pattern) ==
    [f EXCEPT !.entries = Listing, !.index = 0, !.pattern = pattern, !.started = TRUE,
              !.stay = {n \in Names : Exists(n)}, !.got = <<>>]

\* matchPattern
Matches(pattern, n) == pattern = "*" \/ pattern = n
\* The entries from index on that are returned: . and .. only for a pattern that
\* matches everything, and no name that is gone meanwhile.
Shown(f, i) ==
    IF i < 2 THEN f.pattern = "*" ELSE Matches(f.pattern, f.entries[i - 1]) /\ Exists(f.entries[i - 1])
Answer(f) ==
    LET rest == {i \in f.index..(Len(f.entries) + 1) : Shown(f, i)}
    IN IF ~f.started \/ rest = {} THEN None - 1 ELSE CHOOSE i \in rest : \A j \in rest : i <= j

\* handleQueryDirectory: one entry per request
HandleQueryDirectory(id, initial, pattern) ==
    /\ id \in DOMAIN files
    /\ UNCHANGED <<readOnly, tree, kind, size, nextID, fds, astray, touched, refused, local>>
    /\ IF initial /\ files[id].path # Root
       THEN UNCHANGED files
       ELSE LET f == IF initial THEN Restart(files[id], pattern) ELSE files[id]
                i == Answer(f)
            IN IF i < 0
               THEN files' = [files EXCEPT ![id] = [f EXCEPT !.index = IF f.started THEN Len(f.entries) + 2 ELSE @]]
               ELSE files' = [files EXCEPT ![id] =
                        [f EXCEPT !.index = i + 1, !.got = IF i < 2 THEN @ ELSE Append(@, f.entries[i - 1])]]

\* external: the user of this machine makes, deletes or renames a file
UserChanges(t, k) ==
    /\ local < MaxLocal /\ local' = local + 1
    /\ tree' = t /\ kind' = k /\ files' = Marked(files, None, t)
    /\ UNCHANGED <<readOnly, size, nextID, fds, astray, touched, refused>>
UserMakes(n) == ~Exists(n) /\ Unused # {} /\ UserChanges([tree EXCEPT ![n] = Fresh], [kind EXCEPT ![Fresh] = "file"])
UserDeletes(n) == Exists(n) /\ UserChanges([tree EXCEPT ![n] = None], kind)
UserRenames(n, to) == n # to /\ MayRename(n, to) /\ UserChanges([tree EXCEPT ![to] = tree[n], ![n] = None], kind)

Next ==
    \/ \E p \in Paths, want \in {"dir", "file", "any"}, del \in BOOLEAN,
         d \in {"Open", "Create", "OpenIf", "Overwrite", "Supersede"} : HandleCreate(p, want, d, del)
    \/ \E id \in 1..nextID : HandleClose(id)
    \/ \E id \in DOMAIN files, data \in {0, 1} : HandleWrite(id, data)
    \/ \E id \in DOMAIN files : HandleQueryInfo(id)
    \/ \E id \in DOMAIN files, delete \in BOOLEAN : HandleDisposition(id, delete)
    \/ \E id \in DOMAIN files, to \in Names : HandleRename(id, to)
    \/ \E id \in DOMAIN files, initial \in BOOLEAN, pattern \in Names \cup {"*"} :
         /\ ~initial => pattern = "*"
         /\ HandleQueryDirectory(id, initial, pattern)
    \/ \E n \in Names : UserMakes(n) \/ UserDeletes(n) \/ \E to \in Names : UserRenames(n, to)

Spec == Init /\ [][Next]_vars

\* A directory shared read-only is left as it is, except that closing a handle
\* opened with FILE_DELETE_ON_CLOSE deletes (see ReadOnlyStrict): writing, creating,
\* truncating, renaming and marking for deletion are refused one by one.
ReadOnlyKept == readOnly => touched \subseteq {"close"}

\* What the option promises: the server cannot change a directory shared read-only.
ReadOnlyStrict == readOnly => touched = {}

\* No file stays open without a handle the server can close: also a create refused
\* for the limit closes what it opened.
FilesAreHandles == fds = Cardinality(DOMAIN files) /\ fds <= MaxOpen

\* A handle and its path mean the same object: what a query describes, a rename
\* moves and a close deletes is what the handle opened, unless another handle or the
\* user of this machine put something else under the path meanwhile.
PathIsHandle == ~astray

\* A listing that has ended gave every name that was there all along and matches,
\* and gave none twice, whatever was made, deleted or renamed meanwhile and however
\* often the listing was started again.
ListedOnce ==
    \A h \in DOMAIN files : LET f == files[h] IN
        /\ IsInjective(f.got)
        /\ f.started /\ Answer(f) < 0 => {n \in f.stay : Matches(f.pattern, n)} \subseteq ToSet(f.got)

\* A create that fails leaves the directory as it was, except one refused for the
\* limit on open files: that has already made, emptied or replaced the file.
FailedCreateHarmless == refused \subseteq {"TooManyOpenedFiles"}

\* A handle of a shared directory does what its file and its options say.
DiskFaithful ==
    ReadOnlyKept /\ FilesAreHandles /\ PathIsHandle /\ ListedOnce /\ FailedCreateHarmless
==============================================================================
